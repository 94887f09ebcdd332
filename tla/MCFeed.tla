------------------------------- MODULE MCFeed -------------------------------
(* A ring of two places, two notifications, and one crash, failure or echo    *)
(* that ends late; the internet may be up, without DNS, or down.              *)
EXTENDS Feed
=============================================================================
