------------------------------- MODULE MCSuite ------------------------------
(* A suite in the shape of the README's example: the first endpoint creates  *)
(* an item and stores its id, the second uses and replaces it, the third     *)
(* cleans up and always runs; an ordinary endpoint follows.                  *)
EXTENDS Suite

MCAlwaysRun == <<FALSE, FALSE, TRUE, FALSE>>
MCUses == <<{"price"}, {"id"}, {"id"}, {}>>
MCStores == <<{"id"}, {"id"}, {}, {}>>
=============================================================================
