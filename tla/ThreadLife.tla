----------------------------- MODULE ThreadLife -----------------------------
(***************************************************************************)
(* What the GUI thread and other programs see of a thread that is started, *)
(* told to end by an event it has created itself, and joined: the access   *)
(* control server, its client and the video server are started and stopped *)
(* in this way.  A thread that ends by itself leaves its handle behind     *)
(* until the next stop; with a handle, nothing is started.  A stop is one  *)
(* step here, however long it takes, unless it came before the event: then *)
(* it waits for the thread to end by itself.                               *)
(***************************************************************************)

VARIABLES
  life,     \* "none", "starting", "running", or "ended" with its handle left
  waits     \* a stop that came too early waits

Init == life = "none" /\ waits = FALSE

Start == ~waits /\ life = "none" /\ life' = "starting" /\ UNCHANGED waits

Runs == life = "starting" /\ life' = "running" /\ UNCHANGED waits

\* By itself; for a stop that waits, its wait is over.
Ends ==
  /\ life \in {"starting", "running"}
  /\ life' = IF waits THEN "none" ELSE "ended"
  /\ waits' = FALSE

Stop == ~waits /\ life' = "none" /\ UNCHANGED waits

StopTooEarly == ~waits /\ life = "starting" /\ waits' = TRUE /\ UNCHANGED life

Next == Start \/ Runs \/ Ends \/ Stop \/ StopTooEarly

Spec == Init /\ [][Next]_<<life, waits>>
=============================================================================
