---------------------------- MODULE Exploration -----------------------------
(***************************************************************************)
(* What one exploration of a root promises, whatever its algorithm: the    *)
(* solutions under the root are open; each of them is closed only by being *)
(* reported, or by leaving in a packet that the server has taken or that   *)
(* the stock of the process has; and the root is declared exhausted only   *)
(* when nothing is open.                                                   *)
(***************************************************************************)
CONSTANT Solutions    \* the solutions of the puzzle

VARIABLES
  open,       \* solutions the exploration still has to reach
  found,      \* solutions reported to the server
  sent,       \* solutions under the packets the server has taken
  kept,       \* solutions under the packets put in the stock of the process
  lost,       \* solutions under the packets a flush dropped
  verdict     \* "running", "exhausted", "stopped", "unknown" or "exit"

exploration == <<open, found, sent, kept, lost, verdict>>

ExplorationInit ==
  /\ open \in SUBSET Solutions
  /\ found = {} /\ sent = {} /\ kept = {} /\ lost = {}
  /\ verdict = "running"

\* A place that receives solutions receives open ones.
Receives(place, next) == place \subseteq next /\ next \ place \subseteq open

\* Open solutions are reported or handed out, never both; those that are closed
\* have been. When the exchange breaks, what is handed out stays open.
Share ==
  /\ Receives(found, found') /\ Receives(sent, sent') /\ Receives(kept, kept')
  /\ (found' \ found) \cap ((sent' \ sent) \cup (kept' \ kept)) = {}
  /\ open' \subseteq open
  /\ open \ open' \subseteq found' \cup sent' \cup kept'
  /\ UNCHANGED lost

\* Solutions are reported; they are closed or will be met again.
Report == Share /\ UNCHANGED <<sent, kept>>

\* All the open work leaves at once; without a connection it is lost (the lease
\* of the root, which the server holds until the acknowledgement, is what is left).
GiveBack ==
  /\ open' = {}
  /\ \/ Share
     \/ /\ Receives(found, found') /\ Receives(lost, lost')
        /\ open \subseteq found' \cup lost'
        /\ UNCHANGED <<sent, kept>>

ExplorationNext ==
  /\ verdict = "running"
  /\ \/ Report /\ verdict' \in {"running", "exit"}
     \/ Share /\ verdict' = "running"
     \/ GiveBack /\ verdict' \in {"stopped", "exhausted"}
     \/ open = {} /\ verdict' = "exhausted" /\ UNCHANGED <<open, found, sent, kept, lost>>
     \/ verdict' \in {"stopped", "unknown"} /\ UNCHANGED <<open, found, sent, kept, lost>>

ExplorationSpec == ExplorationInit /\ [][ExplorationNext]_exploration
=============================================================================
