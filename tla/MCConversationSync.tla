-------------------------- MODULE MCConversationSync --------------------------
(***************************************************************************)
(* ConversationSync on small instances.  One instance with every feature   *)
(* is out of reach, so a behaviour keeps to one of the scenarios:          *)
(*   saves    a /save beside auto-sync, two conversations, no fault, the   *)
(*            project found at startup;                                    *)
(*   crashes  auto-sync alone, two conversations, one of which makes room  *)
(*            for the other and comes back, every fault, a startup that    *)
(*            may fail, crashes;                                           *)
(*   refusals a /save beside auto-sync, one conversation, requests that    *)
(*            are refused, a startup that may fail;                        *)
(*   races    the same with one message, lost answers and crashes: who     *)
(*            creates projects.                                            *)
(***************************************************************************)
EXTENDS ConversationSync, Functions, TLC

VARIABLE scenario

Scenario == {"saves", "crashes", "refusals", "races"}

\* No definition tells conversation ids apart.
Symmetry == Permutations(ConversationId)

\* What a scenario leaves out of the state, and of the steps.
OneConversation == Cardinality({state.id : state \in Range(store.states)}) <= 1
InScenario ==
  CASE scenario = "saves"    -> Len(store.states) <= 2
    [] scenario = "crashes"  -> \A c \in SaveCalls : call[c].pc = "idle"
    [] scenario = "refusals" -> OneConversation /\ Len(store.messages) <= 2
    [] scenario = "races"    -> OneConversation /\ Len(store.messages) <= 1
                                /\ Len(store.states) <= 2

\* The server did what it was asked to do, and its answer is lost.
Lost(c) == call'[c].reply.status = "error"

MCInit ==
  /\ Init /\ scenario \in Scenario
  /\ scenario = "saves" => service.space # None

MCNext ==
  /\ \/ Application
     \/ TimerFires
     \/ \E c \in Calls : Serve(c) /\ (Lost(c) => scenario \in {"crashes", "races"})
     \/ \E c \in Calls : Resume(c)
     \/ scenario # "saves" /\ \E c \in Calls : Refuse(c)
     \/ scenario \in {"crashes", "races"} /\ Restart
  /\ UNCHANGED scenario /\ InScenario'

MCSpec == MCInit /\ [][MCNext]_<<vars, scenario>>
===============================================================================
