------------------------------ MODULE AnswerQueue ------------------------------
(***************************************************************************)
(* What the API server promises to its clients, without saying how: those  *)
(* that ask are answered in the order in which they asked, one at a time,  *)
(* commands at once; what was said of an answer is never taken back; the   *)
(* log of a conversation only grows, and an answer becomes complete and    *)
(* gets into the log in one step.  RequestPipeline implements it.          *)
(***************************************************************************)
EXTENDS Naturals, Sequences, SequencesExt

CONSTANTS
  Slots,             \* requests the server may be handling at once
  Conversations,     \* conversations with a log
  NoTopic            \* a request that belongs to no conversation

VARIABLES
  state,             \* what has become of each request
  topic,             \* its conversation
  said,              \* what was said of its answer
  line,              \* those that wait, in the order in which they asked
  log                \* the messages of each conversation

vars == <<state, topic, said, line, log>>

Init ==
  /\ state = [r \in Slots |-> "free"] /\ topic = [r \in Slots |-> NoTopic]
  /\ said = [r \in Slots |-> <<>>] /\ line = <<>>
  /\ log = [c \in Conversations |-> <<>>]

Turns(r, to) == state' = [state EXCEPT ![r] = to]

\* r's answer goes on from what was said of it.
Speaks(r) ==
  /\ IsPrefix(said[r], said'[r])
  /\ said' = [said EXCEPT ![r] = said'[r]]

\* Only the log of the conversation t grows.
Logs(t) ==
  IF t \in Conversations
  THEN IsPrefix(log[t], log'[t]) /\ log' = [log EXCEPT ![t] = log'[t]]
  ELSE UNCHANGED log

\* A client sends a request, with what is new in its conversation; it has no other
\* request there.
Opens(r, t) ==
  /\ state[r] = "free"
  /\ t \in Conversations => \A other \in Slots : state[other] = "free" \/ topic[other] # t
  /\ topic' = [topic EXCEPT ![r] = t]
  /\ Logs(t)

Ask(r, t) ==
  /\ Opens(r, t)
  /\ Turns(r, "waiting") /\ line' = Append(line, r)
  /\ UNCHANGED said

\* A command is answered at once, whoever waits.
Command(r, t) ==
  /\ Opens(r, t)
  /\ Turns(r, "completed") /\ Speaks(r)
  /\ UNCHANGED line

\* The first of those that wait, when nobody is being answered.
Begin ==
  /\ \A r \in Slots : state[r] # "answering"
  /\ line # <<>> /\ Turns(Head(line), "answering") /\ line' = Tail(line)
  /\ UNCHANGED <<topic, said, log>>

Say(r) ==
  /\ state[r] = "answering"
  /\ Speaks(r)
  /\ UNCHANGED <<state, topic, line, log>>

\* The answer is complete and, but for one with tool calls, in the log.
Answer(r) ==
  /\ state[r] = "answering" /\ Turns(r, "completed")
  /\ Speaks(r)
  /\ Logs(topic[r])
  /\ topic[r] \in Conversations => Len(log'[topic[r]]) <= Len(log[topic[r]]) + 1
  /\ UNCHANGED <<topic, line>>

Refuse(r) ==
  /\ state[r] = "answering" /\ Turns(r, "failed")
  /\ UNCHANGED <<topic, said, line, log>>

Leave(r) ==
  /\ state[r] \in {"completed", "failed"} /\ Turns(r, "free")
  /\ topic' = [topic EXCEPT ![r] = NoTopic] /\ said' = [said EXCEPT ![r] = <<>>]
  /\ UNCHANGED <<line, log>>

Next ==
  \/ Begin
  \/ \E r \in Slots :
       \/ \E t \in Conversations \cup {NoTopic} : Ask(r, t) \/ Command(r, t)
       \/ Say(r) \/ Answer(r) \/ Refuse(r) \/ Leave(r)

Spec == Init /\ [][Next]_vars
================================================================================
