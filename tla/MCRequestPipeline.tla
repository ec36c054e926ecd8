-------------------------- MODULE MCRequestPipeline --------------------------
(***************************************************************************)
(* RequestPipeline on small instances.  Long answers within conversations  *)
(* are out of reach, so a behaviour keeps to one of the scenarios:         *)
(*   conversation  an agent of each API with a conversation, beside a chat *)
(*                 client without one; a completion streams one piece;     *)
(*   answers       requests without a conversation, one at a time, whose   *)
(*                 completions stream up to MaxPieces pieces.              *)
(***************************************************************************)
EXTENDS RequestPipeline, TLC

CONSTANTS agent, other, c1
VARIABLE scenario

Kind(api, stream, tools, reasoning, conversation, answers) ==
  [api |-> api, stream |-> stream, tools |-> tools, reasoning |-> reasoning,
   conversation |-> conversation, answers |-> answers]

MCProfiles ==
  agent :> {Kind("responses", TRUE, TRUE, TRUE, c1, {"text", "call", "reasoning", "misrouted"}),
            Kind("chat", TRUE, TRUE, TRUE, c1, {"text", "block", "call", "reasoning", "native"}),
            Kind("responses", TRUE, TRUE, FALSE, Stateless,
                 {"text", "object", "call", "misrouted"}),
            Kind("chat", TRUE, TRUE, FALSE, Stateless, {"text", "block", "object", "call"})}
  @@ other :> {Kind("chat", FALSE, FALSE, FALSE, Stateless, {"text"})}

\* Enough for a question, its answer, a tool call and its output in each API.
MCMaxTurns == [responses |-> 4, chat |-> 3]

\* What a scenario leaves out.
InScenario ==
  CASE scenario = "conversation" ->
         /\ \A r \in Slots : Len(request[r].content) <= 1
         /\ request[agent].pc # "idle" => Stateful(request[agent])
    [] scenario = "answers" ->
         /\ request[other].pc = "idle"
         /\ request[agent].pc # "idle" => ~Stateful(request[agent])

MCInit == Init /\ scenario \in {"conversation", "answers"}
MCNext == Next /\ UNCHANGED scenario /\ InScenario'

MCSpec == MCInit /\ [][MCNext]_<<vars, scenario>>
MCFairSpec == MCSpec /\ Fairness
==============================================================================
