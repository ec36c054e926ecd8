-------------------------- MODULE PrimaryStoreProofs --------------------------
(* What holds of the primary store for any number of spaces, conversations and  *)
(* messages, any budget of faults and restarts, and any number of attempts:     *)
(* the id map, the requests in flight and the clean rows only ever speak of     *)
(* what the server has; nothing this program wrote is forgotten; and the        *)
(* account keeps one project.                                                   *)
(*                                                                              *)
(* None of these is inductive alone.  A mapping may come from a refresh, so     *)
(* Entitled says which refreshes are under way; a clean row may come from a     *)
(* push that has been answered, so it says what a push in each of its states is *)
(* entitled to; and the server must never forget a resource.  Tracked says      *)
(* which runs of a push may end without another behind them, and Single which   *)
(* spaces may still become projects and where the store will find them.         *)
EXTENDS PrimaryStore, FiniteSetTheorems, TLAPS

(* The fields of the records that the steps update with EXCEPT *)
IsServer(s) == DOMAIN s = Ids /\ \A id \in Ids : DOMAIN s[id] = {"st", "v", "in"}

IsDb(d) == DOMAIN d = Ids /\ \A id \in Ids : DOMAIN d[id] = {"v", "dirty", "deleted", "by"}

IsTask(t) ==
    /\ DOMAIN t = Ids
    /\ \A id \in Ids : DOMAIN t[id] = Slots
    /\ \A id \in Ids, slot \in Slots : DOMAIN t[id][slot] = {"pc", "op", "v", "n"}

Shape ==
    /\ IsServer(server)
    /\ IsDb(db)
    /\ IsTask(task)
    /\ \A r \in refresh : DOMAIN r = {"id", "act", "v", "pc"}

(* A run of a push edits or deletes what the server has, and clears the flag of *)
(* what the server has, or of a deletion. *)
RunSound(run, known) ==
    /\ run.pc = "http" => run.op = "post" \/ known
    /\ run.pc = "clear" => run.op = "del" \/ known

RunsSound == \A id \in Ids, slot \in Slots : RunSound(task[id][slot], Known(id))

(* A refresh is of a resource that came from the server. *)
RefreshesSound == \A r \in refresh : r.act = "refresh" => r.id \in Ids /\ Known(r.id)

(* The rows of d, on a server that has what is in known *)
RowSound(row, known) == Present(row) /\ ~row.dirty => known \/ row.deleted

RowsSound == \A id \in Ids : RowSound(db[id], Known(id))

Entitled == Shape /\ MapSound /\ RunsSound /\ RefreshesSound /\ RowsSound

(* From one state of the server to the next: what it had it still knows. *)
Remembers(s, t) == \A id \in Ids : s[id].st # "none" => t[id].st # "none"

-----------------------------------------------------------------------------
LEMMA KilledKeeps ==
    ASSUME NEW id \in Ids, IsServer(server)
    PROVE  IsServer(Killed(id)) /\ Remembers(server, Killed(id))
<1>1. ASSUME NEW k \in Ids
      PROVE  /\ DOMAIN Killed(id)[k] = {"st", "v", "in"}
             /\ server[k].st # "none" => Killed(id)[k].st # "none"
  <2> DEFINE gone == {id} \cup Within(id, [c \in Conversations \cup Messages |-> server[c].in])
  <2>1. Killed(id)[k] = IF k \in gone /\ server[k].st = "live"
                        THEN [server[k] EXCEPT !.st = "deleted"] ELSE server[k]
    BY <1>1 DEF Killed
  <2>2. DOMAIN server[k] = {"st", "v", "in"}
    BY <1>1 DEF IsServer
  <2> HIDE DEF gone
  <2> QED  BY <2>1, <2>2
<1>2. DOMAIN Killed(id) = Ids  BY DEF Killed
<1> QED  BY <1>1, <1>2 DEF IsServer, Remembers

(* What an answered request leaves on the server *)
LEMMA AnswerKeeps ==
    ASSUME NEW id \in Ids, NEW op, NEW v, IsServer(server)
    PROVE  /\ IsServer(ServerAfter(id, op, v))
           /\ Remembers(server, ServerAfter(id, op, v))
           /\ op = "post" => ServerAfter(id, op, v)[id].st # "none"
<1>1. CASE op = "post"
  <2>1. ServerAfter(id, op, v) = [server EXCEPT ![id] = [st |-> "live", v |-> v, in |-> Container(id)]]
    BY <1>1 DEF ServerAfter
  <2> QED  BY <2>1 DEF IsServer, Remembers
<1>2. CASE op = "put"
  <2>1. ServerAfter(id, op, v) = [server EXCEPT ![id] = [server[id] EXCEPT !.v = v]]
    BY <1>2 DEF ServerAfter
  <2> QED  BY <2>1, <1>2 DEF IsServer, Remembers
<1>3. CASE op # "post" /\ op # "put"
  <2>1. ServerAfter(id, op, v) = Killed(id)
    BY <1>3 DEF ServerAfter
  <2> QED  BY <2>1, <1>3, KilledKeeps
<1> QED  BY <1>1, <1>2, <1>3

(* What a push decides to do *)
LEMMA PushDecision ==
    ASSUME NEW id \in Ids
    PROVE  push(id) \in {"put", "del"} => id \in idmap
BY DEF push, pushSpace, pushConversation, pushMessage, PushDeletion
-----------------------------------------------------------------------------
(* The initial states *)
LEMMA InitEntitled == Init => Entitled
<1> SUFFICES ASSUME Init PROVE Entitled
  OBVIOUS
<1> USE DEF Init
<1>1. \A id \in Ids : DOMAIN server[id] = {"st", "v", "in"}
  BY DEF Unknown
<1>2. Shape
  BY <1>1 DEF Shape, IsServer, IsDb, IsTask, NoRow, Idle
<1>3. MapSound  BY DEF MapSound
<1>4. RunsSound  BY DEF RunsSound, RunSound, Idle
<1>5. RefreshesSound  BY DEF RefreshesSound
<1>6. RowsSound  BY DEF RowsSound, RowSound, Present, NoRow
<1> QED  BY <1>2, <1>3, <1>4, <1>5, <1>6 DEF Entitled

-----------------------------------------------------------------------------
(* Parts of the invariant that survive when the server only learns.  Each lemma *)
(* is about one part, and about the steps that leave its own variables alone.   *)
LEMMA MapKept ==
    ASSUME MapSound, Remembers(server, server'),
           idmap' \cup saving' \cup saved' \subseteq idmap \cup saving \cup saved
    PROVE  MapSound'
BY DEF MapSound, Remembers, Known

LEMMA RunsKept ==
    ASSUME RunsSound, Remembers(server, server'), UNCHANGED task
    PROVE  RunsSound'
BY DEF RunsSound, RunSound, Remembers, Known

(* One run changes, to one that is sound. *)
LEMMA RunChanged ==
    ASSUME RunsSound, IsTask(task), Remembers(server, server'),
           NEW id \in Ids, NEW slot \in Slots, NEW run,
           DOMAIN run = {"pc", "op", "v", "n"},
           RunSound(run, Known(id)'),
           task' = [task EXCEPT ![id][slot] = run]
    PROVE  RunsSound' /\ IsTask(task')
<1>1. ASSUME NEW k \in Ids, NEW s \in Slots
      PROVE  task'[k][s] = IF k = id /\ s = slot THEN run ELSE task[k][s]
  BY <1>1 DEF IsTask
<1>2. IsTask(task')  BY <1>1 DEF IsTask
<1>3. ASSUME NEW k \in Ids, NEW s \in Slots
      PROVE  RunSound(task'[k][s], Known(k)')
  <2>1. CASE k = id /\ s = slot  BY <1>1, <1>3, <2>1
  <2>2. CASE ~(k = id /\ s = slot)
    BY <1>1, <1>3, <2>2 DEF RunsSound, RunSound, Remembers, Known
  <2> QED  BY <2>1, <2>2
<1> QED  BY <1>2, <1>3 DEF RunsSound

LEMMA RefreshesKept ==
    ASSUME RefreshesSound, Remembers(server, server'), refresh' \subseteq refresh
    PROVE  RefreshesSound'
BY DEF RefreshesSound, Remembers, Known

LEMMA RowsKept ==
    ASSUME RowsSound, Remembers(server, server'), UNCHANGED db
    PROVE  RowsSound'
BY DEF RowsSound, RowSound, Remembers, Known

(* Steps that leave the server alone *)
LEMMA SameServer == ASSUME UNCHANGED server PROVE Remembers(server, server')
BY DEF Remembers

-----------------------------------------------------------------------------
(* The steps of a push *)
LEMMA BeginPushStep ==
    ASSUME Entitled, NEW id \in Ids, NEW slot \in Slots, BeginPush(id, slot)
    PROVE  Entitled'
<1> DEFINE d == push(id)
           run == [pc |-> IF d = "forget" THEN "clear" ELSE "http",
                   op |-> IF d = "forget" THEN "del" ELSE d,
                   v |-> IF d \in {"forget", "del"} THEN db[id].v ELSE redux[id],
                   n |-> IF d = "forget" THEN 0 ELSE 1]
<1>1. /\ UNCHANGED <<server, idmap, saving, saved, refresh>>
      /\ task' = IF d \in {"forget", "del", "put", "post"}
                 THEN [task EXCEPT ![id][slot] = run] ELSE task
      /\ db' = IF d \in {"put", "post", "saved"} THEN update(db, id, redux[id], TRUE, slot) ELSE db
  BY DEF BeginPush, mapVars, pullVars
<1>2. Remembers(server, server')  BY <1>1, SameServer
<1>3. RunsSound' /\ IsTask(task')
  <2>1. CASE d \in {"forget", "del", "put", "post"}
    <3>1. d \in {"put", "del"} => Known(id)
      <4>1. d \in {"put", "del"} => id \in idmap  BY PushDecision
      <4> HIDE DEF d
      <4> QED  BY <4>1 DEF Entitled, MapSound
    <3>2. RunSound(run, Known(id)')
      <4> HIDE DEF d
      <4> QED  BY <1>1, <2>1, <3>1 DEF RunSound, Known
    <3>3. DOMAIN run = {"pc", "op", "v", "n"}  OBVIOUS
    <3>4. task' = [task EXCEPT ![id][slot] = run]  BY <1>1, <2>1
    <3> HIDE DEF run, d
    <3> QED  BY <1>2, <3>2, <3>3, <3>4, RunChanged DEF Entitled, Shape
  <2>2. CASE ~(d \in {"forget", "del", "put", "post"})
    <3> HIDE DEF run, d
    <3> QED  BY <1>1, <1>2, <2>2, RunsKept DEF Entitled, Shape
  <2> QED  BY <2>1, <2>2
<1>4. RowsSound' /\ IsDb(db')
  <2> HIDE DEF d
  <2>1. CASE d \in {"put", "post", "saved"}
    <3>1. db' = [db EXCEPT ![id] = [v |-> redux[id], dirty |-> TRUE, deleted |-> FALSE, by |-> slot]]
      BY <1>1, <2>1 DEF update
    <3> QED  BY <3>1, <1>1 DEF Entitled, Shape, IsDb, RowsSound, RowSound, Known, Present
  <2>2. CASE ~(d \in {"put", "post", "saved"})
    BY <1>1, <1>2, <2>2, RowsKept DEF Entitled, Shape, IsDb
  <2> QED  BY <2>1, <2>2
<1>5. MapSound' /\ RefreshesSound'
  BY <1>1, <1>2, MapKept, RefreshesKept DEF Entitled
<1> HIDE DEF run, d
<1> QED  BY <1>1, <1>3, <1>4, <1>5 DEF Entitled, Shape

(* The answer of a POST, PUT or DELETE reaches the server and comes back. *)
LEMMA HttpOkStep ==
    ASSUME Entitled, NEW id \in Ids, NEW slot \in Slots, HttpOk(id, slot)
    PROVE  Entitled'
<1> DEFINE t == task[id][slot]
           learnt == IF t.op = "post" THEN {id} ELSE {}
<1>1. /\ t.pc = "http"
      /\ server' = ServerAfter(id, t.op, t.v)
      /\ idmap' = idmap \cup learnt
      /\ saving' = saving \cup (learnt \ saved)
      /\ UNCHANGED <<saved, db, refresh>>
      /\ \/ task' = [task EXCEPT ![id][slot] = [t EXCEPT !.pc = "clear", !.n = 0]]
         \/ task' = [task EXCEPT ![id][slot] = Idle]
  BY DEF HttpOk, InHttp, pullVars
<1>2. /\ IsServer(server') /\ Remembers(server, server')
      /\ t.op = "post" => Known(id)'
  BY <1>1, AnswerKeeps DEF Entitled, Shape, Known
<1>3. /\ DOMAIN t = {"pc", "op", "v", "n"}
      /\ RunSound(t, Known(id))
  BY DEF Entitled, Shape, IsTask, RunsSound
<1>4. RunsSound' /\ IsTask(task')
  <2>1. t.op = "post" \/ Known(id)'
    BY <1>1, <1>2, <1>3 DEF RunSound, Remembers, Known
  <2>2. CASE task' = [task EXCEPT ![id][slot] = [t EXCEPT !.pc = "clear", !.n = 0]]
    <3> DEFINE run == [t EXCEPT !.pc = "clear", !.n = 0]
    <3>1. DOMAIN run = {"pc", "op", "v", "n"} /\ run.pc = "clear"
      BY <1>3
    <3>2. RunSound(run, Known(id)')
      BY <1>2, <2>1, <3>1 DEF RunSound
    <3> HIDE DEF run
    <3> QED  BY <1>2, <2>2, <3>1, <3>2, RunChanged DEF Entitled, Shape, run
  <2>3. CASE task' = [task EXCEPT ![id][slot] = Idle]
    <3>1. DOMAIN Idle = {"pc", "op", "v", "n"} /\ RunSound(Idle, Known(id)')
      BY DEF Idle, RunSound
    <3> QED  BY <1>2, <2>3, <3>1, RunChanged DEF Entitled, Shape
  <2> QED  BY <1>1, <2>2, <2>3
<1>5. MapSound'
  <2>1. \A k \in learnt : k \in Ids /\ Known(k)'  BY <1>2
  <2> HIDE DEF learnt
  <2> QED  BY <1>1, <1>2, <2>1 DEF Entitled, MapSound, Remembers, Known
<1>6. RefreshesSound' /\ RowsSound'
  BY <1>1, <1>2, RefreshesKept, RowsKept DEF Entitled
<1> HIDE DEF learnt, t
<1> QED  BY <1>1, <1>2, <1>4, <1>5, <1>6 DEF Entitled, Shape

LEMMA HttpRefusedStep ==
    ASSUME Entitled, NEW id \in Ids, NEW slot \in Slots, HttpRefused(id, slot)
    PROVE  Entitled'
<1>1. /\ task' = [task EXCEPT ![id][slot] = Idle]
      /\ UNCHANGED <<server, idmap, saving, saved, db, refresh>>
  BY DEF HttpRefused, mapVars
<1>2. Remembers(server, server')  BY <1>1, SameServer
<1>3. DOMAIN Idle = {"pc", "op", "v", "n"} /\ RunSound(Idle, Known(id)')
  BY DEF Idle, RunSound
<1>4. RunsSound' /\ IsTask(task')
  BY <1>1, <1>2, <1>3, RunChanged DEF Entitled, Shape
<1>5. MapSound' /\ RefreshesSound' /\ RowsSound'
  BY <1>1, <1>2, MapKept, RefreshesKept, RowsKept DEF Entitled
<1> QED  BY <1>1, <1>4, <1>5 DEF Entitled, Shape

LEMMA HttpFaultStep ==
    ASSUME Entitled, NEW id \in Ids, NEW slot \in Slots, NEW executed \in BOOLEAN,
           HttpFault(id, slot, executed)
    PROVE  Entitled'
<1> DEFINE t == task[id][slot]
           run == IF t.n < Attempts THEN [t EXCEPT !.n = t.n + 1] ELSE Idle
<1>1. /\ t.pc = "http"
      /\ server' = IF executed THEN ServerAfter(id, t.op, t.v) ELSE server
      /\ task' = [task EXCEPT ![id][slot] = run]
      /\ UNCHANGED <<idmap, saving, saved, db, refresh>>
  BY DEF HttpFault, InHttp, mapVars, pullVars
<1>2. IsServer(server') /\ Remembers(server, server')
  <2>1. CASE executed
    BY <1>1, <2>1, AnswerKeeps DEF Entitled, Shape
  <2>2. CASE ~executed
    BY <1>1, <2>2, SameServer DEF Entitled, Shape, IsServer
  <2> QED  BY <2>1, <2>2
<1>3. /\ DOMAIN t = {"pc", "op", "v", "n"}
      /\ RunSound(t, Known(id))
  BY DEF Entitled, Shape, IsTask, RunsSound
<1>4. DOMAIN run = {"pc", "op", "v", "n"} /\ RunSound(run, Known(id)')
  <2>1. CASE run = Idle  BY <2>1 DEF Idle, RunSound
  <2>2. CASE run = [t EXCEPT !.n = t.n + 1]
    <3>1. run.pc = t.pc /\ run.op = t.op /\ DOMAIN run = DOMAIN t
      BY <1>3, <2>2
    <3> HIDE DEF run, t
    <3> QED  BY <1>1, <1>2, <1>3, <3>1 DEF RunSound, Remembers, Known
  <2> QED  BY <2>1, <2>2
<1>5. RunsSound' /\ IsTask(task')
  <2> HIDE DEF run
  <2> QED  BY <1>1, <1>2, <1>4, RunChanged DEF Entitled, Shape
<1>6. MapSound' /\ RefreshesSound' /\ RowsSound'
  BY <1>1, <1>2, MapKept, RefreshesKept, RowsKept DEF Entitled
<1> HIDE DEF run, t
<1> QED  BY <1>1, <1>2, <1>5, <1>6 DEF Entitled, Shape

LEMMA ClearDirtyStep ==
    ASSUME Entitled, NEW id \in Ids, NEW slot \in Slots, ClearDirty(id, slot)
    PROVE  Entitled'
<1> DEFINE t == task[id][slot]
<1>1. /\ t.pc = "clear"
      /\ db' = putSynced(db, id, t.v, t.op = "del", "none")
      /\ task' = [task EXCEPT ![id][slot] = Idle]
      /\ UNCHANGED <<server, idmap, saving, saved, refresh>>
  BY DEF ClearDirty, mapVars, pullVars
<1>2. Remembers(server, server')  BY <1>1, SameServer
<1>3. DOMAIN Idle = {"pc", "op", "v", "n"} /\ RunSound(Idle, Known(id)')
  BY DEF Idle, RunSound
<1>4. RunsSound' /\ IsTask(task')
  BY <1>1, <1>2, <1>3, RunChanged DEF Entitled, Shape
<1>5. RowsSound' /\ IsDb(db')
  <2> DEFINE row == [v |-> t.v, dirty |-> FALSE, deleted |-> (t.op = "del"), by |-> "none"]
  <2>1. db' = [db EXCEPT ![id] = row]
    BY <1>1 DEF putSynced
  <2>2. RowSound(row, Known(id)')
    <3>1. t.op = "del" \/ Known(id)'
      BY <1>1 DEF Entitled, RunsSound, RunSound, Known
    <3>2. t.op = "del" => row.deleted  OBVIOUS
    <3> HIDE DEF row
    <3> QED  BY <3>1, <3>2 DEF RowSound
  <2>3. DOMAIN row = {"v", "dirty", "deleted", "by"}  OBVIOUS
  <2> HIDE DEF row
  <2> QED  BY <1>1, <2>1, <2>2, <2>3 DEF Entitled, Shape, IsDb, RowsSound, RowSound, Known
<1>6. MapSound' /\ RefreshesSound'
  BY <1>1, <1>2, MapKept, RefreshesKept DEF Entitled
<1> HIDE DEF t
<1> QED  BY <1>1, <1>4, <1>5, <1>6 DEF Entitled, Shape

LEMMA RetryWatcherCrashStep ==
    ASSUME Entitled, NEW m \in Messages, RetryWatcherCrash(m)
    PROVE  Entitled'
<1>1. /\ task' = [id \in Ids |-> IF id \in Messages THEN [task[id] EXCEPT !["r"] = Idle] ELSE task[id]]
      /\ UNCHANGED <<server, idmap, saving, saved, db, refresh>>
  BY DEF RetryWatcherCrash, mapVars, pullVars
<1>2. Remembers(server, server')  BY <1>1, SameServer
<1>3. ASSUME NEW k \in Ids
      PROVE  DOMAIN task'[k] = Slots /\ \A s \in Slots : task'[k][s] \in {Idle, task[k][s]}
  <2>1. DOMAIN task[k] = Slots  BY <1>3 DEF Entitled, Shape, IsTask
  <2>2. task'[k] = IF k \in Messages THEN [task[k] EXCEPT !["r"] = Idle] ELSE task[k]
    BY <1>1, <1>3
  <2> QED  BY <2>1, <2>2
<1>4. IsTask(task')
  <2>1. DOMAIN task' = Ids  BY <1>1
  <2>2. DOMAIN Idle = {"pc", "op", "v", "n"}  BY DEF Idle
  <2> QED  BY <1>3, <2>1, <2>2 DEF Entitled, Shape, IsTask
<1>5. RunsSound'
  <2>1. \A known : RunSound(Idle, known)  BY DEF RunSound, Idle
  <2>2. \A k \in Ids : Known(k)' <=> Known(k)  BY <1>1 DEF Known
  <2> SUFFICES ASSUME NEW k \in Ids, NEW s \in Slots
               PROVE  RunSound(task'[k][s], Known(k)')
    BY DEF RunsSound
  <2>3. CASE task'[k][s] = Idle  BY <2>1, <2>3
  <2>4. CASE task'[k][s] = task[k][s]
    BY <2>2, <2>4 DEF Entitled, RunsSound, RunSound
  <2> QED  BY <1>3, <2>3, <2>4
<1>6. MapSound' /\ RefreshesSound' /\ RowsSound'
  BY <1>1, <1>2, MapKept, RefreshesKept, RowsKept DEF Entitled
<1> QED  BY <1>1, <1>4, <1>5, <1>6 DEF Entitled, Shape

-----------------------------------------------------------------------------
(* What the server sent *)
LEMMA ReceivedSound ==
    ASSUME NEW id \in Ids, IsServer(server)
    PROVE  LET r == Received(id)
           IN  /\ DOMAIN r = {"id", "act", "v", "pc"}
               /\ r.act = "refresh" => r.id \in Ids /\ Known(r.id)
BY DEF Received, Started, Known

(* New refreshes that are sound, or as they were; nothing else changes. *)
LEMMA RefreshesAdded ==
    ASSUME Entitled, UNCHANGED <<server, idmap, saving, saved, db, task>>,
           \A r \in refresh' :
               \/ r \in refresh
               \/ /\ DOMAIN r = {"id", "act", "v", "pc"}
                  /\ r.act = "refresh" => r.id \in Ids /\ Known(r.id)
    PROVE  Entitled'
<1>1. Remembers(server, server')  BY SameServer
<1>2. MapSound' /\ RunsSound' /\ RowsSound'
  BY <1>1, MapKept, RunsKept, RowsKept DEF Entitled
<1>3. RefreshesSound'  BY DEF Entitled, RefreshesSound, Known
<1>4. Shape'  BY DEF Entitled, Shape, IsServer, IsDb, IsTask
<1> QED  BY <1>2, <1>3, <1>4 DEF Entitled

LEMMA PullStep ==
    ASSUME Entitled,
           \/ pullSpaces \/ pullSpacesFails
           \/ \E c \in pulling : pullConversation(c) \/ pullConversationFails(c)
    PROVE  Entitled'
<1>1. UNCHANGED <<server, idmap, saving, saved, db, task>>
  BY DEF pullSpaces, pullSpacesFails, pullConversation, pullConversationFails, mapVars, pushVars
<1>2. ASSUME NEW r \in refresh', r \notin refresh
      PROVE  \E k \in Ids : r = Received(k)
  <2>1. CASE pullSpaces  BY <1>2, <2>1 DEF pullSpaces, Ids
  <2>2. CASE pullSpacesFails  BY <1>2, <2>2 DEF pullSpacesFails
  <2>3. ASSUME NEW c \in pulling, pullConversation(c)
        PROVE  \E k \in Ids : r = Received(k)
    <3>1. c \in idmap
      BY <1>2, <2>3 DEF pullConversation
    <3>2. c \in Ids
      BY <3>1 DEF Entitled, MapSound
    <3>3. r \in {Received(c)} \cup
               {Received(k) : k \in {c} \cup {m \in Messages : Known(m) /\ server[m].in = c}}
      BY <1>2, <2>3 DEF pullConversation
    <3>4. PICK k \in {c} \cup Messages : r = Received(k)
      BY <3>3
    <3>5. k \in Ids  BY <3>2, <3>4 DEF Ids
    <3> QED  BY <3>4, <3>5
  <2>4. ASSUME NEW c \in pulling, pullConversationFails(c)
        PROVE  \E k \in Ids : r = Received(k)
    BY <1>2, <2>4 DEF pullConversationFails
  <2> QED  BY <2>1, <2>2, <2>3, <2>4
<1>3. ASSUME NEW r \in refresh', r \notin refresh
      PROVE  /\ DOMAIN r = {"id", "act", "v", "pc"}
             /\ r.act = "refresh" => r.id \in Ids /\ Known(r.id)
  <2>1. PICK k \in Ids : r = Received(k)  BY <1>2, <1>3
  <2> QED  BY <2>1, ReceivedSound DEF Entitled, Shape
<1> QED  BY <1>1, <1>3, RefreshesAdded

(* A refresh takes its next step: it is still of what it was of, or it is over. *)
LEMMA RefreshMoves ==
    ASSUME Entitled, NEW r \in refresh, UNCHANGED server,
           refresh' \subseteq (refresh \ {r}) \cup {[r EXCEPT !.pc = "write"]}
    PROVE  /\ RefreshesSound'
           /\ \A x \in refresh' : DOMAIN x = {"id", "act", "v", "pc"}
<1> DEFINE next == [r EXCEPT !.pc = "write"]
<1>1. DOMAIN r = {"id", "act", "v", "pc"} /\ (r.act = "refresh" => r.id \in Ids /\ Known(r.id))
  BY DEF Entitled, Shape, RefreshesSound
<1>2. DOMAIN next = {"id", "act", "v", "pc"} /\ next.act = r.act /\ next.id = r.id
  BY <1>1
<1>3. \A x \in refresh' : x \in refresh \/ x = next
  OBVIOUS
<1> HIDE DEF next
<1>4. \A x \in refresh' : DOMAIN x = {"id", "act", "v", "pc"}
  BY <1>2, <1>3 DEF Entitled, Shape
<1>5. ASSUME NEW x \in refresh', x.act = "refresh"
      PROVE  x.id \in Ids /\ Known(x.id)'
  BY <1>1, <1>2, <1>3, <1>5 DEF Entitled, RefreshesSound, Known
<1> QED  BY <1>4, <1>5 DEF RefreshesSound

(* A refresh that decides brings a mapping of its own resource at most. *)
LEMMA RefreshDecides ==
    ASSUME Entitled, NEW r \in refresh,
           \/ refreshSpaceFromRemote(r)
           \/ \E same \in BOOLEAN : refreshConversationFromRemote(r, same)
           \/ refreshMessageFromRemote(r)
    PROVE  Entitled'
<1>1. UNCHANGED <<server, db, task>> /\ r.act = "refresh"
  BY DEF refreshSpaceFromRemote, refreshConversationFromRemote, refreshMessageFromRemote,
         InRefresh, pushVars
<1>2. idmap' \cup saving' \cup saved' \subseteq idmap \cup saving \cup saved \cup {r.id}
  BY DEF refreshSpaceFromRemote, refreshConversationFromRemote, refreshMessageFromRemote,
         considerSavingIdMapToIdb, mapVars
<1>3. refresh' \subseteq (refresh \ {r}) \cup {[r EXCEPT !.pc = "write"]}
  BY DEF refreshSpaceFromRemote, refreshConversationFromRemote, refreshMessageFromRemote,
         Ended, Writes
<1>4. MapSound'
  BY <1>1, <1>2 DEF Entitled, MapSound, RefreshesSound, Known
<1>5. RefreshesSound' /\ \A x \in refresh' : DOMAIN x = {"id", "act", "v", "pc"}
  BY <1>1, <1>3, RefreshMoves
<1>6. RunsSound' /\ RowsSound'
  BY <1>1, SameServer, RunsKept, RowsKept DEF Entitled
<1>7. Shape'
  BY <1>1, <1>5 DEF Entitled, Shape, IsServer, IsDb, IsTask
<1> QED  BY <1>4, <1>5, <1>6, <1>7 DEF Entitled

(* Every row becomes sound or stays what it was; a refresh takes a step.        *)
LEMMA RefreshWrites ==
    ASSUME Entitled, NEW r \in refresh,
           UNCHANGED <<server, idmap, saving, saved, task>>,
           refresh' \subseteq (refresh \ {r}) \cup {[r EXCEPT !.pc = "write"]},
           IsDb(db'),
           \A id \in Ids : db'[id] = db[id] \/ RowSound(db'[id], Known(id))
    PROVE  Entitled'
<1>1. RefreshesSound' /\ \A x \in refresh' : DOMAIN x = {"id", "act", "v", "pc"}
  BY RefreshMoves
<1>2. RowsSound'
  <2> SUFFICES ASSUME NEW id \in Ids PROVE RowSound(db'[id], Known(id)')
    BY DEF RowsSound
  <2>1. Known(id)' <=> Known(id)  BY DEF Known
  <2> QED  BY <2>1 DEF Entitled, RowsSound, RowSound
<1>3. MapSound' /\ RunsSound'
  BY SameServer, MapKept, RunsKept DEF Entitled
<1>4. Shape'
  BY <1>1 DEF Entitled, Shape, IsServer, IsTask
<1> QED  BY <1>1, <1>2, <1>3, <1>4 DEF Entitled

LEMMA writeRefreshedStep ==
    ASSUME Entitled, NEW r \in refresh, writeRefreshed(r)
    PROVE  Entitled'
<1>1. /\ r.id \in Ids /\ Known(r.id)
      /\ \/ db' = [db EXCEPT ![r.id].dirty = FALSE]
         \/ db' = [db EXCEPT ![r.id] = [v |-> r.v, dirty |-> FALSE, deleted |-> FALSE, by |-> "none"]]
      /\ refresh' = refresh \ {r}
      /\ UNCHANGED <<server, idmap, saving, saved, task>>
  BY DEF writeRefreshed, Entitled, RefreshesSound, putClean, update, Ended, mapVars, pushVars
<1>2. IsDb(db') /\ \A id \in Ids : id # r.id => db'[id] = db[id]
  BY <1>1 DEF Entitled, Shape, IsDb
<1>3. RowSound(db'[r.id], Known(r.id))
  BY <1>1 DEF RowSound
<1> QED  BY <1>1, <1>2, <1>3, RefreshWrites

(* A soft deletion marks rows deleted, whatever it does to their dirty flag. *)
LEMMA SoftDeleted ==
    ASSUME NEW row, NEW dirty, NEW known, DOMAIN row = {"v", "dirty", "deleted", "by"},
           RowSound(row, known)
    PROVE  /\ DOMAIN softDelete(row, dirty) = {"v", "dirty", "deleted", "by"}
           /\ RowSound(softDelete(row, dirty), known)
<1>1. CASE Present(row)
  <2>1. /\ DOMAIN softDelete(row, dirty) = {"v", "dirty", "deleted", "by"}
        /\ softDelete(row, dirty).deleted
    BY <1>1 DEF softDelete
  <2> QED  BY <2>1 DEF RowSound
<1>2. CASE ~Present(row)
  BY <1>2 DEF softDelete
<1> QED  BY <1>1, <1>2

LEMMA SoftDeleteStep ==
    ASSUME Entitled, NEW r \in refresh, softDeleteInRedux(r) \/ softDeleteInIdb(r)
    PROVE  Entitled'
<1>1. CASE softDeleteInRedux(r)
  <2>1. /\ UNCHANGED <<server, idmap, saving, saved, db, task>>
        /\ refresh' \subseteq (refresh \ {r}) \cup {[r EXCEPT !.pc = "write"]}
    BY <1>1 DEF softDeleteInRedux, mapVars, pushVars, Writes
  <2>2. IsDb(db') /\ \A id \in Ids : db'[id] = db[id]
    BY <2>1 DEF Entitled, Shape, IsDb
  <2> QED  BY <2>1, <2>2, RefreshWrites
<1>2. CASE softDeleteInIdb(r)
  <2>1. /\ UNCHANGED <<server, idmap, saving, saved, task>>
        /\ refresh' = refresh \ {r}
        /\ db' = IF r.id \in Spaces THEN softDeleteSpaceCascade(db, up, r.id, FALSE)
                 ELSE softDeleteConversation(db, r.id, r.act = "local")
    BY <1>2 DEF softDeleteInIdb, mapVars, Ended
  <2>2. DOMAIN db = Ids /\ \A id \in Ids : /\ DOMAIN db[id] = {"v", "dirty", "deleted", "by"}
                                           /\ RowSound(db[id], Known(id))
    BY DEF Entitled, Shape, IsDb, RowsSound
  <2>3. /\ DOMAIN db' = Ids
        /\ \A id \in Ids : \/ db'[id] = db[id]
                           \/ \E dirty \in BOOLEAN : db'[id] = softDelete(db[id], dirty)
    <3>1. CASE r.id \in Spaces
      <4> DEFINE doomed == {r.id} \cup getConversationsBySpaceId(db, up, r.id)
                           \cup UNION {getMessagesByConversationId(db, up, c) :
                                         c \in getConversationsBySpaceId(db, up, r.id)}
      <4>1. db' = IF ~Present(db[r.id]) THEN db
                  ELSE [id \in Ids |-> IF id \in doomed THEN softDelete(db[id], FALSE) ELSE db[id]]
        BY <2>1, <2>2, <3>1 DEF softDeleteSpaceCascade
      <4> HIDE DEF doomed
      <4> QED  BY <2>2, <4>1
    <3>2. CASE r.id \notin Spaces
      <4> DEFINE local == r.act = "local"
      <4>1. local \in BOOLEAN  OBVIOUS
      <4>2. db' = [db EXCEPT ![r.id] = softDelete(db[r.id], local)]
        BY <2>1, <3>2 DEF softDeleteConversation
      <4> HIDE DEF local
      <4> QED  BY <2>2, <4>1, <4>2
    <3> QED  BY <3>1, <3>2
  <2>4. IsDb(db') /\ \A id \in Ids : db'[id] = db[id] \/ RowSound(db'[id], Known(id))
    BY <2>2, <2>3, SoftDeleted DEF IsDb
  <2> QED  BY <2>1, <2>4, RefreshWrites
<1> QED  BY <1>1, <1>2

LEMMA RefreshStepKeeps ==
    ASSUME Entitled, NEW r \in refresh, RefreshStep(r)
    PROVE  Entitled'
BY RefreshDecides, writeRefreshedStep, SoftDeleteStep DEF RefreshStep

-----------------------------------------------------------------------------
(* The steps of the program and of the other device *)
LEMMA SagasKeep == ASSUME Entitled, SagaStep \/ FaultStep PROVE Entitled'
<1>1. ASSUME NEW id \in Ids, NEW slot \in Slots, PushStep(id, slot) PROVE Entitled'
  BY <1>1, BeginPushStep, HttpOkStep, HttpRefusedStep, ClearDirtyStep DEF PushStep
<1>2. ASSUME NEW m \in Messages, RetryWatcherCrash(m) PROVE Entitled'
  BY <1>2, RetryWatcherCrashStep
<1>3. ASSUME NEW r \in refresh, RefreshStep(r) PROVE Entitled'
  BY <1>3, RefreshStepKeeps
<1>4. ASSUME NEW id \in Ids, NEW slot \in Slots, NEW executed \in BOOLEAN,
             HttpFault(id, slot, executed)
      PROVE  Entitled'
  BY <1>4, HttpFaultStep
<1>5. ASSUME \/ pullSpaces \/ pullSpacesFails
             \/ \E c \in pulling : pullConversation(c) \/ pullConversationFails(c)
      PROVE  Entitled'
  BY <1>5, PullStep
<1>6. CASE SagaStep  BY <1>1, <1>2, <1>3, <1>5, <1>6 DEF SagaStep
<1>7. CASE FaultStep  BY <1>4, <1>5, <1>7 DEF FaultStep
<1> QED  BY <1>6, <1>7

(* An operation of the store touches Redux and the queue of pushes; delete()    *)
(* starts a deletion, which is no refresh. *)
LEMMA StoreKeeps == ASSUME Entitled, StoreStep PROVE Entitled'
<1>1. CASE UNCHANGED <<server, idmap, saving, saved, db, task, refresh>>
  BY <1>1, RefreshesAdded
<1>2. ASSUME NEW c \in Conversations, delete(c) PROVE Entitled'
  <2>1. /\ UNCHANGED <<server, idmap, saving, saved, db, task>>
        /\ refresh' = refresh \cup {Started(c, "local", 0)}
    BY <1>2 DEF delete, mapVars, pushVars
  <2> QED  BY <2>1, RefreshesAdded DEF Started
<1>3. CASE FindSpace \/ CreateSpace
  BY <1>1, <1>3 DEF FindSpace, CreateSpace, sagaVars, mapVars, pushVars, pullVars
<1>4. ASSUME NEW c \in Conversations, NEW ms, appendMessages(c, ms) \/ createFromTurns(c, ms)
      PROVE  Entitled'
  BY <1>1, <1>4 DEF appendMessages, createFromTurns, AddMessages, mapVars, pullVars
<1>5. ASSUME NEW c \in Conversations, getOrCreate(c) \/ setTitle(c) PROVE Entitled'
  BY <1>1, <1>5 DEF getOrCreate, setTitle, mapVars, pullVars
<1> QED  BY <1>2, <1>3, <1>4, <1>5 DEF StoreStep, appendUserMessage, appendAssistantResponse

(* Whatever part of the mappings reached IndexedDB, a restart reads true ones.  *)
LEMMA RestartKeeps == ASSUME Entitled, Restart PROVE Entitled'
<1>1. /\ idmap' = saved' /\ saving' = {}
      /\ \E written \in SUBSET saving : saveIdMapToIdb(written)
      /\ db' = [id \in Ids |-> [db[id] EXCEPT !.by = "none"]]
      /\ task' = [id \in Ids |-> [slot \in Slots |-> Idle]]
      /\ refresh' = {}
      /\ UNCHANGED server
  BY DEF Restart
<1>2. saved' \subseteq saving \cup saved
  BY <1>1 DEF saveIdMapToIdb, addRemoteId
<1>3. MapSound'
  BY <1>1, <1>2, SameServer, MapKept DEF Entitled
<1>4. RunsSound' /\ IsTask(task')
  <2>1. /\ DOMAIN Idle = {"pc", "op", "v", "n"}
        /\ \A known : RunSound(Idle, known)
    BY DEF Idle, RunSound
  <2> QED  BY <1>1, <2>1 DEF IsTask, RunsSound
<1>5. RowsSound' /\ IsDb(db')
  <2>1. ASSUME NEW id \in Ids
        PROVE  /\ DOMAIN db'[id] = {"v", "dirty", "deleted", "by"}
               /\ db'[id].v = db[id].v
               /\ db'[id].dirty = db[id].dirty
               /\ db'[id].deleted = db[id].deleted
    BY <1>1, <2>1 DEF Entitled, Shape, IsDb
  <2>2. DOMAIN db' = Ids  BY <1>1
  <2>3. ASSUME NEW id \in Ids PROVE RowSound(db'[id], Known(id)')
    BY <1>1, <2>1, <2>3 DEF Entitled, RowsSound, RowSound, Present, Known
  <2> QED  BY <2>1, <2>2, <2>3 DEF IsDb, RowsSound
<1>6. RefreshesSound'  BY <1>1 DEF RefreshesSound
<1> QED  BY <1>1, <1>3, <1>4, <1>5, <1>6 DEF Entitled, Shape, IsServer

LEMMA OtherDeviceKeeps == ASSUME Entitled, OtherDevice PROVE Entitled'
<1>1. UNCHANGED <<idmap, saving, saved, db, task, refresh>>
  BY DEF OtherDevice, mapVars, pushVars, pullVars
<1>2. IsServer(server') /\ Remembers(server, server')
  <2>1. ASSUME NEW c \in Conversations, server' = [server EXCEPT ![c].v = Renamed]
        PROVE  IsServer(server') /\ Remembers(server, server')
    BY <2>1 DEF Entitled, Shape, IsServer, Remembers, Ids
  <2>2. ASSUME NEW id \in Spaces \cup Conversations, server' = Killed(id)
        PROVE  IsServer(server') /\ Remembers(server, server')
    BY <2>2, KilledKeeps DEF Entitled, Shape, Ids
  <2> QED  BY <2>1, <2>2 DEF OtherDevice
<1>3. MapSound' /\ RunsSound' /\ RefreshesSound' /\ RowsSound'
  BY <1>1, <1>2, MapKept, RunsKept, RefreshesKept, RowsKept DEF Entitled
<1> QED  BY <1>1, <1>2, <1>3 DEF Entitled, Shape

LEMMA NextKeeps == Entitled /\ [Next]_vars => Entitled'
<1> SUFFICES ASSUME Entitled, [Next]_vars PROVE Entitled'
  OBVIOUS
<1>1. CASE UNCHANGED vars
  BY <1>1, RefreshesAdded DEF vars, sagaVars, mapVars, pushVars, pullVars
<1>2. CASE Next
  BY <1>2, StoreKeeps, RestartKeeps, OtherDeviceKeeps, SagasKeep DEF Next
<1> QED  BY <1>1, <1>2

(* The invariant of the next three theorems *)
LEMMA AlwaysEntitled == Spec => []Entitled
BY InitEntitled, NextKeeps, PTL DEF Spec

-----------------------------------------------------------------------------
(* A remote id is recorded, in Redux or in IndexedDB, only for a resource the   *)
(* server has: addIdMapEntry and addRemoteId after any sequence of lost         *)
(* answers, retries, refreshes, restarts and deletions.                         *)
THEOREM MappingsSound == Spec => []MapSound
<1>1. Entitled => MapSound  BY DEF Entitled
<1> QED  BY <1>1, AlwaysEntitled, PTL

(* A request in flight names nothing the server does not have: waitForMapping   *)
(* is enough, although the map is filled by pushes, by refreshes and from       *)
(* IndexedDB.                                                                   *)
THEOREM RequestsSound == Spec => []RequestsNameKnown
<1>1. Entitled => RequestsNameKnown
  <2> SUFFICES ASSUME Entitled, NEW id \in Ids, NEW slot \in Slots, InHttp(id, slot)
               PROVE  /\ \A a \in Awaited(id, task[id][slot].op) : Known(a)
                      /\ task[id][slot].op # "post" => Known(id)
    BY DEF RequestsNameKnown
  <2>1. \A a \in Awaited(id, task[id][slot].op) : Known(a)
    BY DEF InHttp, waitForMapping, Entitled, MapSound
  <2>2. task[id][slot].op # "post" => Known(id)
    BY DEF InHttp, Entitled, RunsSound, RunSound
  <2> QED  BY <2>1, <2>2
<1> QED  BY <1>1, AlwaysEntitled, PTL

(* A clean row that is not deleted is of a resource the server has: the two     *)
(* steps of clearDirtyIfUnchanged, and what refreshes write, lose no content    *)
(* that was never sent.                                                         *)
THEOREM CleanRowsUploaded == Spec => []CleanUploaded
<1>1. Entitled => CleanUploaded
  BY DEF Entitled, RowsSound, RowSound, CleanUploaded
<1> QED  BY <1>1, AlwaysEntitled, PTL

-----------------------------------------------------------------------------
(* What a version may be: nothing gives a message another content. *)
Small(id, v) == v \in 0..Renamed /\ (id \in Messages => v <= Created)

Sends(run) == run.pc = "http" /\ run.op # "del"

(* One id: its versions, in Redux, in IndexedDB, on the server and in a push *)
Content(id) ==
    /\ Small(id, redux[id]) /\ Small(id, db[id].v)
    /\ server[id].v \in 0..Renamed /\ server[id].st \in {"none", "live", "deleted"}
    /\ Known(id) => server[id].v > 0
    /\ \A slot \in Slots : /\ Small(id, task[id][slot].v)
                           /\ task[id][slot].pc # "idle" => task[id][slot].op \in {"post", "put", "del"}
                           /\ Sends(task[id][slot]) => task[id][slot].v > 0

RefreshShape(r) ==
    /\ r.id \in Ids /\ r.v \in 0..Renamed
    /\ r.act \in {"refresh", "delete", "local"}
    /\ r.act = "refresh" => r.v > 0
    /\ r.act = "local" => r.id \in Conversations
    /\ r.act = "delete" => server[r.id].st = "deleted"

Counts(counts) == counts \in [Ids -> Nat]

Contents ==
    /\ DOMAIN redux = Ids
    /\ Counts(queue) /\ Counts(retry)
    /\ \A id \in Ids : Content(id)
    /\ \A r \in refresh : RefreshShape(r)

(* This program's content is newer than v, and nothing excuses that. *)
Behind(id, v) ==
    id \in own /\ InRedux(id) /\ server[id].st # "deleted" /\ id \notin failed /\ redux[id] > v

Waiting(id) == queue[id] > 0 \/ retry[id] > 0

(* A run that has still to be answered, or ends by taking id out of Redux *)
Unsettled(run) == run.pc = "http" \/ (run.pc = "clear" /\ run.op = "del")

(* One id.  A run that has been answered leaves nothing behind unless another   *)
(* push follows; a run whose snapshot is still the row carries the newest       *)
(* content, unless another push follows.                                        *)
Followed(id) ==
    /\ Behind(id, server[id].v) => Pending(id)
    /\ \A slot \in Slots :
        task[id][slot].pc = "clear" /\ task[id][slot].op # "del" /\ Behind(id, server[id].v)
        => Waiting(id) \/ \E other \in Slots \ {slot} : Unsettled(task[id][other])
    /\ \A slot \in Slots :
        Sends(task[id][slot]) /\ db[id].by = slot /\ Behind(id, task[id][slot].v) => Waiting(id)
    /\ db[id].by \in Slots => ~db[id].deleted

Tracked == Contents /\ \A id \in Ids : Followed(id)

(* What a step does to an id that no push of it takes part in *)
Edited(id) ==
    \/ redux'[id] = redux[id] /\ (id \in own' => id \in own)
    \/ Small(id, redux'[id]) /\ (id \in own' /\ redux'[id] # 0 => queue'[id] > 0)

Aged(id) ==
    /\ server'[id].v \in {server[id].v, Renamed}
    /\ server'[id].st = server[id].st \/ (server[id].st = "live" /\ server'[id].st = "deleted")

Touched(id) ==
    /\ Small(id, db'[id].v)
    /\ db'[id].by \in {db[id].by, "none"}
    /\ db'[id].by \in Slots => db'[id].deleted = db[id].deleted

Frame(id) ==
    /\ Edited(id) /\ Aged(id) /\ Touched(id)
    /\ \A slot \in Slots : task'[id][slot] = task[id][slot]
    /\ id \in failed => id \in failed'
    /\ queue'[id] >= queue[id] /\ retry'[id] >= retry[id]

(* Such a step leaves the id as it should be. *)
LEMMA FrameKeepsOne ==
    ASSUME NEW id \in Ids, Contents, Followed(id), Frame(id), Counts(queue'), Counts(retry')
    PROVE  Content(id)' /\ Followed(id)'
<1>1. /\ queue[id] \in Nat /\ queue'[id] \in Nat /\ retry[id] \in Nat /\ retry'[id] \in Nat
      /\ Content(id) /\ id # NoId
  BY SagasAssumption DEF Contents, Counts
<1>2. Content(id)'
  <2>1. /\ Small(id, redux'[id]) /\ Small(id, db'[id].v)
    BY <1>1 DEF Frame, Edited, Touched, Content
  <2>2. server'[id].v \in 0..Renamed /\ server'[id].st \in {"none", "live", "deleted"} /\ (Known(id)' => server'[id].v > 0)
    BY <1>1 DEF Frame, Aged, Content, Known, Renamed
  <2>3. ASSUME NEW slot \in Slots
        PROVE  /\ Small(id, task'[id][slot].v)
               /\ task'[id][slot].pc # "idle" => task'[id][slot].op \in {"post", "put", "del"}
               /\ Sends(task'[id][slot]) => task'[id][slot].v > 0
    BY <1>1 DEF Frame, Content
  <2> QED  BY <2>1, <2>2, <2>3 DEF Content
<1>3. Waiting(id) => Waiting(id)'
  BY <1>1 DEF Frame, Waiting
<1>4. ASSUME NEW v \in Int, NEW w \in Int, Behind(id, v)', v >= w
      PROVE  Behind(id, w) \/ Waiting(id)'
  BY <1>1, <1>4 DEF Frame, Edited, Aged, Behind, Waiting, InRedux, Content, Small
<1>5. Behind(id, server[id].v)' => Behind(id, server[id].v) \/ Waiting(id)'
  <2>1. server'[id].v \in Int /\ server[id].v \in Int /\ server'[id].v >= server[id].v
    BY <1>1 DEF Frame, Aged, Content, Renamed
  <2> QED  BY <1>4, <2>1 DEF Behind
<1>6. Waiting(id)' => Pending(id)'
  BY DEF Waiting, Pending
<1>7. Pending(id) => Pending(id)'
  <2>1. \A slot \in Slots : task'[id][slot] = task[id][slot]  BY DEF Frame
  <2> QED  BY <1>3, <1>6, <2>1 DEF Pending, Waiting
<1>8. ASSUME NEW slot \in Slots
      PROVE  /\ task'[id][slot] = task[id][slot]
             /\ task[id][slot].v \in Int
             /\ Behind(id, task[id][slot].v)' => Behind(id, task[id][slot].v) \/ Waiting(id)'
  <2>1. task'[id][slot] = task[id][slot] /\ task[id][slot].v \in Int
    BY <1>1 DEF Frame, Content, Small
  <2> QED  BY <1>4, <2>1 DEF Behind
<1>9. db'[id].by \in Slots => db'[id].by = db[id].by /\ ~db'[id].deleted
  BY DEF Frame, Touched, Followed, Slots
<1>10. ASSUME NEW slot \in Slots, db'[id].by = slot PROVE db[id].by = slot
  BY <1>9, <1>10
<1> QED
  <2>1. Behind(id, server[id].v)' => Pending(id)'
    BY <1>5, <1>6, <1>7 DEF Followed
  <2>2. ASSUME NEW slot \in Slots, task'[id][slot].pc = "clear", task'[id][slot].op # "del",
               Behind(id, server[id].v)'
        PROVE  Waiting(id)' \/ \E other \in Slots \ {slot} : Unsettled(task'[id][other])
    BY <1>3, <1>5, <1>8, <2>2 DEF Followed
  <2>3. ASSUME NEW slot \in Slots, Sends(task'[id][slot]), db'[id].by = slot,
               Behind(id, task[id][slot].v)'
        PROVE  Waiting(id)'
    BY <1>3, <1>8, <1>10, <2>3 DEF Followed
  <2> QED  BY <1>2, <1>9, <2>1, <2>2, <2>3 DEF Followed

(* A step in which no push takes part *)
LEMMA FrameKeeps ==
    ASSUME Tracked, Counts(queue'), Counts(retry'), DOMAIN redux' = Ids,
           \A id \in Ids : Frame(id), \A r \in refresh' : RefreshShape(r)'
    PROVE  Tracked'
<1>1. \A id \in Ids : Content(id)' /\ Followed(id)'
  BY FrameKeepsOne DEF Tracked
<1> QED  BY <1>1 DEF Tracked, Contents

(* A refresh that was there is still as it should be. *)
LEMMA RefreshesStay ==
    ASSUME NEW r, RefreshShape(r),
           \A id \in Ids : server[id].st = "deleted" => server'[id].st = "deleted"
    PROVE  RefreshShape(r)'
BY DEF RefreshShape

(* One more request, up to the bound, that is at least one *)
LEMMA CountsUp ==
    ASSUME NEW counts, Counts(counts), NEW id \in Ids, NEW max \in Nat \ {0},
           NEW next, next = [counts EXCEPT ![id] = IF @ < max THEN @ + 1 ELSE @]
    PROVE  /\ Counts(next) /\ next[id] > 0
           /\ \A k \in Ids : next[k] >= counts[k]
<1>1. counts[id] \in Nat  BY DEF Counts
<1>2. next[id] = (IF counts[id] < max THEN counts[id] + 1 ELSE counts[id])
  BY DEF Counts
<1>3. next[id] \in Nat /\ next[id] > 0 /\ next[id] >= counts[id]
  BY <1>1, <1>2
<1>4. DOMAIN next = Ids /\ next = [k \in Ids |-> next[k]]  BY DEF Counts
<1>5. ASSUME NEW k \in Ids PROVE next[k] \in Nat /\ next[k] >= counts[k]
  <2>1. counts[k] \in Nat  BY DEF Counts
  <2>2. k # id => next[k] = counts[k]  BY DEF Counts
  <2> QED  BY <1>3, <2>1, <2>2
<1> QED  BY <1>3, <1>4, <1>5 DEF Counts

(* A push is requested. *)
LEMMA RequestedUp ==
    ASSUME Contents, NEW id \in Ids
    PROVE  /\ Counts(Requested(queue, id)) /\ Requested(queue, id)[id] > 0
           /\ \A k \in Ids : Requested(queue, id)[k] >= queue[k]
BY CountsUp, SagasAssumption DEF Requested, Contents

(* A retry is put to sleep. *)
LEMMA RetryUp ==
    ASSUME NEW counts, Counts(counts), NEW id \in Ids
    PROVE  /\ Counts(NeedsRetry(counts, id)) /\ NeedsRetry(counts, id)[id] > 0
           /\ \A k \in Ids : NeedsRetry(counts, id)[k] >= counts[k]
BY CountsUp, SagasAssumption DEF NeedsRetry

(* A push of several ids is requested. *)
LEMMA RequestedAllUp ==
    ASSUME Contents, NEW ids
    PROVE  /\ Counts(RequestedAll(ids))
           /\ \A k \in Ids : RequestedAll(ids)[k] >= queue[k] /\ (k \in ids => RequestedAll(ids)[k] > 0)
<1>1. ASSUME NEW k \in Ids
      PROVE  /\ RequestedAll(ids)[k] \in Nat /\ RequestedAll(ids)[k] >= queue[k]
             /\ k \in ids => RequestedAll(ids)[k] > 0
  <2>1. RequestedAll(ids)[k] = IF k \in ids THEN Requested(queue, k)[k] ELSE queue[k]
    BY DEF RequestedAll
  <2>2. Counts(Requested(queue, k)) /\ Requested(queue, k)[k] > 0 /\ Requested(queue, k)[k] >= queue[k]
    BY RequestedUp
  <2>3. queue[k] \in Nat /\ Requested(queue, k)[k] \in Nat
    BY <2>2 DEF Contents, Counts
  <2> QED  BY <2>1, <2>2, <2>3
<1>2. RequestedAll(ids) = [k \in Ids |-> RequestedAll(ids)[k]]  BY DEF RequestedAll
<1> QED  BY <1>1, <1>2 DEF Counts

-----------------------------------------------------------------------------
(* An operation of the store: what it writes it requests a push of. *)
LEMMA StoreTracked == ASSUME Tracked, StoreStep PROVE Tracked'
<1>0. /\ Contents /\ Counts(queue) /\ Counts(retry) /\ DOMAIN redux = Ids
      /\ \A k \in Ids : queue[k] \in Nat /\ retry[k] \in Nat /\ Content(k)
      /\ \A r \in refresh : RefreshShape(r)
  BY DEF Tracked, Contents, Counts
<1>1. ASSUME UNCHANGED <<task, db, server, retry, failed>>, Counts(queue'), DOMAIN redux' = Ids,
             \A k \in Ids : Edited(k) /\ queue'[k] >= queue[k],
             refresh' \subseteq refresh \cup {Started(c, "local", 0) : c \in Conversations}
      PROVE  Tracked'
  <2>1. \A k \in Ids : Aged(k) /\ Touched(k)
    BY <1>0, <1>1 DEF Aged, Touched, Content
  <2>2. ASSUME NEW k \in Ids PROVE Frame(k)
    BY <1>0, <1>1, <2>1 DEF Frame
  <2>3. ASSUME NEW r \in refresh' PROVE RefreshShape(r)'
    <3>1. CASE r \in refresh  BY <1>0, <2>1, <3>1, RefreshesStay DEF Aged
    <3>2. ASSUME NEW c \in Conversations, r = Started(c, "local", 0)
          PROVE  RefreshShape(r)'
      BY <3>2 DEF RefreshShape, Started, Ids, Renamed
    <3> QED  BY <1>1, <3>1, <3>2
  <2> QED  BY <1>0, <1>1, <2>2, <2>3, FrameKeeps
<1>2. ASSUME NEW k \in Ids, redux'[k] = redux[k], k \in own' => k \in own
      PROVE  Edited(k)
  BY <1>2 DEF Edited
<1>3. ASSUME NEW k \in Ids, redux'[k] = Created \/ (redux'[k] = Titled /\ k \in Conversations), queue'[k] > 0
      PROVE  Edited(k)
  BY <1>3, SagasAssumption DEF Edited, Small, Created, Titled, Renamed
<1>4. CASE FindSpace
  BY <1>0, <1>1, <1>2, <1>4 DEF FindSpace, sagaVars, localVars, pushVars, pullVars
<1>5. ASSUME NEW s \in Ids, NEW version, version = Created \/ (version = Titled /\ s \in Conversations),
             redux' = [redux EXCEPT ![s] = version], own' = own \cup {s}, queue' = Requested(queue, s),
             UNCHANGED <<task, db, server, retry, failed, refresh>>
      PROVE  Tracked'
  <2>1. Counts(queue') /\ queue'[s] > 0 /\ \A k \in Ids : queue'[k] >= queue[k]
    BY <1>0, <1>5, RequestedUp
  <2>2. DOMAIN redux' = Ids /\ \A k \in Ids : redux'[k] = IF k = s THEN version ELSE redux[k]
    BY <1>0, <1>5
  <2>3. \A k \in Ids : Edited(k)
    BY <1>2, <1>3, <1>5, <2>1, <2>2
  <2> QED  BY <1>1, <1>5, <2>1, <2>2, <2>3
<1>6. CASE CreateSpace
  <2>1. PICK s \in Spaces : /\ redux' = [redux EXCEPT ![s] = Created]
                            /\ own' = own \cup {s}
                            /\ queue' = Requested(queue, s)
    BY <1>6 DEF CreateSpace
  <2>2. UNCHANGED <<task, db, server, retry, failed, refresh>>
    BY <1>6 DEF CreateSpace, pullVars
  <2> QED  BY <1>5, <2>1, <2>2 DEF Ids
<1>7. ASSUME NEW c \in Conversations, getOrCreate(c) PROVE Tracked'
  <2>1. UNCHANGED <<task, db, server, retry, failed, refresh>> /\ own' = own \cup {c}
        /\ queue' = Requested(queue, c) /\ redux' = [redux EXCEPT ![c] = Created] /\ c \in Ids
    BY <1>7 DEF getOrCreate, pullVars, WithConversation, Ids
  <2> QED  BY <1>5, <2>1
<1>8. ASSUME NEW c \in Conversations, setTitle(c) PROVE Tracked'
  <2>1. UNCHANGED <<task, db, server, retry, failed, refresh>> /\ own' = own \cup {c}
        /\ queue' = Requested(queue, c) /\ redux' = [redux EXCEPT ![c] = Titled] /\ c \in Ids
    BY <1>8 DEF setTitle, pullVars, Ids
  <2> QED  BY <1>5, <2>1
<1>9. ASSUME NEW c \in Conversations, delete(c) PROVE Tracked'
  <2>1. UNCHANGED <<task, db, server, retry, failed, redux, own, queue>>
        /\ refresh' = refresh \cup {Started(c, "local", 0)}
    BY <1>9 DEF delete, localVars, pushVars
  <2>2. \A k \in Ids : Edited(k)  BY <1>2, <2>1
  <2> QED  BY <1>0, <1>1, <2>1, <2>2
<1>10. ASSUME NEW c \in Conversations, NEW ms, appendMessages(c, ms) \/ createFromTurns(c, ms)
       PROVE  Tracked'
  <2> DEFINE written == Range(ms) \cup (IF InRedux(c) /\ ~createFromTurns(c, ms) THEN {} ELSE {c})
  <2>1. UNCHANGED <<task, db, server, retry, failed, refresh>>
    BY <1>10 DEF appendMessages, createFromTurns, AddMessages, pullVars
  <2>2. queue' = RequestedAll(written) /\ own' = own \cup written
    BY <1>10 DEF appendMessages, createFromTurns
  <2>3. DOMAIN redux' = Ids /\ \A k \in Ids : \/ redux'[k] = redux[k] /\ k \notin written
                                              \/ redux'[k] = Created /\ k \in written
                                              \/ redux'[k] = Titled /\ k = c /\ k \in written
    <3>1. /\ DOMAIN NewMessages(c, ms) = Ids
          /\ \A k \in Ids : NewMessages(c, ms)[k] =
                IF k \in Range(ms) \/ (k = c /\ ~InRedux(c)) THEN Created ELSE redux[k]
      BY <1>0 DEF NewMessages, WithConversation
    <3>2. CASE createFromTurns(c, ms)
      <4>1. redux' = [NewMessages(c, ms) EXCEPT ![c] = Titled] /\ written = Range(ms) \cup {c}
        BY <3>2 DEF createFromTurns
      <4> HIDE DEF written
      <4> QED  BY <3>1, <4>1
    <3>3. CASE ~createFromTurns(c, ms)
      <4>1. redux' = NewMessages(c, ms) /\ written = Range(ms) \cup (IF InRedux(c) THEN {} ELSE {c})
        BY <1>10, <3>3 DEF appendMessages
      <4> HIDE DEF written
      <4> QED  BY <3>1, <4>1
    <3> QED  BY <3>2, <3>3
  <2> HIDE DEF written
  <2>4. /\ Counts(queue')
        /\ \A k \in Ids : queue'[k] >= queue[k] /\ (k \in written => queue'[k] > 0)
    BY <1>0, <2>2, RequestedAllUp
  <2>5. \A k \in Ids : Edited(k)
    BY <1>2, <1>3, <2>2, <2>3, <2>4
  <2> QED  BY <1>1, <2>1, <2>3, <2>4, <2>5
<1> QED
  BY <1>4, <1>6, <1>7, <1>8, <1>9, <1>10 DEF StoreStep, appendUserMessage, appendAssistantResponse

-----------------------------------------------------------------------------
(* Nothing changes but what is asked of the server, or comes from it. *)
LEMMA Untouched ==
    ASSUME Tracked, UNCHANGED <<redux, own, task, db, server, queue, retry, failed>>,
           \A r \in refresh' : r \in refresh \/ \E k \in Ids : Known(k) /\ r = Received(k)
    PROVE  Tracked'
<1>1. \A k \in Ids : Content(k) /\ queue[k] \in Nat /\ retry[k] \in Nat
  BY DEF Tracked, Contents, Counts
<1>2. \A k \in Ids : Aged(k)  BY DEF Aged
<1>3. ASSUME NEW k \in Ids PROVE Frame(k)
  BY <1>1, <1>2 DEF Frame, Edited, Touched, Content
<1>4. ASSUME NEW r \in refresh' PROVE RefreshShape(r)'
  <2>1. CASE r \in refresh
    BY <1>2, <2>1, RefreshesStay DEF Tracked, Contents, Aged
  <2>2. ASSUME NEW k \in Ids, Known(k), r = Received(k) PROVE RefreshShape(r)'
    <3>1. server[k].v > 0 /\ server[k].v \in 0..Renamed /\ server[k].st \in {"live", "deleted"}
      BY <1>1, <2>2 DEF Content, Known
    <3> QED  BY <2>2, <3>1 DEF RefreshShape, Received, Started, Renamed
  <2> QED  BY <2>1, <2>2
<1> QED
  BY <1>3, <1>4, FrameKeeps DEF Tracked, Contents

(* A pull starts refreshes and deletions of what the server has. *)
LEMMA PullTracked ==
    ASSUME Entitled, Tracked,
           \/ pullSpaces \/ pullSpacesFails
           \/ \E c \in pulling : pullConversation(c) \/ pullConversationFails(c)
    PROVE  Tracked'
<1>1. UNCHANGED <<redux, own, task, db, server, queue, retry, failed>>
  BY DEF pullSpaces, pullSpacesFails, pullConversation, pullConversationFails, localVars, pushVars
<1>2. ASSUME NEW r \in refresh', r \notin refresh
      PROVE  \E k \in Ids : Known(k) /\ r = Received(k)
  <2>1. CASE pullSpaces  BY <1>2, <2>1 DEF pullSpaces, Ids
  <2>2. CASE pullSpacesFails  BY <1>2, <2>2 DEF pullSpacesFails
  <2>3. ASSUME NEW c \in pulling, pullConversation(c)
        PROVE  \E k \in Ids : Known(k) /\ r = Received(k)
    <3>1. c \in idmap
      BY <1>2, <2>3 DEF pullConversation
    <3>2. c \in Ids /\ Known(c)
      BY <3>1 DEF Entitled, MapSound
    <3>3. r \in {Received(c)} \cup
               {Received(k) : k \in {c} \cup {m \in Messages : Known(m) /\ server[m].in = c}}
      BY <1>2, <2>3 DEF pullConversation
    <3>4. PICK k \in {c} \cup {m \in Messages : Known(m) /\ server[m].in = c} : r = Received(k)
      BY <3>3
    <3>5. k \in Ids /\ Known(k)  BY <3>2, <3>4 DEF Ids
    <3> QED  BY <3>4, <3>5
  <2>4. ASSUME NEW c \in pulling, pullConversationFails(c)
        PROVE  \E k \in Ids : Known(k) /\ r = Received(k)
    BY <1>2, <2>4 DEF pullConversationFails
  <2> QED  BY <2>1, <2>2, <2>3, <2>4
<1> QED  BY <1>1, <1>2, Untouched

(* A step of a refresh *)
LEMMA RefreshFrame ==
    ASSUME Entitled, Tracked, NEW r \in refresh, UNCHANGED <<task, server, retry, failed>>,
           refresh' \subseteq (refresh \ {r}) \cup {[r EXCEPT !.pc = "write"]},
           Counts(queue'), DOMAIN redux' = Ids,
           \A k \in Ids : Edited(k) /\ Touched(k) /\ queue'[k] >= queue[k]
    PROVE  Tracked'
<1>1. \A k \in Ids : Aged(k)  BY DEF Aged
<1>2. \A k \in Ids : retry[k] \in Nat  BY DEF Tracked, Contents, Counts
<1>3. \A k \in Ids : Frame(k)  BY <1>1, <1>2 DEF Frame
<1>4. RefreshShape(r)' /\ \A x \in refresh : RefreshShape(x)'
  BY <1>1, RefreshesStay DEF Tracked, Contents, Aged
<1>5. RefreshShape([r EXCEPT !.pc = "write"])'
  <2> DEFINE next == [r EXCEPT !.pc = "write"]
  <2>1. DOMAIN r = {"id", "act", "v", "pc"}  BY DEF Entitled, Shape
  <2>2. next.id = r.id /\ next.act = r.act /\ next.v = r.v  BY <2>1
  <2> HIDE DEF next
  <2>3. RefreshShape(next)'  BY <1>4, <2>2 DEF RefreshShape
  <2> QED  BY <2>3 DEF next
<1> QED  BY <1>3, <1>4, <1>5, FrameKeeps DEF Tracked, Contents

(* The rows a step leaves alone *)
LEMMA SameRows ==
    ASSUME Tracked, UNCHANGED db
    PROVE  \A k \in Ids : Touched(k)
BY DEF Touched, Tracked, Contents, Content

(* What a refresh puts in Redux is not content of this program. *)
LEMMA RefreshDecidesTracked ==
    ASSUME Entitled, Tracked, NEW r \in refresh,
           \/ refreshSpaceFromRemote(r)
           \/ \E same \in BOOLEAN : refreshConversationFromRemote(r, same)
           \/ refreshMessageFromRemote(r)
    PROVE  Tracked'
<1>1. /\ UNCHANGED <<db, server, task, queue, retry, failed>> /\ r.act = "refresh"
      /\ \A k \in Ids : Touched(k)
  BY SameRows
     DEF refreshSpaceFromRemote, refreshConversationFromRemote, refreshMessageFromRemote,
         InRefresh, pushVars
<1>2. refresh' \subseteq (refresh \ {r}) \cup {[r EXCEPT !.pc = "write"]}
  BY DEF refreshSpaceFromRemote, refreshConversationFromRemote, refreshMessageFromRemote,
         Ended, Writes
<1>3. /\ r.id \in Ids /\ r.v \in 0..Renamed /\ DOMAIN redux = Ids /\ Counts(queue)
      /\ \A k \in Ids : queue[k] \in Nat /\ Content(k)
  BY DEF Tracked, Contents, RefreshShape, Counts
<1>4. \/ UNCHANGED <<redux, own>>
      \/ /\ r.id \notin Messages
         /\ \E v \in {r.v, db[r.id].v} : redux' = [redux EXCEPT ![r.id] = v]
         /\ own' = own \ {r.id}
  <2>1. CASE refreshSpaceFromRemote(r)
    BY <2>1, SagasAssumption DEF refreshSpaceFromRemote, addSpaceToRedux, localVars, InRefresh
  <2>2. ASSUME NEW same \in BOOLEAN, refreshConversationFromRemote(r, same)
        PROVE  \/ UNCHANGED <<redux, own>>
               \/ /\ r.id \notin Messages
                  /\ redux' = [redux EXCEPT ![r.id] = r.v]
                  /\ own' = own \ {r.id}
    BY <2>2, SagasAssumption
       DEF refreshConversationFromRemote, addConversationToRedux, localVars, InRefresh
  <2>3. CASE refreshMessageFromRemote(r)
    BY <2>3 DEF refreshMessageFromRemote, localVars
  <2> QED  BY <2>1, <2>2, <2>3
<1>5. DOMAIN redux' = Ids /\ \A k \in Ids : Edited(k)
  <2>1. CASE UNCHANGED <<redux, own>>  BY <1>3, <2>1 DEF Edited
  <2>2. ASSUME r.id \notin Messages, NEW v \in {r.v, db[r.id].v}, redux' = [redux EXCEPT ![r.id] = v],
               own' = own \ {r.id}
        PROVE  DOMAIN redux' = Ids /\ \A k \in Ids : Edited(k)
    <3>1. Small(r.id, v)  BY <1>3, <2>2 DEF Small, Content
    <3> QED  BY <1>3, <2>2, <3>1 DEF Edited
  <2> QED  BY <1>4, <2>1, <2>2
<1>6. \A k \in Ids : queue'[k] >= queue[k]  BY <1>1, <1>3
<1> QED  BY <1>1, <1>2, <1>3, <1>5, <1>6, RefreshFrame

(* The row a refresh writes is no snapshot of a push. *)
LEMMA writeRefreshedTracked ==
    ASSUME Entitled, Tracked, NEW r \in refresh, writeRefreshed(r)
    PROVE  Tracked'
<1>1. /\ UNCHANGED <<redux, own, server, task, queue, retry, failed>>
      /\ refresh' \subseteq (refresh \ {r}) \cup {[r EXCEPT !.pc = "write"]}
      /\ db' = IF r.id \in Messages THEN putClean(db, r.id)
               ELSE update(db, r.id, r.v, FALSE, "none")
  BY DEF writeRefreshed, localVars, pushVars, Ended
<1>2. /\ r.id \in Ids /\ r.v \in 0..Renamed /\ DOMAIN redux = Ids /\ Counts(queue)
      /\ \A k \in Ids : queue[k] \in Nat /\ Content(k)
  BY DEF Tracked, Contents, RefreshShape, Counts
<1>3. DOMAIN db = Ids /\ DOMAIN db[r.id] = {"v", "dirty", "deleted", "by"}
  BY <1>2 DEF Entitled, Shape, IsDb
<1>4. ASSUME NEW k \in Ids PROVE Touched(k)
  <2>1. CASE k # r.id
    BY <1>1, <1>2, <1>3, <2>1 DEF Touched, Content, putClean, update
  <2>2. CASE k = r.id /\ r.id \in Messages
    <3>1. db'[k].v = db[k].v /\ db'[k].by = db[k].by /\ db'[k].deleted = db[k].deleted
      BY <1>1, <1>2, <1>3, <2>2 DEF putClean
    <3> QED  BY <1>2, <3>1 DEF Touched, Content
  <2>3. CASE k = r.id /\ r.id \notin Messages
    <3>1. db'[k] = [v |-> r.v, dirty |-> FALSE, deleted |-> FALSE, by |-> "none"]
      BY <1>1, <1>2, <1>3, <2>3 DEF update
    <3> QED  BY <1>2, <2>3, <3>1 DEF Touched, Small, Slots
  <2> QED  BY <2>1, <2>2, <2>3
<1>5. \A k \in Ids : Edited(k) /\ queue'[k] >= queue[k]  BY <1>1, <1>2 DEF Edited
<1> QED  BY <1>1, <1>2, <1>4, <1>5, RefreshFrame

(* Whatever leaves Redux is not this program's any more. *)
LEMMA Dropped ==
    ASSUME Contents, NEW ids, DropFromRedux(ids)
    PROVE  /\ DOMAIN redux' = Ids
           /\ \A k \in Ids : Edited(k) /\ redux'[k] = (IF k \in ids THEN 0 ELSE redux[k])
           /\ own' \subseteq own
<1>1. redux' = [k \in Ids |-> IF k \in ids THEN 0 ELSE redux[k]] /\ own' = own \ ids
  BY DEF DropFromRedux
<1>2. ASSUME NEW k \in Ids PROVE Edited(k)
  BY <1>1 DEF Edited, Small, Renamed, Created
<1> QED  BY <1>1, <1>2

(* A soft deletion changes flags, in the rows it is about. *)
LEMMA RowsDeleted ==
    ASSUME Entitled, NEW id \in Ids, NEW local \in BOOLEAN,
           db' = IF id \in Spaces THEN softDeleteSpaceCascade(db, up, id, FALSE)
                 ELSE softDeleteConversation(db, id, local)
    PROVE  /\ DOMAIN db' = Ids
           /\ \A k \in Ids : \/ db'[k] = db[k]
                             \/ db'[k] = softDelete(db[k], FALSE)
                             \/ id \notin Spaces /\ k = id /\ db'[k] = softDelete(db[k], local)
<1>1. DOMAIN db = Ids  BY DEF Entitled, Shape, IsDb
<1>2. CASE id \in Spaces
  <2> DEFINE doomed == {id} \cup getConversationsBySpaceId(db, up, id)
                       \cup UNION {getMessagesByConversationId(db, up, c) :
                                     c \in getConversationsBySpaceId(db, up, id)}
  <2>1. db' = IF ~Present(db[id]) THEN db
               ELSE [k \in Ids |-> IF k \in doomed THEN softDelete(db[k], FALSE) ELSE db[k]]
    BY <1>1, <1>2 DEF softDeleteSpaceCascade
  <2> HIDE DEF doomed
  <2> QED  BY <1>1, <2>1
<1>3. CASE id \notin Spaces
  <2>1. db' = [db EXCEPT ![id] = softDelete(db[id], local)]
    BY <1>3 DEF softDeleteConversation
  <2> QED  BY <1>1, <1>3, <2>1
<1> QED  BY <1>2, <1>3

(* A deletion takes a resource out of Redux, and then marks its row. *)
LEMMA SoftDeleteTracked ==
    ASSUME Entitled, Tracked, NEW r \in refresh, softDeleteInRedux(r) \/ softDeleteInIdb(r)
    PROVE  Tracked'
<1>1. /\ r.id \in Ids /\ DOMAIN redux = Ids /\ Counts(queue) /\ Contents
      /\ \A k \in Ids : queue[k] \in Nat /\ Content(k)
  BY DEF Tracked, Contents, RefreshShape, Counts
<1>2. CASE softDeleteInRedux(r)
  <2>1. /\ UNCHANGED <<server, db, task, queue, retry, failed>>
        /\ refresh' \subseteq (refresh \ {r}) \cup {[r EXCEPT !.pc = "write"]}
        /\ DropFromRedux(deleteSpaceCascadeInRedux(r.id))
    BY <1>2 DEF softDeleteInRedux, pushVars, Writes
  <2>2. DOMAIN redux' = Ids /\ \A k \in Ids : Edited(k) /\ Touched(k) /\ queue'[k] >= queue[k]
    BY <1>1, <2>1, Dropped, SameRows
  <2> QED  BY <1>1, <2>1, <2>2, RefreshFrame
<1>3. CASE softDeleteInIdb(r)
  <2>1. /\ UNCHANGED <<redux, own, server, task, retry, failed>>
        /\ refresh' \subseteq (refresh \ {r}) \cup {[r EXCEPT !.pc = "write"]}
        /\ db' = IF r.id \in Spaces THEN softDeleteSpaceCascade(db, up, r.id, FALSE)
                 ELSE softDeleteConversation(db, r.id, r.act = "local")
        /\ queue' = Requested(queue, r.id) \/ queue' = queue
    BY <1>3 DEF softDeleteInIdb, localVars, Ended
  <2>2. Counts(queue') /\ \A k \in Ids : Edited(k) /\ queue'[k] >= queue[k]
    BY <1>1, <2>1, RequestedUp DEF Edited
  <2>3. ASSUME NEW k \in Ids PROVE Touched(k)
    <3> DEFINE local == r.act = "local"
    <3>0. local \in BOOLEAN
          /\ db' = IF r.id \in Spaces THEN softDeleteSpaceCascade(db, up, r.id, FALSE)
                   ELSE softDeleteConversation(db, r.id, local)
      BY <2>1
    <3> HIDE DEF local
    <3>5. \/ db'[k] = db[k]
          \/ db'[k] = softDelete(db[k], FALSE)
          \/ r.id \notin Spaces /\ k = r.id /\ db'[k] = softDelete(db[k], local)
      BY <1>1, <3>0, RowsDeleted
    <3>1. db'[k] = db[k] \/ \E dirty \in BOOLEAN : db'[k] = softDelete(db[k], dirty)
      BY <3>0, <3>5
    <3>2. DOMAIN db[k] = {"v", "dirty", "deleted", "by"}  BY DEF Entitled, Shape, IsDb
    <3>3. ASSUME NEW dirty \in BOOLEAN, db'[k] = softDelete(db[k], dirty)
          PROVE  db'[k] = db[k] \/ (db'[k].v = db[k].v /\ db'[k].by = "none")
      BY <3>2, <3>3 DEF softDelete
    <3>4. db'[k] = db[k] \/ (db'[k].v = db[k].v /\ db'[k].by = "none")
      BY <3>1, <3>3
    <3> QED  BY <1>1, <3>4 DEF Touched, Content, Slots
  <2> QED  BY <1>1, <2>1, <2>2, <2>3, RefreshFrame
<1> QED  BY <1>2, <1>3

(* What is excused needs no push. *)
LEMMA Excused ==
    ASSUME NEW id \in Ids, db'[id].by \in Slots => ~db'[id].deleted,
           \/ id \notin own' \/ redux'[id] = 0
           \/ server'[id].st = "deleted" \/ id \in failed'
    PROVE  Followed(id)'
<1>1. \A v : ~Behind(id, v)'  BY DEF Behind, InRedux
<1> QED  BY <1>1 DEF Followed

(* A deletion on the server keeps the content it had. *)
LEMMA KilledAges ==
    ASSUME NEW id \in Ids, IsServer(server), server' = Killed(id)
    PROVE  /\ \A k \in Ids : Aged(k) /\ server'[k].v = server[k].v
           /\ server'[id].st # "live"
           /\ \A s \in Spaces : s # id => server'[s] = server[s]
<1> DEFINE gone == {id} \cup Within(id, [c \in Conversations \cup Messages |-> server[c].in])
<1>1. \A k \in Ids : server'[k] = IF k \in gone /\ server[k].st = "live"
                                  THEN [server[k] EXCEPT !.st = "deleted"] ELSE server[k]
  BY DEF Killed
<1>2. Within(id, [c \in Conversations \cup Messages |-> server[c].in]) \subseteq Conversations \cup Messages
  BY DEF Within
<1>3. \A s \in Spaces : s # id => s \notin gone
  BY <1>2, SagasAssumption
<1>4. id \in gone  OBVIOUS
<1> HIDE DEF gone
<1>5. ASSUME NEW k \in Ids
      PROVE  Aged(k) /\ server'[k].v = server[k].v /\ (k \in gone => server'[k].st # "live")
  <2>1. DOMAIN server[k] = {"st", "v", "in"}  BY DEF IsServer
  <2> QED  BY <1>1, <2>1 DEF Aged
<1>6. \A s \in Spaces : s # id => server'[s] = server[s]
  BY <1>1, <1>3 DEF Ids
<1> QED  BY <1>4, <1>5, <1>6

(* A title another device sets is newer than any of this program. *)
LEMMA OtherDeviceTracked == ASSUME Entitled, Tracked, OtherDevice PROVE Tracked'
<1>1. UNCHANGED <<redux, own, task, db, queue, retry, failed, refresh>>
  BY DEF OtherDevice, localVars, pushVars, pullVars
<1>2. \A k \in Ids : Aged(k)
  <2>1. ASSUME NEW c \in Conversations, server' = [server EXCEPT ![c].v = Renamed]
        PROVE  \A k \in Ids : Aged(k)
    BY <2>1 DEF Entitled, Shape, IsServer, Aged, Ids
  <2>2. ASSUME NEW id \in Spaces \cup Conversations, server' = Killed(id)
        PROVE  \A k \in Ids : Aged(k)
    BY <2>2, KilledAges DEF Entitled, Shape, Ids
  <2> QED  BY <2>1, <2>2 DEF OtherDevice
<1>3. \A k \in Ids : Content(k) /\ queue[k] \in Nat /\ retry[k] \in Nat
  BY DEF Tracked, Contents, Counts
<1>4. \A k \in Ids : Frame(k)
  BY <1>1, <1>2, <1>3 DEF Frame, Edited, Touched, Content
<1>5. \A r \in refresh' : RefreshShape(r)'
  BY <1>1, <1>2, RefreshesStay DEF Tracked, Contents, Aged
<1> QED  BY <1>1, <1>4, <1>5, FrameKeeps DEF Tracked, Contents

(* A restart pushes every dirty row; of the rest nothing is this program's.     *)
LEMMA RestartTracked == ASSUME Entitled, Tracked, Restart PROVE Tracked'
<1>1. /\ redux' = [id \in Ids |-> IF id \in Loadable THEN db[id].v ELSE 0]
      /\ own' = {id \in Loadable : db[id].dirty}
      /\ db' = [id \in Ids |-> [db[id] EXCEPT !.by = "none"]]
      /\ task' = [id \in Ids |-> [slot \in Slots |-> Idle]]
      /\ queue' = pushDirtyResources
      /\ retry' = [id \in Ids |-> 0]
      /\ refresh' = {}
      /\ UNCHANGED server
  BY DEF Restart
<1>2. Counts(queue') /\ Counts(retry')
  BY <1>1 DEF Counts, pushDirtyResources
<1>3. ASSUME NEW id \in Ids PROVE Content(id)' /\ Followed(id)'
  <2>1. DOMAIN db = Ids /\ DOMAIN db[id] = {"v", "dirty", "deleted", "by"}
    BY DEF Entitled, Shape, IsDb
  <2>2. Content(id)  BY DEF Tracked, Contents
  <2>3. /\ db'[id].v = db[id].v /\ db'[id].by = "none"
        /\ \A slot \in Slots : task'[id][slot] = Idle
        /\ redux'[id] \in {0, db[id].v}
    BY <1>1, <2>1
  <2>4. Small(id, 0)  BY DEF Small, Renamed, Created
  <2>5. Content(id)'
    BY <1>1, <2>2, <2>3, <2>4 DEF Content, Sends, Idle, Known
  <2>6. id \in own' => queue'[id] > 0
    BY <1>1, <2>1 DEF pushDirtyResources, findUnsyncedResources
  <2>7. Followed(id)'
    BY <2>3, <2>6 DEF Followed, Behind, Pending, Sends, Idle, Slots
  <2> QED  BY <2>5, <2>7
<1> QED  BY <1>1, <1>2, <1>3 DEF Tracked, Contents

(* The messages whose retries are cancelled are excused. *)
LEMMA RetryWatcherCrashTracked ==
    ASSUME Entitled, Tracked, NEW m \in Messages, RetryWatcherCrash(m)
    PROVE  Tracked'
<1>1. /\ retry' = [id \in Ids |-> IF id \in Messages THEN 0 ELSE retry[id]]
      /\ task' = [id \in Ids |-> IF id \in Messages THEN [task[id] EXCEPT !["r"] = Idle] ELSE task[id]]
      /\ failed' = failed \cup {id \in Messages : retry[id] > 0 \/ task[id]["r"] # Idle}
      /\ UNCHANGED <<redux, own, db, server, queue, refresh>>
  BY DEF RetryWatcherCrash, localVars, pullVars
<1>2. \A k \in Ids : Content(k) /\ Followed(k) /\ queue[k] \in Nat /\ retry[k] \in Nat
  BY DEF Tracked, Contents, Counts
<1>3. \A k \in Ids : Aged(k)  BY <1>1 DEF Aged
<1>4. Counts(queue') /\ Counts(retry')
  BY <1>1, <1>2 DEF Tracked, Contents, Counts
<1>5. ASSUME NEW k \in Ids PROVE Content(k)' /\ Followed(k)'
  <2>1. DOMAIN task[k] = Slots /\ "r" \in Slots  BY DEF Entitled, Shape, IsTask, Slots
  <2>2. CASE k \in Messages /\ (retry[k] > 0 \/ task[k]["r"] # Idle)
    <3>1. k \in failed'  BY <1>1, <2>2
    <3>2. db'[k].by \in Slots => ~db'[k].deleted  BY <1>1, <1>2 DEF Followed
    <3>3. \A slot \in Slots : task'[k][slot] \in {Idle, task[k][slot]}
      BY <1>1, <2>1, <2>2
    <3>4. Small(k, Idle.v) /\ ~Sends(Idle) /\ Idle.pc = "idle"  BY DEF Small, Idle, Sends, Renamed, Created
    <3>5. Content(k)'
      <4>1. Content(k)  BY <1>2
      <4>2. ASSUME NEW slot \in Slots
            PROVE  /\ Small(k, task'[k][slot].v)
                   /\ task'[k][slot].pc # "idle" => task'[k][slot].op \in {"post", "put", "del"}
                   /\ Sends(task'[k][slot]) => task'[k][slot].v > 0
        <5>1. CASE task'[k][slot] = Idle  BY <3>4, <5>1
        <5>2. CASE task'[k][slot] = task[k][slot]  BY <4>1, <5>2 DEF Content
        <5> QED  BY <3>3, <5>1, <5>2
      <4> QED  BY <1>1, <4>1, <4>2 DEF Content, Known
    <3> QED  BY <3>1, <3>2, <3>5, Excused
  <2>3. CASE ~(k \in Messages /\ (retry[k] > 0 \/ task[k]["r"] # Idle))
    <3>1. \A slot \in Slots : task'[k][slot] = task[k][slot]
      <4>1. CASE k \in Messages
        <5>1. task[k]["r"] = Idle  BY <2>3, <4>1
        <5>2. task'[k] = [task[k] EXCEPT !["r"] = Idle]  BY <1>1, <4>1
        <5> QED  BY <2>1, <5>1, <5>2
      <4> QED  BY <1>1, <4>1
    <3>2. retry'[k] = retry[k]  BY <1>1, <1>2, <2>3
    <3>3. Frame(k)
      BY <1>1, <1>2, <1>3, <3>1, <3>2 DEF Frame, Edited, Touched, Content
    <3> QED  BY <1>2, <1>4, <3>3, FrameKeepsOne DEF Tracked
  <2> QED  BY <2>2, <2>3
<1>6. \A r \in refresh' : RefreshShape(r)'
  BY <1>1, <1>3, RefreshesStay DEF Tracked, Contents, Aged
<1> QED  BY <1>1, <1>4, <1>5, <1>6 DEF Tracked, Contents

-----------------------------------------------------------------------------
(* A step of a push of id: what it does to id is the step's own question. *)
LEMMA PushTracked ==
    ASSUME Tracked, NEW id \in Ids, Counts(queue'), Counts(retry'), DOMAIN redux' = Ids,
           UNCHANGED refresh, Content(id)', Followed(id)',
           \A k \in Ids : server[k].st = "deleted" => server'[k].st = "deleted",
           \A k \in Ids : k # id =>
               /\ Edited(k) /\ Aged(k)
               /\ db'[k] = db[k]
               /\ \A slot \in Slots : task'[k][slot] = task[k][slot]
               /\ k \in failed => k \in failed'
               /\ queue'[k] = queue[k] /\ retry'[k] = retry[k]
    PROVE  Tracked'
<1>1. ASSUME NEW k \in Ids, k # id PROVE Content(k)' /\ Followed(k)'
  <2>1. Content(k) /\ Followed(k) /\ queue[k] \in Nat /\ retry[k] \in Nat
    BY DEF Tracked, Contents, Counts
  <2>2. Touched(k)  BY <1>1, <2>1 DEF Touched, Content
  <2>3. Frame(k)  BY <1>1, <2>1, <2>2 DEF Frame
  <2> QED  BY <2>1, <2>3, FrameKeepsOne DEF Tracked
<1>2. \A r \in refresh' : RefreshShape(r)'
  BY RefreshesStay DEF Tracked, Contents
<1> QED  BY <1>1, <1>2 DEF Tracked, Contents

(* With another push to come nothing is forgotten. *)
LEMMA WaitingIsFollowed ==
    ASSUME NEW id \in Ids, Waiting(id)', db'[id].by \in Slots => ~db'[id].deleted
    PROVE  Followed(id)'
BY DEF Followed, Waiting, Pending

(* What each outcome of the local part of a push says *)
LEMMA PushOutcome ==
    ASSUME NEW id \in Ids, NEW d, d = push(id)
    PROVE  /\ d \in {"post", "put", "saved", "del", "forget", "noop", "needsRetry", "throw"}
           /\ d \in {"post", "put", "saved"} => InRedux(id)
           /\ d \in {"del", "forget"} => db[id].deleted
           /\ d = "throw" => ~InRedux(id)
           /\ d = "saved" => id \in Messages /\ id \in idmap
<1>1. PushDeletion(id) \in {"noop", "forget", "del"}
  BY DEF PushDeletion
<1>2. CASE id \in Spaces
  <2>1. d = pushSpace(id)  BY <1>2, SagasAssumption DEF push
  <2> QED  BY <1>1, <2>1 DEF pushSpace
<1>3. CASE id \in Conversations
  <2>1. d = pushConversation(id)  BY <1>3, SagasAssumption DEF push
  <2> QED  BY <1>1, <2>1 DEF pushConversation
<1>4. CASE id \in Messages
  <2>1. d = pushMessage(id)  BY <1>4, SagasAssumption DEF push
  <2> QED  BY <1>1, <1>4, <2>1 DEF pushMessage
<1> QED  BY <1>2, <1>3, <1>4 DEF Ids

(* A push that begins takes its request, and with it the newest content. *)
LEMMA BeginPushTracked ==
    ASSUME Entitled, Tracked, NEW id \in Ids, NEW slot \in Slots, BeginPush(id, slot)
    PROVE  Tracked'
<1> DEFINE d == push(id)
           run == [pc |-> IF d = "forget" THEN "clear" ELSE "http",
                   op |-> IF d = "forget" THEN "del" ELSE d,
                   v |-> IF d \in {"forget", "del"} THEN db[id].v ELSE redux[id],
                   n |-> IF d = "forget" THEN 0 ELSE 1]
<1>1. /\ UNCHANGED <<redux, own, server, refresh>>
      /\ task[id][slot] = Idle
      /\ queue' = IF slot = "q" THEN [queue EXCEPT ![id] = @ - 1] ELSE queue
      /\ slot = "q" => queue[id] > 0
      /\ slot # "q" => retry[id] > 0
      /\ retry' = IF d = "needsRetry" THEN NeedsRetry(Woken(slot, id), id) ELSE Woken(slot, id)
      /\ task' = IF d \in {"forget", "del", "put", "post"}
                 THEN [task EXCEPT ![id][slot] = run] ELSE task
      /\ db' = IF d \in {"put", "post", "saved"} THEN update(db, id, redux[id], TRUE, slot) ELSE db
      /\ failed' = IF d = "noop" /\ InRedux(id) THEN failed \cup {id} ELSE failed
  BY DEF BeginPush, Due, localVars, pullVars
<1>2. /\ d \in {"post", "put", "saved", "del", "forget", "noop", "needsRetry", "throw"}
      /\ d \in {"post", "put", "saved"} => InRedux(id)
      /\ d \in {"del", "forget"} => db[id].deleted
      /\ d = "throw" => ~InRedux(id)
      /\ d = "saved" => id \in Messages /\ id \in idmap
  BY PushOutcome
<1>3. /\ \A k \in Ids : Content(k) /\ Followed(k) /\ queue[k] \in Nat /\ retry[k] \in Nat
      /\ Counts(queue) /\ Counts(retry) /\ DOMAIN redux = Ids
  BY DEF Tracked, Contents, Counts
<1>4. Counts(queue') /\ \A k \in Ids : k # id => queue'[k] = queue[k]
  BY <1>1, <1>3 DEF Counts
<1>5. /\ Counts(retry') /\ \A k \in Ids : k # id => retry'[k] = retry[k]
      /\ d = "needsRetry" => retry'[id] > 0
  <2> DEFINE woken == Woken(slot, id)
  <2>1. Counts(woken) /\ \A k \in Ids : k # id => woken[k] = retry[k]
    BY <1>1, <1>3 DEF Woken, Counts, Slots
  <2>2. retry' = IF d = "needsRetry" THEN NeedsRetry(woken, id) ELSE woken
    BY <1>1
  <2> HIDE DEF woken, d
  <2>3. /\ Counts(NeedsRetry(woken, id)) /\ NeedsRetry(woken, id)[id] > 0
        /\ \A k \in Ids : k # id => NeedsRetry(woken, id)[k] = woken[k]
    BY <2>1, RetryUp DEF NeedsRetry, Counts
  <2> QED  BY <2>1, <2>2, <2>3
<1>6. /\ run.pc \in {"http", "clear"}
      /\ run.op = IF d = "forget" THEN "del" ELSE d
      /\ run.pc = "clear" => d = "forget"
      /\ run.v = IF d \in {"forget", "del"} THEN db[id].v ELSE redux[id]
  OBVIOUS
<1>7. /\ DOMAIN db = Ids /\ IsTask(task) /\ Small(id, redux[id]) /\ Small(id, db[id].v)
  BY <1>3 DEF Entitled, Shape, IsDb, Content
<1> HIDE DEF run, d
<1>8. /\ \A k \in Ids, s \in Slots : ~(k = id /\ s = slot) => task'[k][s] = task[k][s]
      /\ task'[id][slot] = IF d \in {"forget", "del", "put", "post"} THEN run ELSE Idle
  <2>1. CASE d \in {"forget", "del", "put", "post"}
    <3>1. task' = [task EXCEPT ![id][slot] = run]  BY <1>1, <2>1
    <3> QED  BY <1>7, <2>1, <3>1 DEF IsTask
  <2>2. CASE ~(d \in {"forget", "del", "put", "post"})  BY <1>1, <2>2
  <2> QED  BY <2>1, <2>2
<1>9. /\ \A k \in Ids : k # id => db'[k] = db[k]
      /\ d \in {"put", "post", "saved"} =>
            db'[id] = [v |-> redux[id], dirty |-> TRUE, deleted |-> FALSE, by |-> slot]
      /\ d \notin {"put", "post", "saved"} => db'[id] = db[id]
  BY <1>1, <1>7 DEF update
<1>10. Content(id)'
  <2>1. Small(id, db'[id].v)
    <3>1. CASE d \in {"put", "post", "saved"}  BY <1>7, <1>9, <3>1
    <3>2. CASE d \notin {"put", "post", "saved"}  BY <1>7, <1>9, <3>2
    <3> QED  BY <3>1, <3>2
  <2>2. ASSUME NEW s \in Slots
        PROVE  /\ Small(id, task'[id][s].v)
               /\ task'[id][s].pc # "idle" => task'[id][s].op \in {"post", "put", "del"}
               /\ Sends(task'[id][s]) => task'[id][s].v > 0
    <3>1. CASE s # slot  BY <1>3, <1>8, <3>1 DEF Content
    <3>2. CASE s = slot /\ d \in {"forget", "del", "put", "post"}
      <4>1. task'[id][s] = run  BY <1>8, <3>2
      <4>2. d \in {"put", "post"} => redux[id] \in Nat /\ redux[id] > 0
        BY <1>2, <1>7 DEF Small, InRedux, Renamed
      <4> QED  BY <1>6, <1>7, <3>2, <4>1, <4>2 DEF Sends
    <3>3. CASE s = slot /\ d \notin {"forget", "del", "put", "post"}
      <4>1. task'[id][s] = Idle  BY <1>8, <3>3
      <4> QED  BY <4>1 DEF Idle, Sends, Small, Renamed, Created
    <3> QED  BY <3>1, <3>2, <3>3
  <2> QED  BY <1>1, <1>3, <2>1, <2>2 DEF Content, Known
<1>11. Followed(id)'
  <2>1. Followed(id)  BY <1>3
  <2>2. db'[id].by \in Slots => ~db'[id].deleted
    <3>1. CASE d \in {"put", "post", "saved"}  BY <1>9, <3>1
    <3>2. CASE d \notin {"put", "post", "saved"}  BY <1>9, <2>1, <3>2 DEF Followed
    <3> QED  BY <3>1, <3>2
  <2>3. CASE d = "needsRetry"
    BY <1>5, <2>2, <2>3, WaitingIsFollowed DEF Waiting
  <2>4. CASE d = "throw" \/ d = "noop"
    <3>1. id # NoId  BY SagasAssumption
    <3>2. redux'[id] = 0 \/ id \in failed'
      BY <1>1, <1>2, <2>4, <3>1 DEF InRedux
    <3> QED  BY <2>2, <3>2, Excused
  <2>5. CASE d = "saved"
    <3>1. Known(id) /\ server'[id].v = server[id].v
      BY <1>1, <1>2, <2>5 DEF Entitled, MapSound
    <3>2. ~Behind(id, server[id].v)'
      <4>1. server[id].v > 0 /\ server[id].v \in Nat /\ redux[id] <= 1 /\ redux[id] \in Nat
        BY <1>2, <1>3, <1>7, <2>5, <3>1 DEF Content, Small, Created, Renamed
      <4> QED  BY <1>1, <3>1, <4>1 DEF Behind
    <3>3. ASSUME NEW s \in Slots, db'[id].by = s PROVE ~Sends(task'[id][s])
      <4>1. s = slot /\ task'[id][s] = Idle  BY <1>8, <1>9, <2>5, <3>3
      <4> QED  BY <4>1 DEF Sends, Idle
    <3> QED  BY <2>2, <3>2, <3>3 DEF Followed
  <2>6. CASE d \in {"post", "put", "del", "forget"}
    <3>1. task'[id][slot] = run /\ Unsettled(run) /\ run # Idle
      <4>1. Idle.pc = "idle"  BY DEF Idle
      <4> QED  BY <1>6, <1>8, <2>6, <4>1 DEF Unsettled
    <3>2. Pending(id)'  BY <3>1 DEF Pending
    <3>3. ASSUME NEW s \in Slots, task'[id][s].pc = "clear", task'[id][s].op # "del"
          PROVE  \E other \in Slots \ {s} : Unsettled(task'[id][other])
      <4>1. s # slot
        BY <1>6, <3>1, <3>3
      <4> QED  BY <3>1, <4>1
    <3>4. ASSUME NEW s \in Slots, Sends(task'[id][s]), db'[id].by = s
          PROVE  ~Behind(id, task[id][s].v)'
      <4>1. CASE d \in {"post", "put"}
        <5>1. s = slot  BY <1>9, <3>4, <4>1
        <5>2. task'[id][s].v = redux'[id] /\ redux'[id] \in Nat
          BY <1>1, <1>6, <1>7, <3>1, <4>1, <5>1 DEF Small, Renamed
        <5> QED  BY <5>2 DEF Behind
      <4>2. CASE d \in {"del", "forget"}
        BY <1>2, <1>9, <2>2, <3>4, <4>2
      <4> QED  BY <2>6, <4>1, <4>2
    <3> QED  BY <2>2, <3>2, <3>3, <3>4 DEF Followed
  <2> QED  BY <1>2, <2>3, <2>4, <2>5, <2>6
<1>12. ASSUME NEW k \in Ids, k # id
       PROVE  /\ Edited(k) /\ Aged(k)
              /\ k \in failed => k \in failed'
              /\ \A s \in Slots : task'[k][s] = task[k][s]
  BY <1>1, <1>8, <1>12 DEF Edited, Aged
<1> QED  BY <1>1, <1>3, <1>4, <1>5, <1>9, <1>10, <1>11, <1>12, PushTracked

(* What an answered request leaves of every id *)
LEMMA AnswerAges ==
    ASSUME Entitled, NEW id \in Ids, NEW op \in {"post", "put", "del"}, NEW v,
           op = "post" \/ Known(id),
           HttpResult(id, op) = "ok", server' = ServerAfter(id, op, v)
    PROVE  /\ \A k \in Ids : k # id => Aged(k)
           /\ \A k \in Ids : server[k].st = "deleted" => server'[k].st = "deleted"
           /\ \A s \in Spaces : s # id => server'[s] = server[s]
           /\ op = "post" => ~Known(id) /\ server'[id].st = "live" /\ server'[id].v = v
           /\ op = "put" => /\ server[id].st = "live"
                            /\ server'[id].st = "live" /\ server'[id].v = v
           /\ op = "del" => Aged(id) /\ server'[id].st # "live" /\ server'[id].v = server[id].v
<1>1. DOMAIN server = Ids /\ DOMAIN server[id] = {"st", "v", "in"}
  BY DEF Entitled, Shape, IsServer
<1>2. CASE op = "post"
  <2>1. ~Known(id)
    BY <1>2 DEF HttpResult, ServerAnswer, callPostJson
  <2>2. server' = [server EXCEPT ![id] = [st |-> "live", v |-> v, in |-> Container(id)]]
    BY <1>2 DEF ServerAfter
  <2> QED  BY <1>1, <1>2, <2>1, <2>2 DEF Aged, Known, Ids
<1>3. CASE op = "put"
  <2>1. server[id].st = "live"
    BY <1>3 DEF HttpResult, ServerAnswer, callPutJson
  <2>2. server' = [server EXCEPT ![id] = [server[id] EXCEPT !.v = v]]
    BY <1>3 DEF ServerAfter
  <2> QED  BY <1>1, <1>3, <2>1, <2>2 DEF Aged, Ids
<1>4. CASE op = "del"
  <2>1. server' = Killed(id)  BY <1>4 DEF ServerAfter
  <2> QED  BY <1>4, <2>1, KilledAges DEF Entitled, Shape, Aged
<1> QED  BY <1>2, <1>3, <1>4

(* A run that ends by deleting takes its resource out of Redux. *)
LEMMA EndPushDrops ==
    ASSUME Contents, NEW id \in Ids, NEW op, EndPush(id, op)
    PROVE  /\ DOMAIN redux' = Ids
           /\ \A k \in Ids : Edited(k) /\ (redux'[k] = redux[k] \/ redux'[k] = 0)
           /\ own' \subseteq own
           /\ op = "del" => redux'[id] = 0
           /\ op # "del" => UNCHANGED <<redux, own>>
<1>1. CASE op = "del"
  <2>1. DropFromRedux(deleteSpaceCascadeInRedux(id)) /\ id \in deleteSpaceCascadeInRedux(id)
    BY <1>1 DEF EndPush, deleteSpaceCascadeInRedux
  <2> HIDE DEF deleteSpaceCascadeInRedux
  <2> QED  BY <1>1, <2>1, Dropped
<1>2. CASE op # "del"
  <2>1. UNCHANGED <<redux, own>>  BY <1>2 DEF EndPush, localVars
  <2> QED  BY <1>2, <2>1 DEF Edited, Contents
<1> QED  BY <1>1, <1>2

(* The runs of id after one of them changed, in a sound way *)
LEMMA OneRun ==
    ASSUME Tracked, NEW id \in Ids, NEW slot \in Slots, IsTask(task), NEW run,
           task' = [task EXCEPT ![id][slot] = run],
           Small(id, run.v), run.pc # "idle" => run.op \in {"post", "put", "del"},
           Sends(run) => run.v > 0
    PROVE  /\ task'[id][slot] = run
           /\ \A k \in Ids, s \in Slots : ~(k = id /\ s = slot) => task'[k][s] = task[k][s]
           /\ \A s \in Slots : /\ Small(id, task'[id][s].v)
                               /\ task'[id][s].pc # "idle" => task'[id][s].op \in {"post", "put", "del"}
                               /\ Sends(task'[id][s]) => task'[id][s].v > 0
<1>1. /\ task'[id][slot] = run
      /\ \A k \in Ids, s \in Slots : ~(k = id /\ s = slot) => task'[k][s] = task[k][s]
  BY DEF IsTask
<1>2. Content(id)  BY DEF Tracked, Contents
<1> QED  BY <1>1, <1>2 DEF Content

(* A slot without a run *)
LEMMA IdleIsSound ==
    ASSUME NEW id
    PROVE  Small(id, Idle.v) /\ Idle.pc = "idle" /\ ~Sends(Idle) /\ ~Unsettled(Idle)
BY DEF Idle, Small, Sends, Unsettled, Renamed, Created

(* One run ends. *)
LEMMA OneRunEnds ==
    ASSUME Tracked, NEW id \in Ids, NEW slot \in Slots, IsTask(task),
           task' = [task EXCEPT ![id][slot] = Idle]
    PROVE  /\ task'[id][slot] = Idle
           /\ \A k \in Ids, s \in Slots : ~(k = id /\ s = slot) => task'[k][s] = task[k][s]
           /\ \A s \in Slots : /\ Small(id, task'[id][s].v)
                               /\ task'[id][s].pc # "idle" => task'[id][s].op \in {"post", "put", "del"}
                               /\ Sends(task'[id][s]) => task'[id][s].v > 0
<1>1. /\ task'[id][slot] = Idle
      /\ \A k \in Ids, s \in Slots : ~(k = id /\ s = slot) => task'[k][s] = task[k][s]
  BY DEF IsTask
<1>2. ASSUME NEW s \in Slots
      PROVE  /\ Small(id, task'[id][s].v)
             /\ task'[id][s].pc # "idle" => task'[id][s].op \in {"post", "put", "del"}
             /\ Sends(task'[id][s]) => task'[id][s].v > 0
  <2>1. CASE s = slot
    <3>1. Small(id, Idle.v) /\ Idle.pc = "idle" /\ ~Sends(Idle)  BY IdleIsSound
    <3> QED  BY <1>1, <2>1, <3>1
  <2>2. CASE s # slot
    <3>1. task'[id][s] = task[id][s]  BY <1>1, <2>2
    <3>2. Content(id)  BY DEF Tracked, Contents
    <3> QED  BY <3>1, <3>2 DEF Content
  <2> QED  BY <2>1, <2>2
<1> QED  BY <1>1, <1>2

(* A refusal is retried or given up. *)
LEMMA HttpRefusedTracked ==
    ASSUME Entitled, Tracked, NEW id \in Ids, NEW slot \in Slots, HttpRefused(id, slot)
    PROVE  Tracked'
<1>1. /\ task' = [task EXCEPT ![id][slot] = Idle]
      /\ \/ retry' = NeedsRetry(retry, id) /\ failed' = failed
         \/ retry' = retry /\ failed' = failed \cup {id}
      /\ UNCHANGED <<redux, own, db, server, queue, refresh>>
  BY DEF HttpRefused, localVars
<1>2. /\ \A k \in Ids : Content(k) /\ Followed(k)
      /\ Counts(queue) /\ Counts(retry) /\ DOMAIN redux = Ids
  BY DEF Tracked, Contents
<1>3. /\ task'[id][slot] = Idle
      /\ \A k \in Ids, s \in Slots : ~(k = id /\ s = slot) => task'[k][s] = task[k][s]
      /\ \A s \in Slots : /\ Small(id, task'[id][s].v)
                          /\ task'[id][s].pc # "idle" => task'[id][s].op \in {"post", "put", "del"}
                          /\ Sends(task'[id][s]) => task'[id][s].v > 0
  <2>1. IsTask(task)  BY DEF Entitled, Shape
  <2> QED  BY <1>1, <2>1, OneRunEnds
<1>4. Content(id)'
  BY <1>1, <1>2, <1>3 DEF Content, Known
<1>5. /\ Counts(retry') /\ \A k \in Ids : k # id => retry'[k] = retry[k]
      /\ Waiting(id)' \/ id \in failed'
  <2>1. CASE retry' = NeedsRetry(retry, id)
    <3>1. Counts(retry') /\ retry'[id] > 0  BY <1>2, <2>1, RetryUp
    <3>2. \A k \in Ids : k # id => retry'[k] = retry[k]
      BY <1>2, <2>1 DEF NeedsRetry, Counts
    <3> QED  BY <3>1, <3>2 DEF Waiting
  <2>2. CASE retry' = retry /\ failed' = failed \cup {id}  BY <1>2, <2>2
  <2> QED  BY <1>1, <2>1, <2>2
<1>6. Followed(id)'
  <2>1. db'[id].by \in Slots => ~db'[id].deleted  BY <1>1, <1>2 DEF Followed
  <2> QED  BY <1>5, <2>1, WaitingIsFollowed, Excused
<1>7. \A k \in Ids : k # id => Edited(k) /\ Aged(k)
  BY <1>1 DEF Edited, Aged
<1> QED  BY <1>1, <1>2, <1>3, <1>4, <1>5, <1>6, <1>7, PushTracked

(* An answer says whether the row is still the snapshot that was sent. *)
LEMMA HttpOkTracked ==
    ASSUME Entitled, Tracked, NEW id \in Ids, NEW slot \in Slots, HttpOk(id, slot)
    PROVE  Tracked'
<1> DEFINE t == task[id][slot]
           done == [t EXCEPT !.pc = "clear", !.n = 0]
<1>1. /\ t.pc = "http" /\ HttpResult(id, t.op) = "ok"
      /\ server' = ServerAfter(id, t.op, t.v)
      /\ \/ /\ Unchanged(id, slot)
            /\ task' = [task EXCEPT ![id][slot] = done]
            /\ UNCHANGED <<redux, own, retry>>
         \/ /\ task' = [task EXCEPT ![id][slot] = Idle]
            /\ retry' = NeedsRetry(retry, id)
            /\ EndPush(id, t.op)
      /\ UNCHANGED <<db, queue, failed, refresh>>
  BY DEF HttpOk, InHttp, localVars, pullVars
<1>2. /\ \A k \in Ids : Content(k) /\ Followed(k)
      /\ Counts(queue) /\ Counts(retry) /\ DOMAIN redux = Ids /\ Contents
  BY DEF Tracked, Contents
<1>3. /\ DOMAIN t = {"pc", "op", "v", "n"} /\ IsTask(task)
      /\ t.op = "post" \/ Known(id)
      /\ t.op \in {"post", "put", "del"} /\ Small(id, t.v) /\ (Sends(t) => t.v > 0)
  <2>1. Content(id) /\ t.pc = "http" /\ RunSound(t, Known(id))
    BY <1>1, <1>2 DEF Entitled, RunsSound
  <2> QED  BY <2>1 DEF Entitled, Shape, IsTask, Content, RunSound
<1>4. /\ done.pc = "clear" /\ done.op = t.op /\ done.v = t.v /\ ~Sends(done)
  BY <1>3 DEF Sends
<1> HIDE DEF t, done
<1>5. /\ \A k \in Ids : k # id => Aged(k)
      /\ \A k \in Ids : server[k].st = "deleted" => server'[k].st = "deleted"
      /\ t.op = "post" => ~Known(id) /\ server'[id].st = "live" /\ server'[id].v = t.v
      /\ t.op = "put" => server[id].st = "live" /\ server'[id].st = "live" /\ server'[id].v = t.v
      /\ t.op = "del" => Aged(id) /\ server'[id].st # "live" /\ server'[id].v = server[id].v
  BY <1>1, <1>3, AnswerAges
<1>6. server'[id].st \in {"live", "deleted"} /\ server'[id].v \in 0..Renamed /\ server'[id].v > 0
  <2>1. CASE t.op \in {"post", "put"}
    BY <1>1, <1>3, <1>5, <2>1 DEF Sends, Small
  <2>2. CASE t.op = "del"
    BY <1>2, <1>3, <1>5, <2>2 DEF Aged, Content, Known
  <2> QED  BY <1>3, <2>1, <2>2
<1>7. /\ \A k \in Ids : Edited(k) /\ (redux'[k] = redux[k] \/ redux'[k] = 0)
      /\ DOMAIN redux' = Ids
  <2>1. CASE UNCHANGED <<redux, own>>  BY <1>2, <2>1 DEF Edited
  <2>2. CASE EndPush(id, t.op)  BY <1>2, <2>2, EndPushDrops
  <2> QED  BY <1>1, <2>1, <2>2
<1>8. PICK run \in {done, Idle} : task' = [task EXCEPT ![id][slot] = run]
  BY <1>1
<1>9. /\ task'[id][slot] = run
      /\ \A k \in Ids, s \in Slots : ~(k = id /\ s = slot) => task'[k][s] = task[k][s]
      /\ \A s \in Slots : /\ Small(id, task'[id][s].v)
                          /\ task'[id][s].pc # "idle" => task'[id][s].op \in {"post", "put", "del"}
                          /\ Sends(task'[id][s]) => task'[id][s].v > 0
  <2>1. Small(id, run.v) /\ (run.pc # "idle" => run.op \in {"post", "put", "del"}) /\ ~Sends(run)
    <3>1. Small(id, Idle.v) /\ Idle.pc = "idle" /\ ~Sends(Idle)  BY IdleIsSound
    <3> QED  BY <1>3, <1>4, <1>8, <3>1
  <2> QED  BY <1>3, <1>8, <2>1, OneRun
<1>10. Content(id)'
  <2>1. Content(id) /\ Small(id, redux'[id])
    <3>1. Content(id)  BY <1>2
    <3> QED  BY <1>7, <3>1 DEF Content, Small, Renamed, Created
  <2> QED  BY <1>1, <1>6, <1>9, <2>1 DEF Content
<1>11. Followed(id)'
  <2>1. db'[id].by \in Slots => ~db'[id].deleted  BY <1>1, <1>2 DEF Followed
  <2>2. CASE Unchanged(id, slot) /\ task'[id][slot] = done /\ UNCHANGED <<redux, own, retry>>
    <3>1. CASE t.op = "del"
      <4>1. server'[id].st = "deleted"  BY <1>5, <1>6, <3>1
      <4> QED  BY <2>1, <4>1, Excused
    <3>2. CASE t.op \in {"post", "put"}
      <4>1. db[id].by = slot  BY <2>2, <3>2 DEF Unchanged, t
      <4>2. Behind(id, server[id].v)' => Waiting(id)'
        <5>1. Behind(id, server[id].v)' => Behind(id, t.v)
          BY <1>1, <1>5, <2>2, <3>2 DEF Behind, InRedux, Known
        <5>2. Behind(id, t.v) => Waiting(id)
          BY <1>1, <1>2, <3>2, <4>1 DEF Followed, Sends, t
        <5>3. Waiting(id)' <=> Waiting(id)  BY <1>1, <2>2 DEF Waiting
        <5> QED  BY <5>1, <5>2, <5>3
      <4>3. \A s \in Slots : db'[id].by = s => ~Sends(task'[id][s])
        BY <1>1, <1>4, <2>2, <4>1
      <4> QED  BY <2>1, <4>2, <4>3 DEF Followed, Waiting, Pending
    <3> QED  BY <1>3, <3>1, <3>2
  <2>3. CASE retry' = NeedsRetry(retry, id)
    <3>1. retry'[id] > 0  BY <1>2, <2>3, RetryUp
    <3> QED  BY <2>1, <3>1, WaitingIsFollowed DEF Waiting
  <2>4. task' = [task EXCEPT ![id][slot] = done] => task'[id][slot] = done
    BY <1>3 DEF IsTask
  <2> QED  BY <1>1, <2>2, <2>3, <2>4
<1>12. Counts(retry') /\ \A k \in Ids : k # id => retry'[k] = retry[k]
  <2>1. CASE retry' = NeedsRetry(retry, id)
    <3>1. Counts(retry')  BY <1>2, <2>1, RetryUp
    <3> QED  BY <1>2, <2>1, <3>1 DEF NeedsRetry, Counts
  <2>2. CASE retry' = retry  BY <1>2, <2>2
  <2> QED  BY <1>1, <2>1, <2>2
<1> QED  BY <1>1, <1>2, <1>5, <1>7, <1>9, <1>10, <1>11, <1>12, PushTracked

(* A failure is tried again, with the snapshot, or retried later. *)
LEMMA HttpFaultTracked ==
    ASSUME Entitled, Tracked, NEW id \in Ids, NEW slot \in Slots, NEW executed \in BOOLEAN,
           HttpFault(id, slot, executed)
    PROVE  Tracked'
<1> DEFINE t == task[id][slot]
           again == [t EXCEPT !.n = t.n + 1]
<1>1. /\ t.pc = "http"
      /\ executed => HttpResult(id, t.op) = "ok"
      /\ server' = IF executed THEN ServerAfter(id, t.op, t.v) ELSE server
      /\ \/ task' = [task EXCEPT ![id][slot] = again] /\ retry' = retry
         \/ task' = [task EXCEPT ![id][slot] = Idle] /\ retry' = NeedsRetry(retry, id)
      /\ UNCHANGED <<redux, own, db, queue, failed, refresh>>
  BY DEF HttpFault, InHttp, localVars, pullVars
<1>2. /\ \A k \in Ids : Content(k) /\ Followed(k)
      /\ Counts(queue) /\ Counts(retry) /\ DOMAIN redux = Ids
  BY DEF Tracked, Contents
<1>3. /\ DOMAIN t = {"pc", "op", "v", "n"} /\ IsTask(task)
      /\ t.op = "post" \/ Known(id)
      /\ t.op \in {"post", "put", "del"} /\ Small(id, t.v) /\ (Sends(t) => t.v > 0)
  <2>1. Content(id) /\ t.pc = "http" /\ RunSound(t, Known(id))
    BY <1>1, <1>2 DEF Entitled, RunsSound
  <2> QED  BY <2>1 DEF Entitled, Shape, IsTask, Content, RunSound
<1>4. again.pc = "http" /\ again.op = t.op /\ again.v = t.v /\ (Sends(again) <=> Sends(t))
  BY <1>1, <1>3 DEF Sends
<1> HIDE DEF t, again
<1>5. /\ \A k \in Ids : k # id => Aged(k)
      /\ \A k \in Ids : server[k].st = "deleted" => server'[k].st = "deleted"
      /\ server'[id].st \in {"none", "live", "deleted"} /\ server'[id].v \in 0..Renamed
      /\ Known(id)' => server'[id].v > 0
  <2>0. Content(id)  BY <1>2
  <2>1. CASE executed
    <3>1. /\ \A k \in Ids : k # id => Aged(k)
          /\ \A k \in Ids : server[k].st = "deleted" => server'[k].st = "deleted"
          /\ t.op = "post" => ~Known(id) /\ server'[id].st = "live" /\ server'[id].v = t.v
          /\ t.op = "put" => server[id].st = "live" /\ server'[id].st = "live" /\ server'[id].v = t.v
          /\ t.op = "del" => Aged(id) /\ server'[id].st # "live" /\ server'[id].v = server[id].v
      BY <1>1, <1>3, <2>1, AnswerAges
    <3>2. CASE t.op \in {"post", "put"}
      BY <1>1, <1>3, <3>1, <3>2 DEF Sends, Small
    <3>3. CASE t.op = "del"
      BY <1>3, <2>0, <3>1, <3>3 DEF Aged, Content, Known
    <3> QED  BY <1>3, <3>1, <3>2, <3>3
  <2>2. CASE ~executed
    BY <1>1, <2>0, <2>2 DEF Aged, Content, Known
  <2> QED  BY <2>1, <2>2
<1>8. PICK run \in {again, Idle} : task' = [task EXCEPT ![id][slot] = run]
  BY <1>1
<1>9. /\ task'[id][slot] = run
      /\ \A k \in Ids, s \in Slots : ~(k = id /\ s = slot) => task'[k][s] = task[k][s]
      /\ \A s \in Slots : /\ Small(id, task'[id][s].v)
                          /\ task'[id][s].pc # "idle" => task'[id][s].op \in {"post", "put", "del"}
                          /\ Sends(task'[id][s]) => task'[id][s].v > 0
  <2>1. Small(id, run.v) /\ (run.pc # "idle" => run.op \in {"post", "put", "del"})
        /\ (Sends(run) => run.v > 0)
    <3>1. Small(id, Idle.v) /\ Idle.pc = "idle" /\ ~Sends(Idle)  BY IdleIsSound
    <3> QED  BY <1>3, <1>4, <1>8, <3>1
  <2> QED  BY <1>3, <1>8, <2>1, OneRun
<1>10. Content(id)'
  <2>1. Content(id)  BY <1>2
  <2> QED  BY <1>1, <1>5, <1>9, <2>1 DEF Content
<1>11. Followed(id)'
  <2>1. db'[id].by \in Slots => ~db'[id].deleted  BY <1>1, <1>2 DEF Followed
  <2>2. CASE task'[id][slot] = again /\ retry' = retry
    <3>1. Unsettled(again) /\ again # Idle  BY <1>4 DEF Unsettled, Idle
    <3>2. Pending(id)'  BY <2>2, <3>1 DEF Pending
    <3>3. ASSUME NEW s \in Slots, task'[id][s].pc = "clear"
          PROVE  \E other \in Slots \ {s} : Unsettled(task'[id][other])
      <4>1. s # slot  BY <1>4, <2>2, <3>3
      <4> QED  BY <2>2, <3>1, <4>1
    <3>4. ASSUME NEW s \in Slots, Sends(task'[id][s]), db'[id].by = s, Behind(id, task[id][s].v)'
          PROVE  Waiting(id)'
      <4>1. Sends(task[id][s]) /\ task'[id][s].v = task[id][s].v
        <5>1. CASE s = slot  BY <1>4, <2>2, <3>4, <5>1 DEF t
        <5>2. CASE s # slot  BY <1>9, <3>4, <5>2
        <5> QED  BY <5>1, <5>2
      <4>2. Behind(id, task[id][s].v)
        BY <1>1, <1>5, <3>4, <4>1 DEF Behind, InRedux
      <4>3. Waiting(id)  BY <1>1, <1>2, <3>4, <4>1, <4>2 DEF Followed
      <4> QED  BY <1>1, <2>2, <4>3 DEF Waiting
    <3> QED  BY <2>1, <3>2, <3>3, <3>4 DEF Followed
  <2>3. CASE retry' = NeedsRetry(retry, id)
    <3>1. retry'[id] > 0  BY <1>2, <2>3, RetryUp
    <3> QED  BY <2>1, <3>1, WaitingIsFollowed DEF Waiting
  <2>4. task' = [task EXCEPT ![id][slot] = again] => task'[id][slot] = again
    BY <1>3 DEF IsTask
  <2> QED  BY <1>1, <2>2, <2>3, <2>4
<1>12. Counts(retry') /\ \A k \in Ids : k # id => retry'[k] = retry[k]
  <2>1. CASE retry' = NeedsRetry(retry, id)
    <3>1. Counts(retry')  BY <1>2, <2>1, RetryUp
    <3> QED  BY <1>2, <2>1, <3>1 DEF NeedsRetry, Counts
  <2>2. CASE retry' = retry  BY <1>2, <2>2
  <2> QED  BY <1>1, <2>1, <2>2
<1>13. \A k \in Ids : Edited(k)  BY <1>1 DEF Edited
<1> QED  BY <1>1, <1>2, <1>5, <1>9, <1>10, <1>11, <1>12, <1>13, PushTracked

(* The run that ends was answered: what is newer has another push. *)
LEMMA ClearDirtyTracked ==
    ASSUME Entitled, Tracked, NEW id \in Ids, NEW slot \in Slots, ClearDirty(id, slot)
    PROVE  Tracked'
<1> DEFINE t == task[id][slot]
           row == [v |-> t.v, dirty |-> FALSE, deleted |-> (t.op = "del"), by |-> "none"]
<1>1. /\ t.pc = "clear"
      /\ db' = [db EXCEPT ![id] = row]
      /\ task' = [task EXCEPT ![id][slot] = Idle]
      /\ EndPush(id, t.op)
      /\ UNCHANGED <<server, queue, retry, failed, refresh>>
  BY DEF ClearDirty, putSynced, pullVars
<1>2. /\ \A k \in Ids : Content(k) /\ Followed(k)
      /\ Counts(queue) /\ Counts(retry) /\ DOMAIN redux = Ids /\ Contents
  BY DEF Tracked, Contents
<1>3. row.v = t.v /\ row.by = "none" /\ Small(id, t.v)
  BY <1>2 DEF Content
<1> HIDE DEF row
<1>4. db'[id] = row /\ \A k \in Ids : k # id => db'[k] = db[k]
  BY <1>1 DEF Entitled, Shape, IsDb
<1>5. /\ task'[id][slot] = Idle
      /\ \A k \in Ids, s \in Slots : ~(k = id /\ s = slot) => task'[k][s] = task[k][s]
      /\ \A s \in Slots : /\ Small(id, task'[id][s].v)
                          /\ task'[id][s].pc # "idle" => task'[id][s].op \in {"post", "put", "del"}
                          /\ Sends(task'[id][s]) => task'[id][s].v > 0
  <2>1. IsTask(task)  BY DEF Entitled, Shape
  <2> QED  BY <1>1, <2>1, OneRunEnds
<1>6. /\ DOMAIN redux' = Ids
      /\ \A k \in Ids : Edited(k) /\ (redux'[k] = redux[k] \/ redux'[k] = 0)
      /\ t.op = "del" => redux'[id] = 0
      /\ t.op # "del" => UNCHANGED <<redux, own>>
  BY <1>1, <1>2, EndPushDrops
<1>7. Content(id)'
  <2>1. Content(id) /\ Small(id, redux'[id])
    <3>1. Content(id)  BY <1>2
    <3> QED  BY <1>6, <3>1 DEF Content, Small, Renamed, Created
  <2> QED  BY <1>1, <1>3, <1>4, <1>5, <2>1 DEF Content, Known
<1>8. Followed(id)'
  <2>1. db'[id].by \notin Slots  BY <1>3, <1>4 DEF Slots
  <2>2. CASE t.op = "del"  BY <1>6, <2>1, <2>2, Excused
  <2>3. CASE t.op # "del"
    <3>1. /\ Followed(id) /\ (Waiting(id)' <=> Waiting(id))
          /\ Behind(id, server[id].v)' => Behind(id, server[id].v)
      BY <1>1, <1>2, <1>6, <2>3 DEF Waiting, Behind, InRedux
    <3>2. ~Unsettled(t)  BY <1>1, <2>3 DEF Unsettled
    <3>3. ASSUME Behind(id, server[id].v)' PROVE Pending(id)'
      <4>1. Waiting(id) \/ \E other \in Slots \ {slot} : Unsettled(task[id][other])
        BY <1>1, <2>3, <3>1, <3>3 DEF Followed
      <4>2. ASSUME NEW other \in Slots \ {slot}, Unsettled(task[id][other])
            PROVE  task'[id][other] # Idle
        BY <1>5, <4>2, IdleIsSound
      <4> QED  BY <3>1, <4>1, <4>2 DEF Pending, Waiting
    <3>4. ASSUME NEW s \in Slots, task'[id][s].pc = "clear", task'[id][s].op # "del",
                 Behind(id, server[id].v)'
          PROVE  Waiting(id)'
      <4>1. s # slot  BY <1>5, <3>4, IdleIsSound
      <4>2. task[id][s] = task'[id][s]  BY <1>5, <4>1
      <4>3. Waiting(id) \/ \E other \in Slots \ {s} : Unsettled(task[id][other])
        BY <3>1, <3>4, <4>2 DEF Followed
      <4>4. \A other \in Slots \ {s} : other = slot  BY <4>1 DEF Slots
      <4> QED  BY <3>1, <3>2, <4>3, <4>4
    <3> QED  BY <2>1, <3>3, <3>4 DEF Followed
  <2> QED  BY <2>2, <2>3
<1>9. \A k \in Ids : Aged(k) /\ (server[k].st = "deleted" => server'[k].st = "deleted")
  BY <1>1 DEF Aged
<1> QED  BY <1>1, <1>2, <1>4, <1>5, <1>6, <1>7, <1>8, <1>9, PushTracked

-----------------------------------------------------------------------------
(* The initial states have nothing of this program. *)
LEMMA InitTracked == Init => Tracked
<1> SUFFICES ASSUME Init PROVE Tracked
  OBVIOUS
<1>1. /\ DOMAIN redux = Ids /\ DOMAIN queue = Ids /\ DOMAIN retry = Ids
      /\ queue = [id \in Ids |-> 0] /\ retry = [id \in Ids |-> 0]
      /\ own = {} /\ refresh = {}
      /\ \A id \in Ids : /\ redux[id] = 0 /\ db[id] = NoRow
                         /\ \A slot \in Slots : task[id][slot] = Idle
  BY DEF Init
<1>2. ASSUME NEW id \in Ids
      PROVE  server[id] = Unknown \/ (server[id].st = "live" /\ server[id].v = Created)
  BY <1>2 DEF Init, Unknown
<1>3. Counts(queue) /\ Counts(retry)  BY <1>1 DEF Counts
<1>4. ASSUME NEW id \in Ids PROVE Content(id)
  <2>1. server[id].v \in 0..Renamed /\ server[id].st \in {"none", "live", "deleted"} /\ (Known(id) => server[id].v > 0)
    BY <1>2 DEF Unknown, Known, Created, Renamed
  <2>2. \A slot \in Slots : task[id][slot].v = 0 /\ task[id][slot].pc = "idle"
    BY <1>1 DEF Idle
  <2> QED  BY <1>1, <2>1, <2>2 DEF Content, Small, Sends, NoRow, Renamed, Created
<1>5. ASSUME NEW id \in Ids PROVE Followed(id)
  <2>1. db[id].by \notin Slots  BY <1>1 DEF NoRow, Slots
  <2> QED  BY <1>1, <2>1 DEF Followed, Behind
<1> QED  BY <1>1, <1>3, <1>4, <1>5 DEF Tracked, Contents

(* The steps of the sagas *)
LEMMA SagasTracked == ASSUME Entitled, Tracked, SagaStep \/ FaultStep PROVE Tracked'
<1>1. ASSUME NEW id \in Ids, NEW slot \in Slots, PushStep(id, slot) PROVE Tracked'
  BY <1>1, BeginPushTracked, HttpOkTracked, HttpRefusedTracked, ClearDirtyTracked DEF PushStep
<1>2. ASSUME NEW m \in Messages, RetryWatcherCrash(m) PROVE Tracked'
  BY <1>2, RetryWatcherCrashTracked
<1>3. ASSUME NEW r \in refresh, RefreshStep(r) PROVE Tracked'
  BY <1>3, RefreshDecidesTracked, writeRefreshedTracked, SoftDeleteTracked DEF RefreshStep
<1>4. ASSUME NEW id \in Ids, NEW slot \in Slots, NEW executed \in BOOLEAN,
             HttpFault(id, slot, executed)
      PROVE  Tracked'
  BY <1>4, HttpFaultTracked
<1>5. ASSUME \/ pullSpaces \/ pullSpacesFails
             \/ \E c \in pulling : pullConversation(c) \/ pullConversationFails(c)
      PROVE  Tracked'
  BY <1>5, PullTracked
<1>6. CASE SagaStep  BY <1>1, <1>2, <1>3, <1>5, <1>6 DEF SagaStep
<1>7. CASE FaultStep  BY <1>4, <1>5, <1>7 DEF FaultStep
<1> QED  BY <1>6, <1>7

(* Every step *)
LEMMA NextTracked == Entitled /\ Tracked /\ [Next]_vars => Tracked'
<1> SUFFICES ASSUME Entitled, Tracked, [Next]_vars PROVE Tracked'
  OBVIOUS
<1>1. CASE UNCHANGED vars
  BY <1>1, Untouched DEF vars, sagaVars, localVars, pushVars, pullVars
<1>2. CASE Next
  BY <1>2, StoreTracked, RestartTracked, OtherDeviceTracked, SagasTracked DEF Next
<1> QED  BY <1>1, <1>2

(* The invariant of NothingIsForgotten *)
LEMMA AlwaysTracked == Spec => [](Entitled /\ Tracked)
<1>1. Init => Entitled /\ Tracked  BY InitEntitled, InitTracked
<1>2. (Entitled /\ Tracked) /\ [Next]_vars => (Entitled /\ Tracked)'
  BY NextKeeps, NextTracked
<1> QED  BY <1>1, <1>2, PTL DEF Spec

(* What this program wrote and the server has not got is on its way: a push of  *)
(* it is queued, runs or sleeps before a retry, whatever is lost, retried,      *)
(* refreshed, edited or restarted, unless its push was given up or the resource *)
(* is deleted.                                                                  *)
THEOREM NothingIsForgotten == Spec => []NothingForgotten
<1>1. Entitled /\ Tracked => NothingForgotten
  <2> SUFFICES ASSUME Tracked, NEW id \in Ids, id \in own, InRedux(id),
                      server[id].st # "deleted", redux[id] > server[id].v
               PROVE  Pending(id) \/ id \in failed
    BY DEF NothingForgotten
  <2>1. Followed(id)  BY DEF Tracked
  <2> QED  BY <2>1 DEF Followed, Behind
<1> QED  BY <1>1, AlwaysTracked, PTL

-----------------------------------------------------------------------------
(* A space that is a project of the account, or may still become one: the       *)
(* server has never had it, but Redux, IndexedDB or a POST under way has.       *)
Posting(s) == \E slot \in Slots : task[s][slot].pc = "http" /\ task[s][slot].op = "post"

Candidate(s) ==
    \/ server[s].st = "live"
    \/ ~Known(s) /\ (InRedux(s) \/ Live(db[s]) \/ Posting(s))

(* findOrCreateSpace finds it, or will when what the listing brings is done. *)
Seen(s) ==
    \/ InRedux(s)
    \/ listing # "done" /\ server[s].st = "live"
    \/ \E r \in refresh : r.id = s /\ r.act = "refresh" /\ r.pc = "start"

(* This program never deletes a space by itself. *)
NotDeletedHere(s) ==
    /\ db[s].deleted => ~db[s].dirty
    /\ \A slot \in Slots : task[s][slot].op # "del"

Single ==
    /\ ~blind => \A s, t \in Spaces : Candidate(s) /\ Candidate(t) => s = t
    /\ phase = "starting" => \A s \in Spaces : Candidate(s) => Seen(s)
    /\ \A s \in Spaces : NotDeletedHere(s)

(* What a step does to the spaces other than creating one *)
Stays(s) ==
    /\ Candidate(s)' => Candidate(s)
    /\ Candidate(s)' /\ Seen(s) => Seen(s)'
    /\ NotDeletedHere(s)'

(* A step that lets every space stay *)
LEMMA StaysSingle ==
    ASSUME Single, \A s \in Spaces : Stays(s), ~blind' => ~blind,
           phase' = "starting" => phase = "starting"
    PROVE  Single'
BY DEF Single, Stays

(* A space is an id, and no other kind of resource. *)
LEMMA SpaceIds == \A s \in Spaces : s \in Ids /\ s # NoId /\ s \notin Conversations \cup Messages
BY SagasAssumption DEF Ids

(* Enough for a space to stay as it was: it is posted or written only from      *)
(* Redux or when the server has it, and leaves Redux only when it is deleted.   *)
LEMMA StaysWhen ==
    ASSUME NEW s \in Spaces, NotDeletedHere(s)', listing' = listing,
           server'[s] = server[s] \/ server'[s].st = "deleted",
           ~Known(s) => /\ redux'[s] # 0 => redux[s] # 0
                        /\ Live(db'[s]) => Live(db[s]) \/ redux[s] # 0
                        /\ Posting(s)' => Posting(s) \/ redux[s] # 0,
           redux[s] # 0 /\ server[s].st # "deleted" => redux'[s] # 0,
           \A r \in refresh : r.id = s /\ r.act = "refresh" /\ r.pc = "start"
                              => r \in refresh' \/ redux'[s] # 0
    PROVE  Stays(s)
<1>1. s # NoId  BY SpaceIds
<1>2. CASE server'[s].st = "deleted"
  <2>1. ~Candidate(s)'  BY <1>2 DEF Candidate, Known
  <2> QED  BY <2>1 DEF Stays
<1>3. CASE server'[s] = server[s]
  <2>1. (Known(s)' <=> Known(s)) /\ (InRedux(s) <=> redux[s] # 0) /\ (InRedux(s)' <=> redux'[s] # 0)
    BY <1>1, <1>3 DEF Known, InRedux
  <2>2. Candidate(s)' => Candidate(s)
    BY <1>3, <2>1 DEF Candidate
  <2>3. Candidate(s)' /\ InRedux(s) => InRedux(s)'
    BY <1>3, <2>1 DEF Candidate, Known
  <2>4. Candidate(s)' /\ Seen(s) => Seen(s)'
    BY <1>3, <2>1, <2>3 DEF Seen
  <2> QED  BY <2>2, <2>4 DEF Stays
<1> QED  BY <1>2, <1>3

(* A step that does nothing to the spaces *)
LEMMA SpacesUntouched ==
    ASSUME Single, ~blind' => ~blind, phase' = "starting" => phase = "starting",
           listing' = listing,
           \A s \in Spaces : /\ redux'[s] = redux[s] /\ db'[s] = db[s] /\ server'[s] = server[s]
                             /\ \A slot \in Slots : task'[s][slot] = task[s][slot],
           \A r \in refresh : r.act = "refresh" => r.pc # "start" \/ r.id \notin Spaces \/ r \in refresh'
    PROVE  Single'
<1>1. ASSUME NEW s \in Spaces PROVE Stays(s)
  <2>1. NotDeletedHere(s)' /\ (Posting(s)' => Posting(s))
    BY DEF Single, NotDeletedHere, Posting
  <2> QED  BY <2>1, StaysWhen
<1> QED  BY <1>1, StaysSingle

-----------------------------------------------------------------------------
(* A new project is created only when there is no other, as far as the store    *)
(* has seen the listing. *)
LEMMA CreateSpaceSingle == ASSUME Tracked, Single, CreateSpace PROVE Single'
<1>1. /\ phase = "starting" /\ phase' = "up" /\ Projects = {}
      /\ blind' = (blind \/ listing # "done" \/ refresh # {})
      /\ UNCHANGED <<db, server, task, refresh, listing>>
  BY DEF CreateSpace, pullVars
<1>2. PICK new \in Spaces : Fresh(new) /\ redux' = [redux EXCEPT ![new] = Created]
  BY DEF CreateSpace
<1>3. \A s \in Spaces : redux'[s] = IF s = new THEN Created ELSE redux[s]
  BY <1>2, SpaceIds DEF Tracked, Contents
<1>4. \A s \in Spaces : NotDeletedHere(s)'
  BY <1>1 DEF Single, NotDeletedHere
<1>5. ASSUME ~blind', NEW s \in Spaces, Candidate(s)'
      PROVE  s = new
  <2>1. listing = "done" /\ refresh = {} /\ ~InRedux(s)
    BY <1>1, <1>5 DEF Projects
  <2>2. ~Seen(s)  BY <2>1 DEF Seen
  <2>3. ~Candidate(s)  BY <1>1, <2>2 DEF Single
  <2> QED  BY <1>1, <1>3, <1>5, <2>3 DEF Candidate, Known, InRedux, Posting
<1> QED  BY <1>1, <1>4, <1>5 DEF Single

(* The operations of the store *)
LEMMA StoreSingle == ASSUME Tracked, Single, StoreStep PROVE Single'
<1>1. ASSUME UNCHANGED <<db, server, task, listing>>, refresh \subseteq refresh',
             ~blind' => ~blind, phase' = "starting" => phase = "starting",
             \A s \in Spaces : redux'[s] = redux[s]
      PROVE  Single'
  BY <1>1, SpacesUntouched
<1>2. CASE CreateSpace  BY <1>2, CreateSpaceSingle
<1>3. CASE FindSpace
  BY <1>1, <1>3 DEF FindSpace, sagaVars, localVars, pushVars, pullVars
<1>4. ASSUME NEW c \in Conversations, getOrCreate(c) \/ setTitle(c) \/ delete(c)
      PROVE  Single'
  <2>1. \A s \in Spaces : redux'[s] = redux[s]
    BY <1>4, SpaceIds DEF getOrCreate, setTitle, delete, WithConversation, localVars, Tracked, Contents, Ids
  <2>2. UNCHANGED <<db, server, task, listing, phase, blind>> /\ refresh \subseteq refresh'
    BY <1>4 DEF getOrCreate, setTitle, delete, localVars, pushVars, pullVars, storeVars
  <2> QED  BY <1>1, <2>1, <2>2
<1>5. ASSUME NEW c \in Conversations, NEW ms, Range(ms) \subseteq Messages,
             appendMessages(c, ms) \/ createFromTurns(c, ms)
      PROVE  Single'
  <2>1. redux' = NewMessages(c, ms) \/ redux' = [NewMessages(c, ms) EXCEPT ![c] = Titled]
    BY <1>5 DEF appendMessages, createFromTurns
  <2>2. ASSUME NEW s \in Spaces PROVE redux'[s] = redux[s]
    <3>1. s \in Ids /\ s \notin Range(ms) /\ s # c  BY <1>5, SpaceIds
    <3>2. DOMAIN NewMessages(c, ms) = Ids
      BY DEF NewMessages
    <3>3. redux'[s] = NewMessages(c, ms)[s]  BY <2>1, <3>1, <3>2
    <3>4. NewMessages(c, ms)[s] = WithConversation(c)[s]  BY <3>1 DEF NewMessages
    <3> QED  BY <3>1, <3>3, <3>4 DEF WithConversation, Tracked, Contents
  <2>3. UNCHANGED <<db, server, task, listing, refresh, phase, blind>>
    BY <1>5 DEF appendMessages, createFromTurns, AddMessages, pullVars, storeVars
  <2> QED  BY <1>1, <2>2, <2>3
<1>6. ASSUME NEW ms \in Batches PROVE Range(ms) \subseteq Messages
  BY DEF Batches, Range
<1>7. \A m \in Messages : Range(<<m>>) \subseteq Messages
  BY DEF Range
<1> QED  BY <1>2, <1>3, <1>4, <1>5, <1>6, <1>7 DEF StoreStep, appendUserMessage, appendAssistantResponse

-----------------------------------------------------------------------------
(* The listing turns what the server has into refreshes. *)
LEMMA PullSingle ==
    ASSUME Single, \/ pullSpaces \/ pullSpacesFails
                   \/ \E c \in pulling : pullConversation(c) \/ pullConversationFails(c),
           UNCHANGED storeVars
    PROVE  Single'
<1>0. UNCHANGED <<phase, blind, redux, db, server, task>>
  BY DEF pullSpaces, pullSpacesFails, pullConversation, pullConversationFails,
         localVars, pushVars, storeVars
<1>1. \A s \in Spaces : /\ Candidate(s)' => Candidate(s)
                        /\ NotDeletedHere(s)'
  BY <1>0 DEF Candidate, Known, InRedux, Posting, NotDeletedHere, Single
<1>2. refresh \subseteq refresh'
  BY DEF pullSpaces, pullSpacesFails, pullConversation, pullConversationFails
<1>3. ASSUME NEW s \in Spaces, Seen(s) PROVE Seen(s)'
  <2>1. CASE ~(listing # "done" /\ server[s].st = "live")
    BY <1>0, <1>2, <1>3, <2>1 DEF Seen, InRedux
  <2>2. CASE server[s].st = "live" /\ pullSpaces
    <3>1. Known(s)  BY <2>2 DEF Known
    <3>2. Received(s) \in refresh'  BY <2>2, <3>1 DEF pullSpaces
    <3>3. Received(s).id = s /\ Received(s).act = "refresh" /\ Received(s).pc = "start"
      BY <2>2 DEF Received, Started
    <3> QED  BY <3>2, <3>3 DEF Seen
  <2>3. CASE listing # "done" /\ server[s].st = "live" /\ ~pullSpaces
    <3>1. listing' # "done"
      BY <2>3 DEF pullSpacesFails, pullConversation, pullConversationFails
    <3> QED  BY <1>0, <2>3, <3>1 DEF Seen
  <2> QED  BY <2>1, <2>2, <2>3
<1> QED  BY <1>0, <1>1, <1>3, StaysSingle DEF Stays

(* A space in Redux that the server has not deleted stays there. *)
LEMMA RefreshDecidesSingle ==
    ASSUME Entitled, Tracked, Single, NEW r \in refresh, UNCHANGED storeVars,
           \/ refreshSpaceFromRemote(r)
           \/ \E same \in BOOLEAN : refreshConversationFromRemote(r, same)
           \/ refreshMessageFromRemote(r)
    PROVE  Single'
<1>1. /\ UNCHANGED <<phase, blind, listing, server, db, task>>
      /\ r.act = "refresh" /\ r.id \in Ids /\ Known(r.id) /\ r.v > 0 /\ r.v \in Nat
      /\ refresh \ {r} \subseteq refresh' /\ DOMAIN redux = Ids
  <2>1. r.act = "refresh" /\ UNCHANGED <<listing, server, db, task>> /\ refresh \ {r} \subseteq refresh'
    BY DEF refreshSpaceFromRemote, refreshConversationFromRemote, refreshMessageFromRemote,
           InRefresh, Ended, Writes, pushVars
  <2>2. RefreshShape(r) /\ DOMAIN redux = Ids  BY DEF Tracked, Contents
  <2> QED  BY <2>1, <2>2 DEF RefreshShape, Entitled, RefreshesSound, storeVars, Renamed
<1>2. ASSUME NEW s \in Spaces
      PROVE  /\ s # r.id => redux'[s] = redux[s]
             /\ s = r.id => redux'[s] # 0
  <2>1. CASE refreshSpaceFromRemote(r)
    <3>1. CASE InRedux(r.id) /\ db[r.id].dirty
      BY <2>1, <3>1 DEF refreshSpaceFromRemote, localVars, InRedux
    <3>2. CASE ~(InRedux(r.id) /\ db[r.id].dirty)
      <4>1. redux' = [redux EXCEPT ![r.id] = IF Live(db[r.id]) /\ db[r.id].dirty THEN db[r.id].v ELSE r.v]
        BY <2>1, <3>2 DEF refreshSpaceFromRemote, addSpaceToRedux
      <4>2. Live(db[r.id]) => db[r.id].v # 0  BY DEF Live, Present
      <4> QED  BY <1>1, <4>1, <4>2, SpaceIds
    <3> QED  BY <3>1, <3>2
  <2>2. ASSUME NEW same \in BOOLEAN, refreshConversationFromRemote(r, same)
        PROVE  s # r.id /\ redux'[s] = redux[s]
    <3>1. r.id \in Conversations  BY <2>2 DEF refreshConversationFromRemote, InRefresh
    <3> QED  BY <2>2, <3>1, SpaceIds, <1>1
             DEF refreshConversationFromRemote, addConversationToRedux, localVars
  <2>3. CASE refreshMessageFromRemote(r)
    BY <2>3, SpaceIds DEF refreshMessageFromRemote, InRefresh, localVars
  <2> QED  BY <2>1, <2>2, <2>3
<1>3. ASSUME NEW s \in Spaces PROVE Stays(s)
  <2>1. NotDeletedHere(s)' /\ (Posting(s)' => Posting(s))
    BY <1>1 DEF Single, NotDeletedHere, Posting
  <2>2. ~Known(s) => redux'[s] = redux[s]  BY <1>1, <1>2
  <2>3. redux[s] # 0 => redux'[s] # 0  BY <1>2
  <2>4. ASSUME NEW x \in refresh, x.id = s PROVE x \in refresh' \/ redux'[s] # 0
    BY <1>1, <1>2, <2>4
  <2> QED  BY <1>1, <2>1, <2>2, <2>3, <2>4, StaysWhen
<1> QED  BY <1>1, <1>3, StaysSingle

(* Only a space the server has is written by a refresh. *)
LEMMA writeRefreshedSingle ==
    ASSUME Entitled, Single, NEW r \in refresh, writeRefreshed(r), UNCHANGED storeVars
    PROVE  Single'
<1>1. /\ r.id \in Ids /\ Known(r.id)
      /\ \/ db' = [db EXCEPT ![r.id].dirty = FALSE]
         \/ db' = [db EXCEPT ![r.id] = [v |-> r.v, dirty |-> FALSE, deleted |-> FALSE, by |-> "none"]]
      /\ refresh' = refresh \ {r} /\ r.pc # "start"
      /\ UNCHANGED <<phase, blind, listing, server, task, redux>>
  BY DEF writeRefreshed, Entitled, RefreshesSound, putClean, update, Ended, localVars, pushVars, storeVars
<1>2. ASSUME NEW s \in Spaces PROVE Stays(s)
  <2>1. (~Known(s) => db'[s] = db[s]) /\ (db'[s] = db[s] \/ ~db'[s].dirty)
    BY <1>1, SpaceIds DEF Entitled, Shape, IsDb
  <2>2. NotDeletedHere(s)' /\ (Posting(s)' => Posting(s))
    BY <1>1, <2>1 DEF Single, NotDeletedHere, Posting
  <2> QED  BY <1>1, <2>1, <2>2, StaysWhen
<1> QED  BY <1>1, <1>2, StaysSingle DEF storeVars

(* Only a space the server has deleted is deleted here. *)
LEMMA SoftDeleteSingle ==
    ASSUME Entitled, Tracked, Single, NEW r \in refresh,
           softDeleteInRedux(r) \/ softDeleteInIdb(r), UNCHANGED storeVars
    PROVE  Single'
<1>1. /\ UNCHANGED <<phase, blind, listing, server, task>> /\ r.act # "refresh"
      /\ refresh \ {r} \subseteq refresh'
      /\ r.id \in Ids /\ (r.id \in Spaces => server[r.id].st = "deleted")
  <2>1. RefreshShape(r)  BY DEF Tracked, Contents
  <2>2. /\ UNCHANGED <<phase, blind, listing, server, task>> /\ r.act # "refresh"
        /\ refresh \ {r} \subseteq refresh'
    BY DEF softDeleteInRedux, softDeleteInIdb, Writes, Ended, pushVars, storeVars
  <2> QED  BY <2>1, <2>2, SpaceIds DEF RefreshShape
<1>2. CASE softDeleteInRedux(r)
  <2>1. UNCHANGED db /\ DropFromRedux(deleteSpaceCascadeInRedux(r.id))
    BY <1>2 DEF softDeleteInRedux
  <2>2. ASSUME NEW s \in Spaces PROVE redux'[s] = IF s = r.id THEN 0 ELSE redux[s]
    <3>1. s \in deleteSpaceCascadeInRedux(r.id) <=> s = r.id
      BY SpaceIds DEF deleteSpaceCascadeInRedux, Within
    <3> QED  BY <2>1, <3>1, SpaceIds DEF DropFromRedux
  <2>3. ASSUME NEW s \in Spaces PROVE Stays(s)
    <3>1. NotDeletedHere(s)' /\ (Posting(s)' => Posting(s))
      BY <1>1, <2>1 DEF Single, NotDeletedHere, Posting
    <3>2. redux[s] # 0 /\ server[s].st # "deleted" => redux'[s] # 0
      BY <1>1, <2>2
    <3>3. redux'[s] # 0 => redux[s] # 0  BY <2>2
    <3> QED  BY <1>1, <2>1, <3>1, <3>2, <3>3, StaysWhen
  <2> QED  BY <1>1, <2>3, StaysSingle
<1>3. CASE softDeleteInIdb(r)
  <2>1. UNCHANGED redux /\ \A s \in Spaces : db'[s] = db[s] \/ db'[s] = softDelete(db[s], FALSE)
    <3> DEFINE local == r.act = "local"
    <3>1. /\ UNCHANGED redux
          /\ db' = IF r.id \in Spaces THEN softDeleteSpaceCascade(db, up, r.id, FALSE)
                   ELSE softDeleteConversation(db, r.id, local)
      BY <1>3 DEF softDeleteInIdb, localVars
    <3>2. local \in BOOLEAN  OBVIOUS
    <3> HIDE DEF local
    <3> QED  BY <1>1, <3>1, <3>2, RowsDeleted, SpaceIds
  <2>2. ASSUME NEW s \in Spaces PROVE Stays(s)
    <3>1. db'[s] = db[s] \/ (~db'[s].dirty /\ db'[s].deleted)
      <4>1. DOMAIN db[s] = {"v", "dirty", "deleted", "by"}  BY SpaceIds DEF Entitled, Shape, IsDb
      <4> QED  BY <2>1, <4>1 DEF softDelete
    <3>2. NotDeletedHere(s)' /\ (Posting(s)' => Posting(s))
      BY <1>1, <3>1 DEF Single, NotDeletedHere, Posting
    <3>3. Live(db'[s]) => Live(db[s])  BY <3>1 DEF Live
    <3> QED  BY <1>1, <2>1, <3>2, <3>3, StaysWhen
  <2> QED  BY <1>1, <2>2, StaysSingle
<1> QED  BY <1>2, <1>3

(* Another device deletes spaces, and creates none of this name. *)
LEMMA OtherDeviceSingle == ASSUME Entitled, Single, OtherDevice PROVE Single'
<1>1. UNCHANGED <<phase, blind, listing, redux, db, task, refresh>>
  BY DEF OtherDevice, localVars, pushVars, pullVars, storeVars
<1>2. ASSUME NEW s \in Spaces PROVE server'[s] = server[s] \/ server'[s].st = "deleted"
  <2>1. ASSUME NEW c \in Conversations, server' = [server EXCEPT ![c].v = Renamed]
        PROVE  server'[s] = server[s]
    BY <2>1, SpaceIds DEF Entitled, Shape, IsServer
  <2>2. ASSUME NEW id \in Spaces \cup Conversations, server[id].st = "live", server' = Killed(id)
        PROVE  server'[s] = server[s] \/ server'[s].st = "deleted"
    <3>1. id \in Ids  BY DEF Ids
    <3>2. Aged(id) /\ server'[id].st # "live" /\ (s # id => server'[s] = server[s])
      BY <2>2, <3>1, KilledAges DEF Entitled, Shape
    <3> QED  BY <2>2, <3>2 DEF Aged
  <2> QED  BY <2>1, <2>2 DEF OtherDevice
<1>3. ASSUME NEW s \in Spaces PROVE Stays(s)
  <2>1. NotDeletedHere(s)' /\ (Posting(s)' => Posting(s))
    BY <1>1 DEF Single, NotDeletedHere, Posting
  <2> QED  BY <1>1, <1>2, <2>1, StaysWhen
<1> QED  BY <1>1, <1>3, StaysSingle

(* A project that was never sent is in Redux again after a restart. *)
LEMMA RestartSingle == ASSUME Entitled, Single, Restart PROVE Single'
<1>1. /\ redux' = [id \in Ids |-> IF id \in Loadable THEN db[id].v ELSE 0]
      /\ db' = [id \in Ids |-> [db[id] EXCEPT !.by = "none"]]
      /\ task' = [id \in Ids |-> [slot \in Slots |-> Idle]]
      /\ listing' = "asked" /\ UNCHANGED <<server, blind>>
  BY DEF Restart
<1>2. ASSUME NEW s \in Spaces
      PROVE  /\ db'[s].v = db[s].v /\ db'[s].dirty = db[s].dirty /\ db'[s].deleted = db[s].deleted
             /\ Live(db[s]) => redux'[s] # 0
             /\ ~Live(db[s]) => redux'[s] = 0
             /\ \A slot \in Slots : task'[s][slot] = Idle
  <2>1. s \in Loadable <=> Live(db[s])  BY SpaceIds DEF Loadable
  <2>2. DOMAIN db[s] = {"v", "dirty", "deleted", "by"}  BY SpaceIds DEF Entitled, Shape, IsDb
  <2> QED  BY <1>1, <2>1, <2>2, SpaceIds DEF Live, Present
<1>3. ASSUME NEW s \in Spaces
      PROVE  (Candidate(s)' => Candidate(s)) /\ (Candidate(s)' => Seen(s)') /\ NotDeletedHere(s)'
  <2>1. ~Posting(s)'  BY <1>2 DEF Posting, Idle
  <2>2. (InRedux(s)' <=> Live(db[s])) /\ (Live(db[s])' <=> Live(db[s])) /\ (Known(s)' <=> Known(s))
    BY <1>1, <1>2, SpaceIds DEF InRedux, Live, Present, Known
  <2>3. Candidate(s)' => Candidate(s)  BY <1>1, <2>1, <2>2 DEF Candidate
  <2>4. Candidate(s)' => Seen(s)'  BY <1>1, <2>1, <2>2 DEF Candidate, Seen
  <2>5. NotDeletedHere(s)'  BY <1>2 DEF Single, NotDeletedHere, Idle
  <2> QED  BY <2>3, <2>4, <2>5
<1> QED  BY <1>1, <1>3 DEF Single

-----------------------------------------------------------------------------
(* A space is posted from Redux. *)
LEMMA BeginPushSingle ==
    ASSUME Entitled, Tracked, Single, NEW id \in Ids, NEW slot \in Slots, BeginPush(id, slot),
           UNCHANGED storeVars
    PROVE  Single'
<1> DEFINE d == push(id)
           run == [pc |-> IF d = "forget" THEN "clear" ELSE "http",
                   op |-> IF d = "forget" THEN "del" ELSE d,
                   v |-> IF d \in {"forget", "del"} THEN db[id].v ELSE redux[id],
                   n |-> IF d = "forget" THEN 0 ELSE 1]
<1>1. /\ UNCHANGED <<phase, blind, listing, server, redux, refresh>>
      /\ task' = IF d \in {"forget", "del", "put", "post"}
                 THEN [task EXCEPT ![id][slot] = run] ELSE task
      /\ db' = IF d \in {"put", "post", "saved"}
               THEN [db EXCEPT ![id] = [v |-> redux[id], dirty |-> TRUE, deleted |-> FALSE, by |-> slot]]
               ELSE db
  BY DEF BeginPush, localVars, pullVars, storeVars, update
<1>2. /\ d \in {"post", "put", "saved"} => InRedux(id)
      /\ id \in Spaces => d \notin {"del", "forget"}
  <2>1. d \in {"post", "put", "saved"} => InRedux(id)  BY PushOutcome
  <2>2. id \in Spaces => d \notin {"del", "forget"}
    BY SpaceIds DEF push, pushSpace, PushDeletion, Single, NotDeletedHere
  <2> QED  BY <2>1, <2>2
<1>3. d \notin {"del", "forget"} => run.op = d
  OBVIOUS
<1> HIDE DEF run, d
<1>4. ASSUME NEW s \in Spaces PROVE Stays(s)
  <2>1. CASE s # id
    <3>1. db'[s] = db[s] /\ \A x \in Slots : task'[s][x] = task[s][x]
      BY <1>1, <2>1, SpaceIds DEF Entitled, Shape, IsDb, IsTask
    <3>2. NotDeletedHere(s)' /\ (Posting(s)' => Posting(s))
      BY <3>1 DEF Single, NotDeletedHere, Posting
    <3> QED  BY <1>1, <3>1, <3>2, StaysWhen
  <2>2. CASE s = id
    <3>1. /\ d \notin {"del", "forget"}
          /\ NotDeletedHere(s)
      BY <1>2, <2>2 DEF Single
    <3>2. \A x \in Slots : task'[s][x] = task[s][x] \/ (task'[s][x] = run /\ d \in {"put", "post"})
      BY <1>1, <2>2, <3>1 DEF Entitled, Shape, IsTask
    <3>3. db'[s] = db[s] \/ (~db'[s].deleted /\ InRedux(s))
      BY <1>1, <1>2, <2>2 DEF Entitled, Shape, IsDb
    <3>4. NotDeletedHere(s)'
      BY <1>3, <3>1, <3>2, <3>3 DEF NotDeletedHere
    <3>5. Posting(s)' => Posting(s) \/ InRedux(s)
      BY <1>2, <2>2, <3>2 DEF Posting
    <3> QED  BY <1>1, <3>3, <3>4, <3>5, StaysWhen DEF InRedux
  <2> QED  BY <2>1, <2>2
<1> QED  BY <1>1, <1>4, StaysSingle

(* The run of one push goes on or ends, and the server has answered or not.     *)
LEMMA RunSingle ==
    ASSUME Entitled, Single, NEW id \in Ids, NEW slot \in Slots,
           NEW run, task' = [task EXCEPT ![id][slot] = run],
           run.op \in {task[id][slot].op, "none"},
           run.pc = "http" => task[id][slot].pc = "http" /\ run.op = task[id][slot].op,
           task[id][slot].pc # "idle" => task[id][slot].op \in {"post", "put", "del"},
           task[id][slot].pc # "idle",
           \/ server' = server
           \/ /\ task[id][slot].pc = "http" /\ HttpResult(id, task[id][slot].op) = "ok"
              /\ server' = ServerAfter(id, task[id][slot].op, task[id][slot].v),
           \A s \in Spaces : s # id \/ task[id][slot].op # "del" => redux'[s] = redux[s],
           \A s \in Spaces : db'[s] = db[s] \/ (Known(s) /\ ~db'[s].deleted),
           UNCHANGED <<listing, refresh, storeVars>>
    PROVE  Single'
<1> DEFINE t == task[id][slot]
<1>1. ASSUME NEW s \in Spaces
      PROVE  /\ redux'[s] = redux[s] /\ NotDeletedHere(s) /\ (s = id => t.op # "del")
             /\ \A x \in Slots : task'[s][x] = IF s = id /\ x = slot THEN run ELSE task[s][x]
  <2>1. NotDeletedHere(s)  BY DEF Single
  <2>2. s = id => t.op # "del"  BY <2>1 DEF NotDeletedHere
  <2> QED  BY <2>1, <2>2, SpaceIds DEF Entitled, Shape, IsTask
<1>2. ASSUME NEW s \in Spaces PROVE NotDeletedHere(s)' /\ (Posting(s)' => Posting(s))
  BY <1>1 DEF NotDeletedHere, Posting
<1>3. ASSUME NEW s \in Spaces, server'[s] = server[s] PROVE Stays(s)
  <2>1. ~Known(s) => db'[s] = db[s]  OBVIOUS
  <2> QED  BY <1>1, <1>2, <1>3, <2>1, StaysWhen DEF storeVars
<1>4. ASSUME NEW s \in Spaces, server'[s] # server[s] PROVE Stays(s)
  <2>1. /\ t.pc = "http" /\ HttpResult(id, t.op) = "ok" /\ server' = ServerAfter(id, t.op, t.v)
        /\ t.op \in {"post", "put", "del"} /\ (t.op = "post" \/ Known(id))
    BY <1>4 DEF Entitled, RunsSound, RunSound
  <2> HIDE DEF t
  <2>2. /\ \A k \in Spaces : k # id => server'[k] = server[k]
        /\ t.op = "post" => ~Known(id) /\ server'[id].st = "live"
        /\ t.op = "put" => server[id].st = "live" /\ server'[id].st = "live"
    BY <2>1, AnswerAges
  <2>3. s = id /\ server'[s].st = "live"  BY <1>1, <1>4, <2>1, <2>2
  <2>4. Candidate(s)
    <3>1. t.op = "post" => Posting(s)  BY <2>1, <2>3 DEF Posting, t
    <3>2. t.op # "del"  BY <1>1, <2>3
    <3> QED  BY <2>1, <2>2, <2>3, <3>1, <3>2 DEF Candidate
  <2>5. Seen(s) => Seen(s)'
    BY <1>1, <2>3 DEF Seen, InRedux
  <2> QED  BY <1>2, <2>4, <2>5 DEF Stays
<1> QED  BY <1>3, <1>4, StaysSingle DEF storeVars

(* The push of a deletion leaves other spaces in Redux. *)
LEMMA EndPushKeepsSpaces ==
    ASSUME NEW id \in Ids, NEW op, EndPush(id, op)
    PROVE  \A s \in Spaces : s # id \/ op # "del" => redux'[s] = redux[s]
<1> SUFFICES ASSUME NEW s \in Spaces, op = "del", s # id
             PROVE  redux'[s] = redux[s]
  BY DEF EndPush, localVars
<1>1. s \notin deleteSpaceCascadeInRedux(id)
  BY SpaceIds DEF deleteSpaceCascadeInRedux, Within
<1> QED  BY <1>1, SpaceIds DEF EndPush, DropFromRedux

(* The call of a push is answered, refused or fails. *)
LEMMA AnsweredSingle ==
    ASSUME Entitled, Tracked, Single, NEW id \in Ids, NEW slot \in Slots, UNCHANGED storeVars,
           \/ HttpOk(id, slot)
           \/ HttpRefused(id, slot)
           \/ \E executed \in BOOLEAN : HttpFault(id, slot, executed)
    PROVE  Single'
<1> DEFINE t == task[id][slot]
           done == [t EXCEPT !.pc = "clear", !.n = 0]
           again == [t EXCEPT !.n = t.n + 1]
<1>1. /\ t.pc = "http"
      /\ \/ server' = server
         \/ HttpResult(id, t.op) = "ok" /\ server' = ServerAfter(id, t.op, t.v)
      /\ \E run \in {done, again, Idle} : task' = [task EXCEPT ![id][slot] = run]
      /\ UNCHANGED <<listing, refresh, db>>
  BY DEF HttpOk, HttpRefused, HttpFault, InHttp, pullVars
<1>2. \A s \in Spaces : s # id \/ t.op # "del" => redux'[s] = redux[s]
  <2>1. CASE redux' = redux  BY <2>1
  <2>2. CASE EndPush(id, t.op)  BY <2>2, EndPushKeepsSpaces
  <2> QED  BY <2>1, <2>2 DEF HttpOk, HttpRefused, HttpFault, localVars
<1>3. t.op \in {"post", "put", "del"} /\ DOMAIN t = {"pc", "op", "v", "n"}
  BY <1>1 DEF Tracked, Contents, Content, Entitled, Shape, IsTask
<1>4. /\ done.op = t.op /\ done.pc = "clear" /\ again.op = t.op /\ again.pc = t.pc
      /\ Idle.op = "none" /\ Idle.pc = "idle"
  BY <1>3 DEF Idle
<1> HIDE DEF done, again
<1>5. PICK run \in {done, again, Idle} : task' = [task EXCEPT ![id][slot] = run]
  BY <1>1
<1>6. /\ run.op \in {t.op, "none"}
      /\ run.pc = "http" => run.op = t.op
  BY <1>4, <1>5
<1> QED  BY <1>1, <1>2, <1>3, <1>5, <1>6, RunSingle

(* A run clears the row of what the server has. *)
LEMMA ClearDirtySingle ==
    ASSUME Entitled, Tracked, Single, NEW id \in Ids, NEW slot \in Slots, UNCHANGED storeVars,
           ClearDirty(id, slot)
    PROVE  Single'
<1> DEFINE t == task[id][slot]
<1>1. /\ t.pc = "clear"
      /\ db' = [db EXCEPT ![id] = [v |-> t.v, dirty |-> FALSE, deleted |-> (t.op = "del"), by |-> "none"]]
      /\ task' = [task EXCEPT ![id][slot] = Idle]
      /\ EndPush(id, t.op)
      /\ UNCHANGED <<server, listing, refresh>>
  BY DEF ClearDirty, putSynced, pullVars
<1>2. \A s \in Spaces : s # id \/ t.op # "del" => redux'[s] = redux[s]
  BY <1>1, EndPushKeepsSpaces
<1>3. t.op \in {"post", "put", "del"} /\ (t.op = "del" \/ Known(id))
  BY <1>1 DEF Tracked, Contents, Content, Entitled, RunsSound, RunSound
<1>4. ASSUME NEW s \in Spaces PROVE db'[s] = db[s] \/ (Known(s) /\ ~db'[s].deleted)
  <2>1. s = id => t.op # "del"  BY DEF Single, NotDeletedHere
  <2> QED  BY <1>1, <1>3, <2>1, SpaceIds DEF Entitled, Shape, IsDb
<1>5. Idle.op = "none" /\ Idle.pc = "idle"  BY DEF Idle
<1> QED  BY <1>1, <1>2, <1>3, <1>4, <1>5, RunSingle

(* The watcher of the retries is about messages alone. *)
LEMMA RetryWatcherCrashSingle ==
    ASSUME Entitled, Single, NEW m \in Messages, RetryWatcherCrash(m), UNCHANGED storeVars
    PROVE  Single'
<1>1. /\ task' = [id \in Ids |-> IF id \in Messages THEN [task[id] EXCEPT !["r"] = Idle] ELSE task[id]]
      /\ UNCHANGED <<phase, blind, listing, refresh, server, db, redux>>
  BY DEF RetryWatcherCrash, localVars, pullVars, storeVars
<1>2. \A s \in Spaces : task'[s] = task[s]
  BY <1>1, SpaceIds
<1> QED  BY <1>1, <1>2, SpacesUntouched

-----------------------------------------------------------------------------
(* Every step *)
LEMMA NextSingle == Entitled /\ Tracked /\ Single /\ [Next]_vars => Single'
<1> SUFFICES ASSUME Entitled, Tracked, Single, [Next]_vars PROVE Single'
  OBVIOUS
<1>1. CASE UNCHANGED vars
  <2>1. UNCHANGED <<phase, blind, listing, refresh, server, db, task, redux>>
    BY <1>1 DEF vars, sagaVars, localVars, pushVars, pullVars, storeVars
  <2> QED  BY <2>1, SpacesUntouched
<1>2. CASE (SagaStep \/ FaultStep) /\ UNCHANGED storeVars
  <2>1. ASSUME NEW id \in Ids, NEW slot \in Slots, PushStep(id, slot) PROVE Single'
    BY <1>2, <2>1, BeginPushSingle, AnsweredSingle, ClearDirtySingle DEF PushStep
  <2>2. ASSUME NEW m \in Messages, RetryWatcherCrash(m) PROVE Single'
    BY <1>2, <2>2, RetryWatcherCrashSingle
  <2>3. ASSUME NEW r \in refresh, RefreshStep(r) PROVE Single'
    BY <1>2, <2>3, RefreshDecidesSingle, writeRefreshedSingle, SoftDeleteSingle DEF RefreshStep
  <2>4. ASSUME NEW id \in Ids, NEW slot \in Slots, NEW executed \in BOOLEAN,
               HttpFault(id, slot, executed)
        PROVE  Single'
    BY <1>2, <2>4, AnsweredSingle
  <2>5. ASSUME \/ pullSpaces \/ pullSpacesFails
               \/ \E c \in pulling : pullConversation(c) \/ pullConversationFails(c)
        PROVE  Single'
    BY <1>2, <2>5, PullSingle
  <2>6. CASE SagaStep  BY <2>1, <2>2, <2>3, <2>5, <2>6 DEF SagaStep
  <2>7. CASE FaultStep  BY <2>4, <2>5, <2>7 DEF FaultStep
  <2> QED  BY <1>2, <2>6, <2>7
<1> QED  BY <1>1, <1>2, StoreSingle, RestartSingle, OtherDeviceSingle DEF Next

(* A set of at most one element, and back *)
LEMMA AtMostOne ==
    ASSUME NEW S, IsFiniteSet(S), Cardinality(S) <= 1
    PROVE  \A x, y \in S : x = y
<1> SUFFICES ASSUME NEW x \in S, NEW y \in S PROVE x = y
  OBVIOUS
<1>1. Cardinality(S) \in Nat /\ Cardinality(S \ {x}) \in Nat
  BY FS_CardinalityType, FS_RemoveElement
<1>2. IsFiniteSet(S \ {x}) /\ Cardinality(S \ {x}) = Cardinality(S) - 1
  BY FS_RemoveElement
<1>3. Cardinality(S \ {x}) = 0  BY <1>1, <1>2
<1>4. S \ {x} = {}  BY <1>2, <1>3, FS_EmptySet
<1> QED  BY <1>4

(* The other direction needs no assumption. *)
LEMMA SizeAtMostOne ==
    ASSUME NEW S, \A x, y \in S : x = y
    PROVE  Cardinality(S) <= 1
<1>1. CASE S = {}  BY <1>1, FS_EmptySet
<1>2. CASE S # {}
  <2>1. PICK x \in S : TRUE  BY <1>2
  <2>2. S = {x}  BY <2>1
  <2> QED  BY <2>2, FS_Singleton
<1> QED  BY <1>1, <1>2

(* The account has at most one project when the program first starts. *)
LEMMA InitSingle ==
    ASSUME IsFiniteSet(Spaces), \A budget \in Budgets : budget.projects <= 1
    PROVE  Init => Single
<1> SUFFICES ASSUME Init PROVE Single
  OBVIOUS
<1>1. PICK existing \in SUBSET Spaces :
        /\ Cardinality(existing) = left.projects
        /\ server = [id \in Ids |-> IF id \in existing
                                   THEN [Unknown EXCEPT !.st = "live", !.v = Created] ELSE Unknown]
  BY DEF Init
<1>2. \A x, y \in existing : x = y
  <2>1. IsFiniteSet(existing)  BY FS_Subset
  <2>2. left.projects <= 1  BY DEF Init
  <2> QED  BY <1>1, <2>1, <2>2, AtMostOne
<1>3. ASSUME NEW s \in Spaces
      PROVE  (Candidate(s) => s \in existing) /\ (Candidate(s) => Seen(s)) /\ NotDeletedHere(s)
  <2>1. /\ redux[s] = 0 /\ db[s] = NoRow /\ listing = "asked"
        /\ \A slot \in Slots : task[s][slot] = Idle
    BY SpaceIds DEF Init
  <2>2. server[s].st = (IF s \in existing THEN "live" ELSE "none")
    BY <1>1, SpaceIds DEF Unknown
  <2>3. ~InRedux(s) /\ ~Live(db[s]) /\ ~Posting(s)
    BY <2>1 DEF InRedux, Live, Present, NoRow, Posting, Idle
  <2> QED  BY <2>1, <2>2, <2>3 DEF Candidate, Seen, NotDeletedHere, NoRow, Idle
<1> QED  BY <1>2, <1>3 DEF Single

(* An account that has at most one project keeps at most one, whatever restarts *)
(* and devices do, as long as the listing was processed within the time that    *)
(* waitForRemoteSpaces leaves it.                                               *)
THEOREM ProjectIsOne ==
    ASSUME IsFiniteSet(Spaces), \A budget \in Budgets : budget.projects <= 1
    PROVE  Spec => []OneProject
<1>1. Init => Entitled /\ Tracked /\ Single
  BY InitEntitled, InitTracked, InitSingle
<1>2. (Entitled /\ Tracked /\ Single) /\ [Next]_vars => (Entitled /\ Tracked /\ Single)'
  BY NextKeeps, NextTracked, NextSingle
<1>3. Entitled /\ Tracked /\ Single => OneProject
  <2> SUFFICES ASSUME Single, ~blind
               PROVE  Cardinality({s \in Spaces : server[s].st = "live"}) <= 1
    BY DEF OneProject
  <2>1. \A s, t \in Spaces : server[s].st = "live" /\ server[t].st = "live" => s = t
    BY DEF Single, Candidate
  <2> QED  BY <2>1, SizeAtMostOne
<1> QED  BY <1>1, <1>2, <1>3, PTL DEF Spec
=============================================================================
