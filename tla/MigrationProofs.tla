--------------------------- MODULE MigrationProofs ---------------------------
(***************************************************************************)
(* Type correctness of Migration, and its ownership properties: a shard    *)
(* has one owner, the one that the configuration says when nobody works on *)
(* it, and the fencing never refuses the controller that holds the lock.   *)
(*                                                                         *)
(* Then, as long as InstallShard takes effect once (OnceSpec), that the     *)
(* shards are one ShardStore to their clients.  StoreInv says where data   *)
(* that is moved is and that nothing late can reach it there, PastInv      *)
(* that what a client knows of a shard, or has asked for, is of the past.  *)
(***************************************************************************)
EXTENDS Migration, TLAPS

ShardState == [data : Seq(Client), owned : BOOLEAN, frozen : BOOLEAN, num : Nat]
MoveReq    == [kind : Moves, shard : Shard, num : Nat, gid : Group, data : Seq(Client)]
PutReq     == [kind : {"Put"}, gid : Group, shard : Shard, version : Nat, by : Client]
AccessReq  == [kind : {"Get", "Put"}, gid : Group, shard : Shard, version : Nat, by : Client]

-----------------------------------------------------------------------------
\* The state machine

\* What each request does to the fields of a shard (DoOp).
LEMMA MoveEffect ==
  ASSUME NEW st \in ShardState, NEW req \in MoveReq
  PROVE  /\ DoOp(st, req) \in ShardState
         /\ Fenced(st, req) => DoOp(st, req) = st
         /\ ~Fenced(st, req) => /\ DoOp(st, req).num = req.num
                                /\ (DoOp(st, req).owned <=> req.kind = "Install")
<1>1. req.kind \in Moves  BY DEF MoveReq
<1>2. CASE Fenced(st, req)  BY <1>1, <1>2 DEF DoOp
<1>3. CASE ~Fenced(st, req) /\ req.kind = "Freeze"
  <2>1. DoOp(st, req) = [st EXCEPT !.num = req.num, !.owned = FALSE, !.frozen = TRUE]
    BY <1>1, <1>3 DEF DoOp, Moved
  <2> QED  BY <2>1, <1>3 DEF ShardState, MoveReq
<1>4. CASE ~Fenced(st, req) /\ req.kind = "Install"
  <2>1. DoOp(st, req) = [data |-> req.data, owned |-> TRUE, frozen |-> FALSE, num |-> req.num]
    BY <1>1, <1>4 DEF DoOp, Moved
  <2> QED  BY <2>1, <1>4 DEF ShardState, MoveReq
<1>5. CASE ~Fenced(st, req) /\ req.kind = "Delete"
  <2>1. DoOp(st, req) = [data |-> <<>>, owned |-> FALSE, frozen |-> FALSE, num |-> req.num]
    BY <1>1, <1>5 DEF DoOp, Moved
  <2>2. <<>> \in Seq(Client)  OBVIOUS
  <2> QED  BY <2>1, <2>2, <1>5 DEF ShardState, MoveReq
<1> QED  BY <1>1, <1>2, <1>3, <1>4, <1>5 DEF Moves

\* Clients change nothing but the data.
LEMMA AccessEffect ==
  ASSUME NEW st \in ShardState, NEW req \in AccessReq
  PROVE  /\ DoOp(st, req) \in ShardState
         /\ DoOp(st, req).num = st.num
         /\ DoOp(st, req).owned = st.owned
<1>1. req.kind \notin Moves  BY DEF AccessReq, Moves
<1>2. Append(st.data, req.by) \in Seq(Client)  BY DEF ShardState, AccessReq
<1>3. \/ DoOp(st, req) = st
      \/ DoOp(st, req) = [st EXCEPT !.data = Append(st.data, req.by)]
  BY <1>1 DEF DoOp
<1> QED  BY <1>2, <1>3 DEF ShardState

\* A request is executed on its own shard only.
LEMMA ExecuteEffect ==
  ASSUME GroupTypes, NEW req, req.gid \in Group, req.shard \in Shard, Execute(req),
         DoOp(group[req.gid][req.shard], req) \in ShardState
  PROVE  /\ GroupTypes'
         /\ group'[req.gid][req.shard] = DoOp(group[req.gid][req.shard], req)
         /\ \A g \in Group, s \in Shard :
              g # req.gid \/ s # req.shard => group'[g][s] = group[g][s]
<1>1. group \in [Group -> [Shard -> ShardState]]  BY DEF GroupTypes, ShardState
<1>2. group' = [group EXCEPT ![req.gid][req.shard] = DoOp(group[req.gid][req.shard], req)]
  BY DEF Execute
<1>3. group' \in [Group -> [Shard -> ShardState]]  BY <1>1, <1>2
<1> QED  BY <1>1, <1>2, <1>3 DEF GroupTypes, ShardState

\* The requests that controllers make, and those that are late, are well-formed.
LEMMA MoveType ==
  ASSUME ControllerTypes, NEW c \in Controller, pc[c] \in Moves, Move(c).gid # NoGroup
  PROVE  Move(c) \in MoveReq
<1>1. index[c] \in Shard /\ target[c].num \in Nat
  BY DEF ControllerTypes, Moves
<1>2. target[c] \in Config /\ current[c] \in Config  BY DEF ControllerTypes
<1>3. target[c].shards[index[c]] \in Group \cup {NoGroup} /\ current[c].shards[index[c]] \in Group \cup {NoGroup}
  BY <1>1, <1>2 DEF Config, Assignment
<1>4. moved[c] \in Seq(Client) /\ <<>> \in Seq(Client)  BY DEF ControllerTypes
<1> QED  BY <1>1, <1>3, <1>4 DEF Move, MoveReq

LEMMA RequestType ==
  ASSUME ClientTypes, NEW k \in Client, call[k] # NoCall, Request(k).gid # NoGroup
  PROVE  Request(k) \in AccessReq /\ (call[k].kind = "Put" => Request(k) \in PutReq)
<1>1. call[k] \in [kind : {"Get", "Put"}, shard : Shard, version : Nat]  BY DEF ClientTypes
<1>2. routes[k][call[k].shard] \in Group \cup {NoGroup}  BY <1>1 DEF ClientTypes, Assignment
<1> QED  BY <1>1, <1>2 DEF Request, AccessReq, PutReq

-----------------------------------------------------------------------------
\* Type correctness

LEMMA InitTypes == Init => TypeOK
<1> SUFFICES ASSUME Init PROVE TypeOK  OBVIOUS
<1>1. <<>> \in Seq(Client)  OBVIOUS
<1>2. GroupTypes  BY <1>1 DEF Init, GroupTypes
<1>3. NoConfig \in Config  BY DEF NoConfig, Config, Unassigned, Assignment
<1>5. ControllerTypes  BY <1>1, <1>3 DEF Init, ControllerTypes, States, Moves
<1>6. Unassigned \in Assignment  BY DEF Unassigned, Assignment
<1>7. ClientTypes  BY <1>6 DEF Init, ClientTypes, NoAnswer
<1>8. LateTypes  BY DEF Init, LateTypes
<1> QED  BY <1>2, <1>5, <1>7, <1>8 DEF TypeOK

LEMMA EmptyReply == NoReply.data \in Seq(Client)
BY DEF NoReply

\* The next call, wherever it comes from (Advance, Enter).
LEMMA AdvanceTypes ==
  ASSUME ControllerTypes, NEW c \in Controller, NEW cur, NEW i, Advance(c, cur, i),
         target[c].num \in Nat, current' \in [Controller -> Config],
         UNCHANGED <<conf, holder, target, crashed>>
  PROVE  ControllerTypes'
<1>1. <<>> \in Seq(Client)  OBVIOUS
<1>2. moved' \in [Controller -> Seq(Client)] /\ moved'[c] = <<>> /\ \A d \in Controller \ {c} : moved'[d] = moved[d]
  BY <1>1 DEF ControllerTypes, Advance
<1>3. /\ reply' \in [Controller -> [err : {"OK", "ErrVersion", "ErrMaybe"}, data : Seq(Client)] \cup {NoReply}]
      /\ reply'[c] = NoReply /\ \A d \in Controller \ {c} : reply'[d] = reply[d]
  BY DEF ControllerTypes, Advance
<1>4. /\ pc' \in [Controller -> States] /\ index' \in [Controller -> Nat]
      /\ \A d \in Controller \ {c} : pc'[d] = pc[d] /\ index'[d] = index[d]
      /\ pc'[c] \in Moves => index'[c] \in Shard
  <2>1. CASE pc' = [pc EXCEPT ![c] = "Publish"] /\ index' = [index EXCEPT ![c] = 0]
    BY <2>1 DEF ControllerTypes, States, Moves
  <2>2. CASE \E s \in Remaining(cur, target[c], i) :
               /\ index' = [index EXCEPT ![c] = s]
               /\ pc' = [pc EXCEPT ![c] = IF cur.shards[s] = NoGroup THEN "Install" ELSE "Freeze"]
    <3>1. PICK s \in Shard :
               /\ index' = [index EXCEPT ![c] = s]
               /\ pc' = [pc EXCEPT ![c] = IF cur.shards[s] = NoGroup THEN "Install" ELSE "Freeze"]
      BY <2>2 DEF Remaining
    <3>2. s \in Nat  BY ShardAssumption DEF Shard
    <3> QED  BY <3>1, <3>2 DEF ControllerTypes, States, Moves
  <2> QED  BY <2>1, <2>2 DEF Advance
<1>5. UNCHANGED <<conf, holder, target, crashed>>  OBVIOUS
<1> QED  BY <1>2, <1>3, <1>4, <1>5 DEF ControllerTypes

LEMMA EnterTypes ==
  ASSUME ControllerTypes, NEW c \in Controller, NEW state \in States \ {"Idle"}, NEW data \in Seq(Client),
         Enter(c, state, data), target[c].num \in Nat,
         state # "Install" => data = <<>>, state \in Moves => index[c] \in Shard,
         UNCHANGED <<conf, holder, target, current, crashed>>
  PROVE  ControllerTypes'
<1>1. moved' \in [Controller -> Seq(Client)] /\ moved'[c] = data /\ \A d \in Controller \ {c} : moved'[d] = moved[d]
  BY DEF ControllerTypes, Enter
<1>2. /\ reply' \in [Controller -> [err : {"OK", "ErrVersion", "ErrMaybe"}, data : Seq(Client)] \cup {NoReply}]
      /\ reply'[c] = NoReply /\ \A d \in Controller \ {c} : reply'[d] = reply[d]
  BY DEF ControllerTypes, Enter
<1>3. pc' \in [Controller -> States] /\ pc'[c] = state /\ \A d \in Controller \ {c} : pc'[d] = pc[d]
  BY DEF ControllerTypes, Enter
<1>4. UNCHANGED <<conf, holder, target, current, crashed, index>>  BY DEF Enter
<1> QED  BY <1>1, <1>2, <1>3, <1>4 DEF ControllerTypes

LEMMA ControllerStepTypes ==
  ASSUME TypeOK, NEW c \in Controller, Read(c) \/ Proceed(c) \/ Release(c) \/ Begin(c) \/ Acquire(c) \/ Crash(c)
  PROVE  TypeOK'
<1> USE DEF TypeOK
<1>1. /\ GroupTypes' /\ ClientTypes' /\ LateTypes'
  BY DEF Read, Proceed, Release, Begin, Acquire, Crash, GroupTypes, ClientTypes, LateTypes, clientVars
<1>2. <<>> \in Seq(Client)  OBVIOUS
<1>3. current \in [Controller -> Config] /\ conf \in Config /\ index[c] \in Nat
  BY DEF ControllerTypes
<1>4. pc[c] # "Idle" => target[c].num \in Nat  BY DEF ControllerTypes
<1>5. CASE Read(c)
  <2>1. pc[c] = "Read" /\ UNCHANGED <<conf, holder, target, crashed>>  BY <1>5 DEF Read
  <2>2. CASE Enter(c, "Release", <<>>) /\ UNCHANGED current
    BY <2>1, <2>2, <1>1, <1>2, <1>4, EnterTypes DEF States, Moves
  <2>3. CASE current' = [current EXCEPT ![c] = conf] /\ Advance(c, conf, 0)
    <3>1. current' \in [Controller -> Config]  BY <2>3, <1>3
    <3> QED  BY <3>1, <2>1, <2>3, <1>1, <1>4, AdvanceTypes
  <2> QED  BY <2>2, <2>3, <1>5 DEF Read
<1>6. CASE Proceed(c)
  <2>1. pc[c] # "Idle"  BY <1>6 DEF Proceed, ControllerTypes, Moves
  <2>2. UNCHANGED <<conf, holder, target, crashed, current>>  BY <1>6 DEF Proceed
  <2>3. target[c].num \in Nat  BY <2>1, <1>4
  <2>4. CASE Enter(c, "Release", <<>>)
    BY <2>2, <2>3, <2>4, <1>1, <1>2, EnterTypes DEF States, Moves
  <2>5. CASE pc[c] = "Freeze" /\ Enter(c, "Install", reply[c].data)
    <3>1. reply[c].data \in Seq(Client) /\ index[c] \in Shard  BY <2>5, EmptyReply DEF ControllerTypes, Moves
    <3> QED  BY <3>1, <2>2, <2>3, <2>5, <1>1, EnterTypes DEF States, Moves
  <2>6. CASE pc[c] = "Install" /\ Enter(c, "Delete", <<>>)
    <3>1. index[c] \in Shard  BY <2>6 DEF ControllerTypes, Moves
    <3> QED  BY <3>1, <2>2, <2>3, <2>6, <1>1, <1>2, EnterTypes DEF States, Moves
  <2>7. CASE Advance(c, current[c], index[c] + 1)
    <3>1. current' \in [Controller -> Config]  BY <2>2, <1>3
    <3> QED  BY <3>1, <2>2, <2>3, <2>7, <1>1, AdvanceTypes
  <2> QED  BY <2>4, <2>5, <2>6, <2>7, <1>6 DEF Proceed
<1>7. CASE Release(c)
  <2>1. NoConfig \in Config  BY DEF NoConfig, Config, Unassigned, Assignment
  <2>2. ControllerTypes'  BY <2>1, <1>7 DEF Release, ControllerTypes, States, Moves
  <2> QED  BY <2>2, <1>1
<1>8. CASE Begin(c)
  <2>1. PICK a \in Targets : target' = [target EXCEPT ![c] = [num |-> conf.num + 1, shards |-> a]]
    BY <1>8 DEF Begin
  <2>2. a \in Assignment  BY DEF Targets, Assignment, Unassigned
  <2>3. conf.num + 1 \in Nat  BY <1>3 DEF Config
  <2>4. [num |-> conf.num + 1, shards |-> a] \in Config  BY <2>2, <2>3 DEF Config
  <2>5. target' \in [Controller -> Config] /\ target'[c].num \in Nat
        /\ \A d \in Controller \ {c} : target'[d] = target[d]
    BY <2>1, <2>3, <2>4 DEF ControllerTypes
  <2>6. pc' = [pc EXCEPT ![c] = "Acquire"] /\ pc[c] = "Idle"
        /\ UNCHANGED <<conf, holder, current, index, moved, reply, crashed>>
    BY <1>8 DEF Begin
  <2>7. ControllerTypes'  BY <2>5, <2>6 DEF ControllerTypes, States, Moves
  <2> QED  BY <2>7, <1>1
<1>9. CASE Acquire(c)
  <2>1. ControllerTypes'  BY <1>9 DEF Acquire, ControllerTypes, States, Moves
  <2> QED  BY <2>1, <1>1
<1>10. CASE Crash(c)
  <2>1. ControllerTypes'  BY <1>10 DEF Crash, ControllerTypes
  <2> QED  BY <2>1, <1>1
<1> QED  BY <1>5, <1>6, <1>7, <1>8, <1>9, <1>10

LEMMA ServeTypes ==
  ASSUME TypeOK, NEW c \in Controller, ServeMove(c) \/ ServePublish(c)
  PROVE  TypeOK'
<1> USE DEF TypeOK
<1>1. CASE ServeMove(c)
  <2>1. Move(c) \in MoveReq /\ Execute(Move(c)) /\ pc[c] \in Moves
    BY <1>1, MoveType DEF ServeMove
  <2>2. Move(c).gid \in Group /\ Move(c).shard \in Shard /\ index[c] = Move(c).shard
    BY <2>1 DEF MoveReq, Move
  <2>3. group[Move(c).gid][Move(c).shard] \in ShardState  BY <2>2 DEF GroupTypes, ShardState
  <2>4. GroupTypes'  BY <2>1, <2>2, <2>3, ExecuteEffect, MoveEffect
  <2>5. UNCHANGED <<conf, holder, pc, target, current, index, moved, crashed>>
    BY <1>1 DEF ServeMove
  <2>6. \E r \in [err : {"OK", "ErrVersion", "ErrMaybe"}, data : Seq(Client)] :
          reply' = [reply EXCEPT ![c] = r]
    <3> DEFINE st == group[Move(c).gid][index[c]]
    <3> DEFINE r == [err  |-> IF Fenced(st, Move(c)) THEN "ErrVersion" ELSE "OK",
                     data |-> IF pc[c] = "Freeze" /\ ~Fenced(st, Move(c)) THEN st.data ELSE <<>>]
    <3>1. reply' = [reply EXCEPT ![c] = r]  BY <1>1 DEF ServeMove
    <3>2. st.data \in Seq(Client) /\ <<>> \in Seq(Client)  BY <2>2, <2>3 DEF ShardState
    <3>3. r \in [err : {"OK", "ErrVersion", "ErrMaybe"}, data : Seq(Client)]
      BY <3>2
    <3> QED  BY <3>1, <3>3
  <2>7. ControllerTypes'
    <3>1. PICK r \in [err : {"OK", "ErrVersion", "ErrMaybe"}, data : Seq(Client)] :
             reply' = [reply EXCEPT ![c] = r]
      BY <2>6
    <3> QED  BY <2>1, <2>5, <3>1 DEF ControllerTypes
  <2>8. ClientTypes' /\ LateTypes'
    BY <1>1 DEF ServeMove, clientVars, ClientTypes, LateTypes
  <2> QED  BY <2>4, <2>7, <2>8
<1>2. CASE ServePublish(c)
  <2>1. GroupTypes' /\ ClientTypes' /\ LateTypes'
    BY <1>2 DEF ServePublish, GroupTypes, clientVars, ClientTypes, LateTypes
  <2>2. pc[c] = "Publish" /\ conf' \in {conf, target[c]} /\ \E e \in {"OK", "ErrMaybe"} : reply' = [reply EXCEPT ![c].err = e]
    BY <1>2 DEF ServePublish
  <2>3. UNCHANGED <<holder, pc, target, current, index, moved, crashed>>  BY <1>2 DEF ServePublish
  <2>4. PICK e \in {"OK", "ErrMaybe"} : reply' = [reply EXCEPT ![c].err = e]  BY <2>2
  <2>5. conf' \in Config  BY <2>2 DEF ControllerTypes
  <2>6. /\ reply' \in [Controller -> [err : {"OK", "ErrVersion", "ErrMaybe"}, data : Seq(Client)] \cup {NoReply}]
        /\ \A d \in Controller \ {c} : reply'[d] = reply[d]
    <3>1. reply[c] = NoReply  BY <1>2 DEF ServePublish
    <3> DEFINE r == [reply[c] EXCEPT !.err = e]
    <3>2. r \in [err : {"OK", "ErrVersion", "ErrMaybe"}, data : Seq(Client)]
      BY <3>1, EmptyReply DEF NoReply
    <3>3. reply' = [reply EXCEPT ![c] = r]  BY <2>4
    <3> QED  BY <3>2, <3>3 DEF ControllerTypes
  <2>7. ControllerTypes'  BY <2>2, <2>3, <2>5, <2>6 DEF ControllerTypes
  <2> QED  BY <2>1, <2>7
<1> QED  BY <1>1, <1>2

LEMMA ResendTypes ==
  ASSUME TypeOK, NEW c \in Controller, Resend(c)
  PROVE  TypeOK'
<1> USE DEF TypeOK
<1>1. GroupTypes' /\ ClientTypes'  BY DEF Resend, GroupTypes, clientVars, ClientTypes
<1>2. ControllerTypes'  BY EmptyReply DEF Resend, ControllerTypes
<1>3. CASE UNCHANGED late  BY <1>3, <1>1, <1>2 DEF LateTypes
<1>4. CASE pc[c] \in Moves /\ Move(c).gid # NoGroup /\ late' = late \cup {Move(c)}
  <2>1. Move(c) \in MoveReq  BY <1>4, MoveType
  <2>2. LateTypes'  BY <2>1, <1>4 DEF LateTypes, MoveReq
  <2> QED  BY <1>1, <1>2, <2>2
<1>5. UNCHANGED late \/ (pc[c] \in Moves /\ Move(c).gid # NoGroup /\ late' = late \cup {Move(c)})
  BY DEF Resend, LeaveBehind
<1> QED  BY <1>3, <1>4, <1>5

LEMMA ClientStepTypes ==
  ASSUME TypeOK, NEW k \in Client, Invoke(k) \/ ServeCall(k) \/ Recall(k) \/ ClientStep(k)
  PROVE  TypeOK'
<1> USE DEF TypeOK
<1>1. ControllerTypes'
  BY DEF Invoke, ServeCall, Recall, ClientStep, Reroute, Return, controllerVars, ControllerTypes
<1>2. CASE Invoke(k)
  <2>1. GroupTypes' /\ LateTypes' /\ UNCHANGED <<routes, answer>>  BY <1>2 DEF Invoke, GroupTypes, LateTypes
  <2>2. PICK s \in Shard : call' = [call EXCEPT ![k] = [kind |-> "Get", shard |-> s, version |-> 0]]
    BY <1>2 DEF Invoke
  <2>3. ClientTypes'  BY <2>1, <2>2 DEF ClientTypes
  <2> QED  BY <1>1, <2>1, <2>3
<1>3. CASE ServeCall(k)
  <2>1. Request(k) \in AccessReq /\ Execute(Request(k))  BY <1>3, RequestType DEF ServeCall
  <2>2. Request(k).gid \in Group /\ Request(k).shard \in Shard /\ call[k].shard = Request(k).shard
    BY <2>1 DEF AccessReq, Request
  <2>3. group[Request(k).gid][Request(k).shard] \in ShardState  BY <2>2 DEF GroupTypes, ShardState
  <2>4. GroupTypes'  BY <2>1, <2>2, <2>3, ExecuteEffect, AccessEffect
  <2> DEFINE st == group[Request(k).gid][call[k].shard]
  <2> DEFINE err == AccessErr(st, Request(k))
  <2> DEFINE ver == IF call[k].kind = "Get" /\ err = "OK" THEN Len(st.data) ELSE 0
  <2>5. err \in {"OK", "ErrWrongGroup", "ErrFrozen", "ErrNoKey", "ErrVersion"}
    BY DEF AccessErr
  <2>6. ver \in Nat  BY <2>2, <2>3 DEF ShardState
  <2>7. answer' = [answer EXCEPT ![k] = [err |-> err, version |-> ver]]  BY <1>3 DEF ServeCall
  <2> HIDE DEF err, ver
  <2>8. ClientTypes'  BY <2>5, <2>6, <2>7, <1>3 DEF ServeCall, ClientTypes
  <2>9. LateTypes'  BY <1>3 DEF ServeCall, LateTypes
  <2> QED  BY <1>1, <2>4, <2>8, <2>9
<1>4. CASE Recall(k)
  <2>1. GroupTypes'  BY <1>4 DEF Recall, GroupTypes
  <2>2. ClientTypes'  BY <1>4 DEF Recall, ClientTypes, NoAnswer
  <2>3. UNCHANGED late \/ (call[k].kind = "Put" /\ late' = late \cup {Request(k)})
    BY <1>4 DEF Recall, LeaveBehind
  <2>4. call[k].kind = "Put" => Request(k) \in PutReq  BY <1>4, RequestType DEF Recall
  <2>5. LateTypes'  BY <2>3, <2>4 DEF LateTypes, PutReq
  <2> QED  BY <1>1, <2>1, <2>2, <2>5
<1>5. CASE Reroute(k)
  <2>1. GroupTypes' /\ LateTypes'  BY <1>5 DEF Reroute, GroupTypes, LateTypes
  <2>2. conf.shards \in Assignment  BY DEF ControllerTypes, Config
  <2>3. ClientTypes'  BY <1>5, <2>2 DEF Reroute, Lookup, ClientTypes, NoAnswer
  <2> QED  BY <1>1, <2>1, <2>3
<1>6. CASE Return(k)
  <2>1. GroupTypes' /\ LateTypes' /\ UNCHANGED routes /\ answer' = [answer EXCEPT ![k] = NoAnswer]
    BY <1>6 DEF Return, GroupTypes, LateTypes
  <2>2. answer[k].version \in Nat  BY DEF ClientTypes
  <2>3. call' = [call EXCEPT ![k] = NoCall]
        \/ (call[k].kind = "Get" /\ call' = [call EXCEPT ![k].kind = "Put", ![k].version = answer[k].version])
    BY <1>6 DEF Return
  <2>4. call' \in [Client -> [kind : {"Get", "Put"}, shard : Shard, version : Nat] \cup {NoCall}]
    <3>1. CASE call' = [call EXCEPT ![k] = NoCall]  BY <3>1 DEF ClientTypes
    <3>2. CASE call[k].kind = "Get" /\ call' = [call EXCEPT ![k].kind = "Put", ![k].version = answer[k].version]
      <4>1. call[k] \in [kind : {"Get", "Put"}, shard : Shard, version : Nat]  BY <3>2 DEF ClientTypes, NoCall
      <4> QED  BY <4>1, <3>2, <2>2 DEF ClientTypes
    <3> QED  BY <3>1, <3>2, <2>3
  <2>5. ClientTypes'  BY <2>1, <2>4 DEF ClientTypes, NoAnswer
  <2> QED  BY <1>1, <2>1, <2>5
<1> QED  BY <1>2, <1>3, <1>4, <1>5, <1>6 DEF ClientStep

\* A late request is one of a controller or a put.
LEMMA LateEffect ==
  ASSUME TypeOK, NEW req \in late
  PROVE  /\ req.gid \in Group /\ req.shard \in Shard
         /\ group[req.gid][req.shard] \in ShardState
         /\ DoOp(group[req.gid][req.shard], req) \in ShardState
         /\ req \in MoveReq \/ (req \in AccessReq /\ req.kind \notin Moves)
<1>1. req \in MoveReq \/ req \in PutReq  BY DEF TypeOK, LateTypes, MoveReq, PutReq
<1>2. req \in PutReq => req \in AccessReq /\ req.kind \notin Moves  BY DEF PutReq, AccessReq, Moves
<1>3. req.gid \in Group /\ req.shard \in Shard  BY <1>1 DEF MoveReq, PutReq
<1>4. group[req.gid][req.shard] \in ShardState  BY <1>3 DEF TypeOK, GroupTypes, ShardState
<1> QED  BY <1>1, <1>2, <1>3, <1>4, MoveEffect, AccessEffect

LEMMA ServeLateTypes ==
  ASSUME TypeOK, NEW req \in late, ServeLate(req)
  PROVE  TypeOK'
<1>1. GroupTypes'  BY LateEffect, ExecuteEffect DEF ServeLate, TypeOK
<1>2. ControllerTypes' /\ ClientTypes'
  BY DEF ServeLate, controllerVars, clientVars, ControllerTypes, ClientTypes, TypeOK
<1>3. LateTypes'  BY DEF ServeLate, LateTypes, TypeOK
<1> QED  BY <1>1, <1>2, <1>3 DEF TypeOK

\* Every step keeps the types.
LEMMA NextTypes == TypeOK /\ [Next]_vars => TypeOK'
<1> SUFFICES ASSUME TypeOK, [Next]_vars PROVE TypeOK'  OBVIOUS
<1>1. CASE UNCHANGED vars
  BY <1>1 DEF vars, controllerVars, clientVars, TypeOK, GroupTypes, ControllerTypes, ClientTypes, LateTypes
<1>2. CASE Next
  BY <1>2, ControllerStepTypes, ServeTypes, ResendTypes, ClientStepTypes, ServeLateTypes DEF Next, ControllerStep
<1> QED  BY <1>1, <1>2

\* Every variable keeps its type, and a controller has an answer only while it is in
\* a call.
THEOREM TypeCorrect == Spec => []TypeOK
<1>1. Init => TypeOK  BY InitTypes
<1> QED  BY <1>1, NextTypes, PTL DEF Spec

-----------------------------------------------------------------------------
\* Ownership

Sound(req) == Timely(req) /\ Genuine(req) /\ Harmless(req)

\* The present call of the controller that moves something is such a request.
LEMMA OwnMoveSound ==
  ASSUME TypeOK, MoveInv, NEW c \in Controller, pc[c] \in Moves, Move(c).gid # NoGroup
  PROVE  /\ Move(c) \in MoveReq /\ Sound(Move(c))
         /\ holder = c /\ Moving /\ Top = target[c].num
         /\ \A st \in ShardState : (st.num <= Top \/ st.num = 0) => ~Fenced(st, Move(c))
<1>1. Move(c) \in MoveReq  BY MoveType DEF TypeOK
<1>2. holder = c /\ Busy(c) /\ Moving /\ Top = target[c].num
  BY DEF MoveInv, HolderInv, Busy, Moves, Moving, Top
<1>3. /\ Move(c).kind = pc[c] /\ Move(c).shard = index[c] /\ Move(c).num = target[c].num
      /\ Move(c).gid = IF pc[c] = "Install" THEN target[c].shards[index[c]] ELSE current[c].shards[index[c]]
  BY DEF Move
<1>4. index[c] \in Shard /\ target[c].num \in Nat /\ index[c] \in Nat
  BY DEF TypeOK, ControllerTypes, Moves
<1>5. current[c].shards[index[c]] # target[c].shards[index[c]]
  BY DEF MoveInv, HolderInv
<1>6. Timely(Move(c))  BY <1>2, <1>3, <1>4 DEF Timely
<1>7. Genuine(Move(c))  BY <1>2, <1>3, <1>5 DEF Genuine
<1>8. Harmless(Move(c))
  BY <1>2, <1>3, <1>4, <1>5 DEF Harmless, Assigned, InTransit, Moves
<1>9. \A st \in ShardState : (st.num <= Top \/ st.num = 0) => ~Fenced(st, Move(c))
  BY <1>2, <1>3, <1>4 DEF Fenced, ShardState
<1> QED  BY <1>1, <1>2, <1>6, <1>7, <1>8, <1>9 DEF Sound

\* Nobody's place changes.
Same ==
  /\ Top' = Top /\ (Moving' <=> Moving)
  /\ \A s \in Shard : Assigned(s)' = Assigned(s) /\ (InTransit(s)' <=> InTransit(s))
  /\ Moving => current'[holder'] = current[holder] /\ target'[holder'] = target[holder]

LEMMA SameHolder ==
  ASSUME holder' = holder,
         Moving => /\ pc'[holder] = pc[holder] /\ index'[holder] = index[holder]
                   /\ target'[holder] = target[holder] /\ current'[holder] = current[holder],
         Moving' => Moving, Moving \/ conf' = conf
  PROVE  Same
<1>1. Moving' <=> Moving  BY DEF Moving, Busy
<1>2. CASE Moving
  <2>1. /\ pc'[holder] = pc[holder] /\ index'[holder] = index[holder]
        /\ target'[holder] = target[holder] /\ current'[holder] = current[holder]
    BY <1>2
  <2>2. Top' = Top  BY <1>1, <1>2, <2>1 DEF Top
  <2>3. \A s \in Shard : Assigned(s)' = Assigned(s)  BY <1>1, <1>2, <2>1 DEF Assigned
  <2>4. \A s \in Shard : InTransit(s)' <=> InTransit(s)  BY <1>1, <1>2, <2>1 DEF InTransit
  <2> QED  BY <1>1, <2>1, <2>2, <2>3, <2>4 DEF Same
<1>3. CASE ~Moving
  <2>1. Top' = Top  BY <1>1, <1>3 DEF Top
  <2>2. \A s \in Shard : Assigned(s)' = Assigned(s)  BY <1>1, <1>3 DEF Assigned
  <2>3. \A s \in Shard : InTransit(s)' <=> InTransit(s)  BY <1>1, <1>3 DEF InTransit
  <2> QED  BY <1>1, <1>3, <2>1, <2>2, <2>3 DEF Same
<1> QED  BY <1>2, <1>3

\* Where nobody's place changes and numbers only grow, requests stay harmless.
LEMMA SoundStays ==
  ASSUME TypeOK, TypeOK', Same, NEW req \in MoveReq, Sound(req),
         \A g \in Group, s \in Shard : group[g][s].num <= group'[g][s].num
  PROVE  Sound(req)'
<1>1. req.gid \in Group /\ req.shard \in Shard /\ req.num \in Nat  BY DEF MoveReq
<1>2. group[req.gid][req.shard] \in ShardState /\ group'[req.gid][req.shard] \in ShardState
  BY <1>1 DEF TypeOK, GroupTypes, ShardState
<1>3. Timely(req)'  BY DEF Sound, Timely, Same
<1>4. Genuine(req)'  BY DEF Sound, Genuine, Same
<1>5. Harmless(req)'
  <2>1. group[req.gid][req.shard].num \in Nat /\ group'[req.gid][req.shard].num \in Nat
    BY <1>2 DEF ShardState
  <2> QED  BY <1>1, <2>1 DEF Sound, Harmless, Same
<1> QED  BY <1>3, <1>4, <1>5 DEF Sound

\* A sound request leaves ownership in order, and undoes no move.
LEMMA SoundStep ==
  ASSUME TypeOK, TypeOK', MoveInv, Same, NEW req \in MoveReq, Sound(req), Execute(req),
         UNCHANGED <<pc, target, current, index>>
  PROVE  /\ OwnerInv'
         /\ \A g \in Group, s \in Shard : group[g][s].num <= group'[g][s].num
         /\ \A c \in Controller : Done(c) => Done(c)'
<1> DEFINE st == group[req.gid][req.shard]
<1>1. req.gid \in Group /\ req.shard \in Shard /\ req.num \in Nat /\ req.kind \in Moves  BY DEF MoveReq
<1>2. \A g \in Group, s \in Shard :
        /\ group[g][s].num \in Nat /\ group'[g][s].num \in Nat
        /\ group[g][s] \in ShardState
  BY DEF TypeOK, GroupTypes, ShardState
<1>3. DoOp(st, req) \in ShardState  BY <1>1, <1>2, MoveEffect
<1>4. /\ group'[req.gid][req.shard] = DoOp(st, req)
      /\ \A g \in Group, s \in Shard : g # req.gid \/ s # req.shard => group'[g][s] = group[g][s]
  BY <1>1, <1>3, ExecuteEffect DEF TypeOK
<1>5. CASE Fenced(st, req)
  <2>1. DoOp(st, req) = st  BY <1>1, <1>2, <1>5, MoveEffect
  <2>2. \A g \in Group, s \in Shard : group'[g][s] = group[g][s]  BY <1>4, <2>1
  <2>3. OwnerInv'  BY <2>2 DEF MoveInv, OwnerInv, Same
  <2>4. \A c \in Controller : Done(c) => Done(c)'
    <3> SUFFICES ASSUME NEW c \in Controller, Done(c) PROVE Done(c)'  OBVIOUS
    <3>1. pc[c] \in Moves => index[c] \in Shard  BY DEF TypeOK, ControllerTypes
    <3> QED  BY <2>2, <3>1 DEF Done, Moves
  <2> QED  BY <2>2, <2>3, <2>4, <1>2
<1>6. CASE ~Fenced(st, req)
  <2>1. /\ group'[req.gid][req.shard].num = req.num
        /\ (group'[req.gid][req.shard].owned <=> req.kind = "Install")
    BY <1>1, <1>2, <1>4, <1>6, MoveEffect
  <2>2. st.num <= req.num  BY <1>1, <1>2, <1>6 DEF Fenced
  <2>3. req.num <= Top  BY DEF Sound, Timely
  <2>4. IF req.kind = "Install" THEN req.gid = Assigned(req.shard)
        ELSE req.gid # Assigned(req.shard) \/ InTransit(req.shard)
    BY <1>1, <1>2, <2>2 DEF Sound, Harmless
  <2>5. OwnerInv'
    <3> SUFFICES ASSUME NEW g \in Group, NEW s \in Shard
                 PROVE  /\ group'[g][s].num <= Top \/ group'[g][s].num = 0
                        /\ group'[g][s].owned => g = Assigned(s)
                        /\ g = Assigned(s) /\ ~InTransit(s) => group'[g][s].owned
      BY DEF OwnerInv, Same
    <3>1. CASE g = req.gid /\ s = req.shard  BY <3>1, <2>1, <2>3, <2>4
    <3>2. CASE g # req.gid \/ s # req.shard  BY <3>2, <1>4 DEF MoveInv, OwnerInv
    <3> QED  BY <3>1, <3>2
  <2>6. \A g \in Group, s \in Shard : group[g][s].num <= group'[g][s].num
    BY <1>2, <1>4, <2>1, <2>2
  <2>7. \A c \in Controller : Done(c) => Done(c)'
    <3> SUFFICES ASSUME NEW c \in Controller, Done(c), NEW g \in Group, pc[c] \in Moves
                 PROVE  /\ pc[c] = "Freeze" /\ g = current[c].shards[index[c]] =>
                             ~group'[g][index[c]].owned /\ group'[g][index[c]].num = target[c].num
                        /\ pc[c] = "Install" /\ g = target[c].shards[index[c]] =>
                             group'[g][index[c]].owned /\ group'[g][index[c]].num = target[c].num
      BY DEF Done, Moves
    <3>1. index[c] \in Shard  BY DEF TypeOK, ControllerTypes
    <3>2. holder = c /\ Moving /\ Top = target[c].num
      BY DEF MoveInv, HolderInv, Moving, Busy, Top, Moves
    <3>3. CASE g # req.gid \/ index[c] # req.shard
      BY <3>1, <3>3, <1>4 DEF Done
    <3>4. CASE g = req.gid /\ index[c] = req.shard
      <4>1. pc[c] \in {"Freeze", "Install"} /\ g = (IF pc[c] = "Freeze" THEN current[c] ELSE target[c]).shards[index[c]]
              => st.num = target[c].num
        BY <3>4 DEF Done
      <4>2. st.num = target[c].num => req.num = Top  BY <1>1, <1>2, <2>2, <2>3, <3>2
      <4>3. req.num = Top =>
              /\ current[c].shards[req.shard] # target[c].shards[req.shard]
              /\ req.gid = IF req.kind = "Install" THEN target[c].shards[req.shard]
                           ELSE current[c].shards[req.shard]
        BY <3>2 DEF Sound, Genuine
      <4> QED  BY <3>2, <3>4, <4>1, <4>2, <4>3, <2>1
    <3> QED  BY <3>3, <3>4
  <2> QED  BY <2>5, <2>6, <2>7
<1> QED  BY <1>5, <1>6

\* Neither does a client's request.
LEMMA AccessStep ==
  ASSUME TypeOK, TypeOK', MoveInv, Same, NEW req \in AccessReq, Execute(req), req.kind \notin Moves,
         UNCHANGED <<pc, target, current, index>>
  PROVE  /\ OwnerInv'
         /\ \A g \in Group, s \in Shard : group[g][s].num <= group'[g][s].num
         /\ \A c \in Controller : Done(c) => Done(c)'
<1>1. req.gid \in Group /\ req.shard \in Shard  BY DEF AccessReq
<1>2. \A g \in Group, s \in Shard : group[g][s] \in ShardState /\ group[g][s].num \in Nat
  BY DEF TypeOK, GroupTypes, ShardState
<1>3. DoOp(group[req.gid][req.shard], req) \in ShardState  BY <1>1, <1>2, AccessEffect
<1>4. \A g \in Group, s \in Shard :
        group'[g][s].num = group[g][s].num /\ group'[g][s].owned = group[g][s].owned
  BY <1>1, <1>2, <1>3, ExecuteEffect, AccessEffect DEF TypeOK
<1>5. OwnerInv'  BY <1>4 DEF MoveInv, OwnerInv, Same
<1>6. \A c \in Controller : Done(c) => Done(c)'
  <2> SUFFICES ASSUME NEW c \in Controller, Done(c) PROVE Done(c)'  OBVIOUS
  <2>1. pc[c] \in Moves => index[c] \in Shard  BY DEF TypeOK, ControllerTypes
  <2> QED  BY <1>4, <2>1 DEF Done, Moves
<1> QED  BY <1>2, <1>4, <1>5, <1>6

\* Requests that stay late stay harmless.
LEMMA LateStays ==
  ASSUME TypeOK, TypeOK', MoveInv, Same, NEW extra,
         late' \subseteq late \cup extra, \A req \in extra : req.kind \in Moves => req \in MoveReq /\ Sound(req),
         \A g \in Group, s \in Shard : group[g][s].num <= group'[g][s].num
  PROVE  LateInv'
<1> SUFFICES ASSUME NEW req \in late', req.kind \in Moves
             PROVE  Timely(req)' /\ Genuine(req)' /\ Harmless(req)'
  BY DEF LateInv
<1>1. CASE req \in late
  <2>1. req \in MoveReq  BY <1>1 DEF TypeOK, LateTypes, MoveReq, Moves
  <2>2. Sound(req)  BY <1>1 DEF MoveInv, LateInv, Sound
  <2> QED  BY <2>1, <2>2, SoundStays DEF Sound
<1>2. CASE req \in extra  BY <1>2, SoundStays DEF Sound
<1> QED  BY <1>1, <1>2

\* Steps that execute nothing and put nobody in another place.
LEMMA QuietStep ==
  ASSUME TypeOK, TypeOK', MoveInv, Same, UNCHANGED group, NEW extra,
         late' \subseteq late \cup extra, \A req \in extra : req.kind \in Moves => req \in MoveReq /\ Sound(req)
  PROVE  OwnerInv' /\ LateInv'
<1>1. OwnerInv'  BY DEF MoveInv, OwnerInv, Same
<1>2. \A g \in Group, s \in Shard : group[g][s].num <= group'[g][s].num
  BY DEF TypeOK, GroupTypes
<1>3. LateInv'  BY <1>2, LateStays
<1> QED  BY <1>1, <1>3

-----------------------------------------------------------------------------
\* One lemma per kind of step

LEMMA BeginOwns ==
  ASSUME TypeOK, TypeOK', MoveInv, NEW c \in Controller, Begin(c) \/ Acquire(c) \/ Crash(c)
  PROVE  MoveInv'
<1>1. pc[c] \notin Moves \cup {"Publish", "Release"} \/ UNCHANGED <<pc, holder, target>>
  BY DEF Begin, Acquire, Crash, Moves
<1>2. UNCHANGED <<group, conf, current, index, reply, late>>  BY DEF Begin, Acquire, Crash
<1>3. HolderInv'
  <2>1. CASE Begin(c)
    <3>1. PICK a : target' = [target EXCEPT ![c] = a]  BY <2>1 DEF Begin
    <3>2. pc' = [pc EXCEPT ![c] = "Acquire"] /\ holder' = holder  BY <2>1 DEF Begin
    <3> QED  BY <3>1, <3>2, <1>2 DEF TypeOK, ControllerTypes, MoveInv, HolderInv, Busy, Moves
  <2>2. CASE Acquire(c)
    <3>1. pc' = [pc EXCEPT ![c] = "Read"] /\ holder = Nobody /\ holder' = c /\ target' = target
      BY <2>2 DEF Acquire
    <3>2. \A d \in Controller : pc[d] \in {"Idle", "Acquire"}
      BY <3>1, ControllerAssumption DEF MoveInv, HolderInv
    <3> QED  BY <3>1, <3>2, <1>2 DEF TypeOK, ControllerTypes, HolderInv, Busy, Moves
  <2>3. CASE Crash(c)
    BY <2>3, <1>2 DEF Crash, MoveInv, HolderInv, Busy
  <2> QED  BY <2>1, <2>2, <2>3
<1>4. AnsweredInv'
  <2>1. CASE Begin(c) \/ Acquire(c)
    <3>1. pc[c] \notin Moves /\ pc'[c] \notin Moves
          /\ \A d \in Controller \ {c} : pc'[d] = pc[d] /\ target'[d] = target[d]
      BY <2>1 DEF Begin, Acquire, Moves, TypeOK, ControllerTypes
    <3> QED  BY <3>1, <1>2 DEF MoveInv, AnsweredInv, Done, Moves
  <2>2. CASE Crash(c)  BY <2>2, <1>2 DEF Crash, MoveInv, AnsweredInv, Done
  <2> QED  BY <2>1, <2>2
<1>5. Same
  <2>1. CASE Begin(c)
    <3>1. holder' = holder /\ pc'[c] = "Acquire" /\ pc[c] = "Idle"
          /\ \A d \in Controller \ {c} : pc'[d] = pc[d] /\ target'[d] = target[d]
      BY <2>1 DEF Begin, TypeOK, ControllerTypes
    <3> QED  BY <3>1, <1>2, SameHolder DEF Moving, Busy, Moves
  <2>2. CASE Acquire(c)
    <3>1. holder = Nobody /\ holder' = c /\ pc'[c] = "Read"  BY <2>2 DEF Acquire, TypeOK, ControllerTypes
    <3>2. ~Moving /\ ~Moving'  BY <3>1, ControllerAssumption DEF Moving, Busy, Moves
    <3> QED  BY <3>2, <1>2 DEF Same, Top, Assigned, InTransit
  <2>3. CASE Crash(c)
    <3>1. UNCHANGED <<holder, pc, target>>  BY <2>3 DEF Crash
    <3> QED  BY <3>1, <1>2, SameHolder DEF Moving, Busy
  <2> QED  BY <2>1, <2>2, <2>3
<1>6. OwnerInv' /\ LateInv'
  <2> DEFINE extra == {}
  <2>1. late' \subseteq late \cup extra  BY <1>2
  <2>2. \A req \in extra : req.kind \in Moves => req \in MoveReq /\ Sound(req)  OBVIOUS
  <2> HIDE DEF extra
  <2> QED  BY <2>1, <2>2, <1>2, <1>5, QuietStep
<1> QED  BY <1>3, <1>4, <1>6 DEF MoveInv

LEMMA ResendOwns ==
  ASSUME TypeOK, TypeOK', MoveInv, NEW c \in Controller, Resend(c)
  PROVE  MoveInv'
<1>1. UNCHANGED <<group, conf, holder, pc, target, current, index>>
      /\ reply' = [reply EXCEPT ![c] = NoReply]
  BY DEF Resend
<1>2. reply'[c] = NoReply /\ \A d \in Controller \ {c} : reply'[d] = reply[d]
  BY <1>1 DEF TypeOK, ControllerTypes
<1>3. HolderInv'  BY <1>1, <1>2 DEF MoveInv, HolderInv, Busy, NoReply
<1>4. AnsweredInv'  BY <1>1, <1>2 DEF MoveInv, AnsweredInv, Done, NoReply
<1>5. Same  BY <1>1, SameHolder DEF Moving, Busy
<1> DEFINE extra == IF pc[c] \in Moves /\ Move(c).gid # NoGroup THEN {Move(c)} ELSE {}
<1>6. late' \subseteq late \cup extra  BY DEF Resend, LeaveBehind
<1>7. \A req \in extra : req \in MoveReq /\ Sound(req)  BY OwnMoveSound
<1> HIDE DEF extra
<1>8. OwnerInv' /\ LateInv'  BY <1>1, <1>5, <1>6, <1>7, QuietStep
<1> QED  BY <1>3, <1>4, <1>8 DEF MoveInv

LEMMA ClientOwns ==
  ASSUME TypeOK, TypeOK', MoveInv, NEW k \in Client, Invoke(k) \/ ServeCall(k) \/ Recall(k) \/ ClientStep(k)
  PROVE  MoveInv'
<1>1. UNCHANGED <<conf, holder, pc, target, current, index, reply>>
  BY DEF Invoke, ServeCall, Recall, ClientStep, Reroute, Return, controllerVars
<1>2. HolderInv'  BY <1>1 DEF MoveInv, HolderInv, Busy
<1>3. Same  BY <1>1, SameHolder DEF Moving, Busy
<1>4. CASE ServeCall(k)
  <2>1. Request(k) \in AccessReq /\ Execute(Request(k)) /\ Request(k).kind \notin Moves
    BY <1>4, RequestType DEF ServeCall, AccessReq, Moves, TypeOK
  <2>2. /\ OwnerInv' /\ \A c \in Controller : Done(c) => Done(c)'
        /\ \A g \in Group, s \in Shard : group[g][s].num <= group'[g][s].num
    BY <2>1, <1>1, <1>3, AccessStep
  <2> DEFINE extra == {}
  <2>3. late' \subseteq late \cup extra  BY <1>4 DEF ServeCall
  <2>4. \A req \in extra : req.kind \in Moves => req \in MoveReq /\ Sound(req)  OBVIOUS
  <2> HIDE DEF extra
  <2>5. LateInv'  BY <2>2, <2>3, <2>4, <1>3, LateStays
  <2> QED  BY <2>2, <2>5, <1>1, <1>2 DEF MoveInv, AnsweredInv
<1>5. CASE ~ServeCall(k)
  <2>1. UNCHANGED group  BY <1>5 DEF Invoke, Recall, ClientStep, Reroute, Return
  <2>2. AnsweredInv'  BY <2>1, <1>1 DEF MoveInv, AnsweredInv, Done
  <2> DEFINE extra == IF call[k].kind = "Put" THEN {Request(k)} ELSE {}
  <2>3. late' \subseteq late \cup extra
    BY <1>5 DEF Invoke, Recall, ClientStep, Reroute, Return, LeaveBehind
  <2>4. \A req \in extra : req.kind \notin Moves  BY DEF Request, Moves
  <2> HIDE DEF extra
  <2>5. OwnerInv' /\ LateInv'  BY <2>1, <2>3, <2>4, <1>3, QuietStep
  <2> QED  BY <2>2, <2>5, <1>2 DEF MoveInv
<1> QED  BY <1>4, <1>5

LEMMA ServeLateOwns ==
  ASSUME TypeOK, TypeOK', MoveInv, NEW req \in late, ServeLate(req)
  PROVE  MoveInv'
<1>1. UNCHANGED <<conf, holder, pc, target, current, index, reply>> /\ Execute(req)
  BY DEF ServeLate, controllerVars
<1>2. HolderInv'  BY <1>1 DEF MoveInv, HolderInv, Busy
<1>3. Same  BY <1>1, SameHolder DEF Moving, Busy
<1>4. /\ OwnerInv' /\ \A c \in Controller : Done(c) => Done(c)'
      /\ \A g \in Group, s \in Shard : group[g][s].num <= group'[g][s].num
  <2>1. CASE req \in MoveReq
    <3>1. Sound(req)  BY <2>1 DEF MoveInv, LateInv, Sound, MoveReq
    <3> QED  BY <2>1, <3>1, <1>1, <1>3, SoundStep
  <2>2. CASE req \in AccessReq /\ req.kind \notin Moves
    BY <2>2, <1>1, <1>3, AccessStep
  <2> QED  BY <2>1, <2>2, LateEffect
<1> DEFINE extra == {}
<1>5. late' \subseteq late \cup extra  BY DEF ServeLate
<1>6. \A r \in extra : r.kind \in Moves => r \in MoveReq /\ Sound(r)  OBVIOUS
<1> HIDE DEF extra
<1>7. LateInv'  BY <1>3, <1>4, <1>5, <1>6, LateStays
<1> QED  BY <1>1, <1>2, <1>4, <1>7 DEF MoveInv, AnsweredInv

\* The fencing lets the holder's call through.
LEMMA ServeMoveOwns ==
  ASSUME TypeOK, TypeOK', MoveInv, NEW c \in Controller, ServeMove(c)
  PROVE  MoveInv'
<1> DEFINE req == Move(c)
<1> DEFINE st == group[req.gid][index[c]]
<1>1. /\ UNCHANGED <<conf, holder, pc, target, current, index, late>> /\ Execute(req)
      /\ pc[c] \in Moves /\ req.gid # NoGroup
  BY DEF ServeMove
<1>2. /\ req \in MoveReq /\ Sound(req) /\ holder = c /\ Moving /\ Top = target[c].num
      /\ \A x \in ShardState : (x.num <= Top \/ x.num = 0) => ~Fenced(x, req)
  BY <1>1, OwnMoveSound
<1>3. req.gid \in Group /\ req.shard \in Shard /\ index[c] = req.shard
  BY <1>2 DEF MoveReq, Move
<1>4. st \in ShardState  BY <1>3 DEF TypeOK, GroupTypes, ShardState
<1>5. ~Fenced(st, req)  BY <1>2, <1>3, <1>4 DEF MoveInv, OwnerInv
<1>6. Same  BY <1>1, SameHolder DEF Moving, Busy
<1>7. /\ OwnerInv' /\ \A d \in Controller : Done(d) => Done(d)'
      /\ \A g \in Group, s \in Shard : group[g][s].num <= group'[g][s].num
  BY <1>1, <1>2, <1>6, SoundStep
<1>8. reply'[c].err = "OK" /\ \A d \in Controller \ {c} : reply'[d] = reply[d]
  BY <1>5 DEF ServeMove, TypeOK, ControllerTypes
<1>9. HolderInv'
  BY <1>1, <1>8 DEF MoveInv, HolderInv, Busy, Moves
<1>10. AnsweredInv'
  <2>1. /\ group'[req.gid][req.shard].num = target[c].num
        /\ (group'[req.gid][req.shard].owned <=> pc[c] = "Install")
        /\ req.gid = IF pc[c] = "Install" THEN target[c].shards[index[c]] ELSE current[c].shards[index[c]]
    <3>1. req.kind = pc[c] /\ req.num = target[c].num  BY DEF Move
    <3>2. DoOp(st, req) \in ShardState  BY <1>2, <1>4, MoveEffect
    <3>3. group'[req.gid][req.shard] = DoOp(st, req)
      BY <3>2, <1>1, <1>3, ExecuteEffect DEF TypeOK
    <3>4. DoOp(st, req).num = req.num /\ (DoOp(st, req).owned <=> req.kind = "Install")
      BY <1>2, <1>4, <1>5, MoveEffect
    <3>5. req.gid = IF pc[c] = "Install" THEN target[c].shards[index[c]] ELSE current[c].shards[index[c]]
      BY DEF Move
    <3> QED  BY <3>1, <3>3, <3>4, <3>5
  <2>2. Done(c)'  BY <2>1, <1>1, <1>3 DEF Done
  <2> QED  BY <2>2, <1>7, <1>8 DEF MoveInv, AnsweredInv
<1> DEFINE extra == {}
<1>11. late' \subseteq late \cup extra  BY <1>1
<1>12. \A r \in extra : r.kind \in Moves => r \in MoveReq /\ Sound(r)  OBVIOUS
<1> HIDE DEF extra
<1>13. LateInv'  BY <1>6, <1>7, <1>11, <1>12, LateStays
<1> QED  BY <1>7, <1>9, <1>10, <1>13 DEF MoveInv

LEMMA ServePublishOwns ==
  ASSUME TypeOK, TypeOK', MoveInv, NEW c \in Controller, ServePublish(c)
  PROVE  MoveInv'
<1>1. /\ UNCHANGED <<group, holder, pc, target, current, index, late>> /\ pc[c] = "Publish"
      /\ (conf = current[c] /\ conf' = target[c]) \/ (conf # current[c] /\ conf' = conf)
  BY DEF ServePublish
<1>2. PICK e \in {"OK", "ErrMaybe"} : reply' = [reply EXCEPT ![c].err = e]  BY DEF ServePublish
<1>3. \A d \in Controller \ {c} : reply'[d] = reply[d]  BY <1>2 DEF TypeOK, ControllerTypes
<1>4. holder = c /\ Moving  BY <1>1 DEF MoveInv, HolderInv, Moving, Busy
<1>5. conf' = target[c]  BY <1>1 DEF MoveInv, HolderInv, Busy
<1>6. Same  BY <1>1, <1>4, SameHolder DEF Moving, Busy
<1>7. HolderInv'
  BY <1>1, <1>3, <1>4, <1>5 DEF MoveInv, HolderInv, Busy, Moves
<1>8. AnsweredInv'
  <2>1. \A d \in Controller : Done(d) => Done(d)'  BY <1>1 DEF Done
  <2>2. Done(c)  BY <1>1 DEF Done
  <2> QED  BY <2>1, <2>2, <1>3 DEF MoveInv, AnsweredInv
<1> DEFINE extra == {}
<1>9. late' \subseteq late \cup extra  BY <1>1
<1>10. \A r \in extra : r.kind \in Moves => r \in MoveReq /\ Sound(r)  OBVIOUS
<1> HIDE DEF extra
<1>11. OwnerInv' /\ LateInv'  BY <1>1, <1>6, <1>9, <1>10, QuietStep
<1> QED  BY <1>7, <1>8, <1>11 DEF MoveInv

LEMMA ReleaseOwns ==
  ASSUME TypeOK, TypeOK', MoveInv, NEW c \in Controller, Release(c)
  PROVE  MoveInv'
<1>1. /\ UNCHANGED <<group, conf, reply, late>> /\ pc[c] = "Release" /\ holder' = Nobody
      /\ pc' = [pc EXCEPT ![c] = "Idle"]
  BY DEF Release
<1>2. holder = c /\ \A d \in Controller \ {c} : pc[d] \in {"Idle", "Acquire"}
  BY <1>1 DEF MoveInv, HolderInv
<1>3. \A d \in Controller : pc'[d] \in {"Idle", "Acquire"}
  BY <1>1, <1>2 DEF TypeOK, ControllerTypes
<1>4. HolderInv'  BY <1>3 DEF HolderInv, Busy, Moves
<1>5. AnsweredInv'  BY <1>3 DEF AnsweredInv, Done
<1>6. ~Moving /\ ~Moving'
  BY <1>1, <1>2, ControllerAssumption DEF Moving, Busy, Moves
<1>7. Same  BY <1>1, <1>6 DEF Same, Top, Assigned, InTransit
<1> DEFINE extra == {}
<1>8. late' \subseteq late \cup extra  BY <1>1
<1>9. \A r \in extra : r.kind \in Moves => r \in MoveReq /\ Sound(r)  OBVIOUS
<1> HIDE DEF extra
<1>10. OwnerInv' /\ LateInv'  BY <1>1, <1>7, <1>8, <1>9, QuietStep
<1> QED  BY <1>4, <1>5, <1>10 DEF MoveInv

-----------------------------------------------------------------------------
\* Where a controller goes on, shards change their place

\* The groups own what asg says, and late requests agree with it.
Placed(asg) == \A g \in Group, s \in Shard : group[g][s].owned <=> g = asg[s]

Aligned(asg) ==
  \A req \in late : req.kind \in Moves =>
    \/ req.num < group[req.gid][req.shard].num
    \/ IF req.kind = "Install" THEN req.gid = asg[req.shard] ELSE req.gid # asg[req.shard]

\* The move from cur to tgt has come to shard i.
Mixed(cur, tgt, i) == [s \in Shard |-> IF s < i THEN tgt.shards[s] ELSE cur.shards[s]]

Numbered(cur, tgt) ==
  /\ \A g \in Group, s \in Shard : group[g][s].num <= tgt.num \/ group[g][s].num = 0
  /\ \A req \in late : req.kind \in Moves =>
       /\ req.num <= tgt.num
       /\ req.num = tgt.num =>
            /\ cur.shards[req.shard] # tgt.shards[req.shard]
            /\ req.gid = IF req.kind = "Install" THEN tgt.shards[req.shard] ELSE cur.shards[req.shard]

\* Every shard is where the new configuration says, or the next one that is not is
\* in transit.
LEMMA AdvancePlaces ==
  ASSUME TypeOK, NEW c \in Controller, NEW cur \in Config, NEW i \in Nat, Advance(c, cur, i),
         holder = c, current'[c] = cur, UNCHANGED <<holder, target>>
  PROVE  LET asg == Mixed(cur, target[c], i) IN
         /\ Moving' /\ Top' = target[c].num /\ reply'[c] = NoReply /\ moved'[c] = <<>>
         /\ \/ pc'[c] = "Publish" /\ \A s \in Shard : Assigned(s)' = asg[s] /\ ~InTransit(s)'
            \/ \E s \in Shard :
                 /\ s >= i /\ cur.shards[s] # target[c].shards[s] /\ asg[s] = cur.shards[s]
                 /\ index'[c] = s /\ pc'[c] = IF cur.shards[s] = NoGroup THEN "Install" ELSE "Freeze"
                 /\ InTransit(s)' /\ (cur.shards[s] # NoGroup => Assigned(s)' = cur.shards[s])
                 /\ \A r \in Shard \ {s} : Assigned(r)' = asg[r] /\ ~InTransit(r)'
<1> DEFINE tgt == target[c]
<1> DEFINE asg == Mixed(cur, tgt, i)
<1>1. \A s \in Shard : s \in Nat /\ asg[s] = IF s < i THEN tgt.shards[s] ELSE cur.shards[s]
  BY ShardAssumption DEF Mixed, Shard
<1>2. reply'[c] = NoReply /\ moved'[c] = <<>>  BY DEF Advance, TypeOK, ControllerTypes
<1>3. CASE Remaining(cur, tgt, i) = {} /\ pc' = [pc EXCEPT ![c] = "Publish"]
  <2>1. pc'[c] = "Publish"  BY <1>3 DEF TypeOK, ControllerTypes
  <2>2. Moving' /\ Top' = tgt.num  BY <2>1 DEF Moving, Busy, Top
  <2>3. \A s \in Shard : Assigned(s)' = tgt.shards[s] /\ ~InTransit(s)'
    BY <2>1, <2>2 DEF Assigned, InTransit
  <2>4. \A s \in Shard : asg[s] = tgt.shards[s]  BY <1>1, <1>3 DEF Remaining
  <2> QED  BY <1>2, <2>1, <2>2, <2>3, <2>4
<1>4. CASE \E s \in Remaining(cur, tgt, i) :
             /\ \A r \in Remaining(cur, tgt, i) : s <= r
             /\ index' = [index EXCEPT ![c] = s]
             /\ pc' = [pc EXCEPT ![c] = IF cur.shards[s] = NoGroup THEN "Install" ELSE "Freeze"]
  <2>1. PICK s \in Remaining(cur, tgt, i) :
             /\ \A r \in Remaining(cur, tgt, i) : s <= r
             /\ index' = [index EXCEPT ![c] = s]
             /\ pc' = [pc EXCEPT ![c] = IF cur.shards[s] = NoGroup THEN "Install" ELSE "Freeze"]
    BY <1>4
  <2>2. s \in Shard /\ s >= i /\ cur.shards[s] # tgt.shards[s]  BY DEF Remaining
  <2>3. index'[c] = s /\ pc'[c] = IF cur.shards[s] = NoGroup THEN "Install" ELSE "Freeze"
    BY <2>1 DEF TypeOK, ControllerTypes
  <2>4. Moving' /\ Top' = tgt.num  BY <2>3 DEF Moving, Busy, Top, Moves
  <2>5. \A r \in Shard : r # s =>
          asg[r] = (IF r < s THEN tgt.shards[r] ELSE cur.shards[r])
    BY <1>1, <2>1, <2>2 DEF Remaining
  <2>6. \A r \in Shard : r # s => Assigned(r)' = asg[r] /\ ~InTransit(r)'
    <3> SUFFICES ASSUME NEW r \in Shard, r # s PROVE Assigned(r)' = asg[r] /\ ~InTransit(r)'
      OBVIOUS
    <3>1. r \in Nat /\ s \in Nat  BY <1>1, <2>2
    <3>2. Assigned(r)' = IF r < s THEN tgt.shards[r] ELSE cur.shards[r]
      BY <3>1, <2>3, <2>4 DEF Assigned
    <3> QED  BY <3>2, <2>3, <2>4, <2>5 DEF InTransit
  <2>7. asg[s] = cur.shards[s]  BY <1>1, <2>2
  <2>8. InTransit(s)' /\ (cur.shards[s] # NoGroup => Assigned(s)' = cur.shards[s])
    BY <1>1, <2>2, <2>3, <2>4 DEF Assigned, InTransit
  <2> HIDE DEF asg
  <2>9. \E x \in Shard :
          /\ x >= i /\ cur.shards[x] # tgt.shards[x] /\ asg[x] = cur.shards[x]
          /\ index'[c] = x /\ pc'[c] = IF cur.shards[x] = NoGroup THEN "Install" ELSE "Freeze"
          /\ InTransit(x)' /\ (cur.shards[x] # NoGroup => Assigned(x)' = cur.shards[x])
          /\ \A r \in Shard \ {x} : Assigned(r)' = asg[r] /\ ~InTransit(r)'
    BY <2>2, <2>3, <2>6, <2>7, <2>8
  <2> QED  BY <1>2, <2>4, <2>9 DEF asg
<1> QED  BY <1>3, <1>4 DEF Advance

LEMMA AdvanceOwns ==
  ASSUME TypeOK, TypeOK', NEW c \in Controller, NEW cur \in Config, NEW i \in Nat, Advance(c, cur, i),
         holder = c, current'[c] = cur, UNCHANGED <<group, late, holder, target>>,
         Numbered(cur, target[c]), Placed(Mixed(cur, target[c], i)), Aligned(Mixed(cur, target[c], i))
  PROVE  /\ OwnerInv' /\ LateInv' /\ Busy(c)' /\ pc'[c] # "Delete"
         /\ pc'[c] \in Moves =>
              /\ cur.shards[index'[c]] # target[c].shards[index'[c]]
              /\ pc'[c] # "Install" => cur.shards[index'[c]] # NoGroup
<1> DEFINE asg == Mixed(cur, target[c], i)
<1>1. /\ Moving' /\ Top' = target[c].num
      /\ \/ pc'[c] = "Publish" /\ \A s \in Shard : Assigned(s)' = asg[s] /\ ~InTransit(s)'
         \/ \E s \in Shard :
              /\ s >= i /\ cur.shards[s] # target[c].shards[s] /\ asg[s] = cur.shards[s]
              /\ index'[c] = s /\ pc'[c] = IF cur.shards[s] = NoGroup THEN "Install" ELSE "Freeze"
              /\ InTransit(s)' /\ (cur.shards[s] # NoGroup => Assigned(s)' = cur.shards[s])
              /\ \A r \in Shard \ {s} : Assigned(r)' = asg[r] /\ ~InTransit(r)'
  BY AdvancePlaces
<1> HIDE DEF asg
<1>2. \A req \in late : req.kind \in Moves => req.gid \in Group /\ req.shard \in Shard
  BY DEF TypeOK, LateTypes, Moves
<1>3. \A g \in Group, s \in Shard : group[g][s].owned <=> g = asg[s]  BY DEF asg, Placed
<1>4. \A req \in late : req.kind \in Moves =>
        \/ req.num < group[req.gid][req.shard].num
        \/ IF req.kind = "Install" THEN req.gid = asg[req.shard] ELSE req.gid # asg[req.shard]
  BY DEF asg, Aligned
<1>5. \A s \in Shard : \/ Assigned(s)' = asg[s]
                       \/ InTransit(s)' /\ asg[s] = NoGroup
  BY <1>1
<1>6. OwnerInv'
  <2> SUFFICES ASSUME NEW g \in Group, NEW r \in Shard
               PROVE  /\ group[g][r].num <= Top' \/ group[g][r].num = 0
                      /\ group[g][r].owned => g = Assigned(r)'
                      /\ g = Assigned(r)' /\ ~InTransit(r)' => group[g][r].owned
    BY DEF OwnerInv
  <2>1. group[g][r].num <= Top' \/ group[g][r].num = 0  BY <1>1 DEF Numbered
  <2> QED  BY <2>1, <1>3, <1>5, GroupAssumption
<1>7. LateInv'
  <2> SUFFICES ASSUME NEW req \in late, req.kind \in Moves
               PROVE  Timely(req)' /\ Genuine(req)' /\ Harmless(req)'
    BY DEF LateInv
  <2>1. Timely(req)' /\ Genuine(req)'  BY <1>1 DEF Timely, Genuine, Numbered
  <2>2. Harmless(req)'  BY <1>2, <1>4, <1>5, GroupAssumption DEF Harmless
  <2> QED  BY <2>1, <2>2
<1> QED  BY <1>1, <1>6, <1>7 DEF Busy, Moves

\* The holder of the lock is the only controller with work under way.
LEMMA OthersWait ==
  ASSUME MoveInv, NEW c \in Controller, holder = c
  PROVE  \A d \in Controller \ {c} : pc[d] \in {"Idle", "Acquire"}
BY DEF MoveInv, HolderInv

\* A controller that is not superseded finds the groups as the configuration says.
LEMMA ReadMixed ==
  ASSUME TypeOK, MoveInv, NEW c \in Controller, pc[c] = "Read", ~Superseded(c)
  PROVE  /\ conf \in Config /\ conf.num < target[c].num
         /\ Numbered(conf, target[c]) /\ Placed(Mixed(conf, target[c], 0)) /\ Aligned(Mixed(conf, target[c], 0))
         /\ \A s \in Shard : Mixed(conf, target[c], 0)[s] = Assigned(s) /\ ~InTransit(s)
         /\ Top = conf.num /\ \A req \in late : req.kind \in Moves => req.num < target[c].num
<1>1. holder = c /\ ~Moving  BY DEF MoveInv, HolderInv, Moving, Busy, Moves
<1>2. conf \in Config /\ target[c] \in Config /\ target[c].num \in Nat  BY DEF TypeOK, ControllerTypes
<1>3. conf.num < target[c].num /\ conf.num \in Nat \cup {-1}  BY <1>2 DEF Superseded, Config
<1>4. Top = conf.num /\ \A req \in late : req.kind \in Moves => req.num < target[c].num
  <2>1. \A req \in late : req.kind \in Moves => req.num \in Nat  BY DEF TypeOK, LateTypes, Moves
  <2> QED  BY <2>1, <1>1, <1>2, <1>3 DEF MoveInv, LateInv, Timely, Top
<1>5. Numbered(conf, target[c])
  <2>1. \A g \in Group, s \in Shard : group[g][s].num \in Nat  BY DEF TypeOK, GroupTypes
  <2>2. \A g \in Group, s \in Shard : group[g][s].num <= target[c].num \/ group[g][s].num = 0
    BY <2>1, <1>2, <1>3, <1>4 DEF MoveInv, OwnerInv
  <2>3. \A req \in late : req.kind \in Moves => req.num \in Nat  BY DEF TypeOK, LateTypes, Moves
  <2> QED  BY <2>2, <2>3, <1>2, <1>4 DEF Numbered
<1>6. \A s \in Shard : Mixed(conf, target[c], 0)[s] = Assigned(s) /\ ~InTransit(s)
  BY <1>1, ShardAssumption DEF Mixed, Assigned, InTransit, Shard
<1>7. Placed(Mixed(conf, target[c], 0))  BY <1>6 DEF Placed, MoveInv, OwnerInv
<1>8. Aligned(Mixed(conf, target[c], 0))
  <2>1. \A req \in late : req.kind \in Moves => req.shard \in Shard  BY DEF TypeOK, LateTypes, Moves
  <2> QED  BY <2>1, <1>6 DEF Aligned, MoveInv, LateInv, Harmless
<1> QED  BY <1>2, <1>3, <1>4, <1>5, <1>6, <1>7, <1>8

LEMMA ReadOwns ==
  ASSUME TypeOK, TypeOK', MoveInv, NEW c \in Controller, Read(c)
  PROVE  MoveInv'
<1>1. pc[c] = "Read" /\ UNCHANGED <<group, conf, holder, target, late>>  BY DEF Read
<1>2. holder = c /\ ~Moving  BY <1>1 DEF MoveInv, HolderInv, Moving, Busy, Moves
<1>3. \A d \in Controller \ {c} : pc[d] \in {"Idle", "Acquire"}  BY <1>2, OthersWait
<1>4. CASE Enter(c, "Release", <<>>) /\ UNCHANGED current
  <2>1. pc'[c] = "Release" /\ \A d \in Controller \ {c} : pc'[d] = pc[d]
    BY <1>4 DEF Enter, TypeOK, ControllerTypes
  <2>2. ~Moving' /\ \A d \in Controller : ~Busy(d)'  BY <1>1, <1>2, <1>3, <2>1 DEF Moving, Busy, Moves
  <2>3. HolderInv'  BY <1>1, <1>2, <1>3, <2>1, <2>2 DEF HolderInv, Busy, Moves
  <2>4. AnsweredInv'  BY <2>2 DEF AnsweredInv, Done, Busy, Moves
  <2>5. Same  BY <1>1, <1>2, <2>2 DEF Same, Top, Assigned, InTransit
  <2> DEFINE extra == {}
  <2>6. late' \subseteq late \cup extra  BY <1>1
  <2>7. \A r \in extra : r.kind \in Moves => r \in MoveReq /\ Sound(r)  OBVIOUS
  <2> HIDE DEF extra
  <2>8. OwnerInv' /\ LateInv'  BY <1>1, <2>5, <2>6, <2>7, QuietStep
  <2> QED  BY <2>3, <2>4, <2>8 DEF MoveInv
<1>5. CASE ~Superseded(c) /\ current' = [current EXCEPT ![c] = conf] /\ Advance(c, conf, 0)
  <2>1. /\ conf \in Config /\ conf.num < target[c].num
        /\ Numbered(conf, target[c]) /\ Placed(Mixed(conf, target[c], 0)) /\ Aligned(Mixed(conf, target[c], 0))
    BY <1>1, <1>5, ReadMixed
  <2>2. current'[c] = conf  BY <1>5 DEF TypeOK, ControllerTypes
  <2>3. /\ OwnerInv' /\ LateInv' /\ Busy(c)' /\ pc'[c] # "Delete"
        /\ pc'[c] \in Moves =>
             /\ conf.shards[index'[c]] # target[c].shards[index'[c]]
             /\ pc'[c] # "Install" => conf.shards[index'[c]] # NoGroup
    BY <1>1, <1>2, <1>5, <2>1, <2>2, AdvanceOwns
  <2>4. /\ reply'[c] = NoReply
        /\ \A d \in Controller \ {c} : pc'[d] = pc[d]
    BY <1>5 DEF Advance, TypeOK, ControllerTypes
  <2>5. HolderInv'
    BY <1>1, <1>2, <1>3, <2>1, <2>2, <2>3, <2>4 DEF HolderInv, Busy, Moves, NoReply
  <2>6. AnsweredInv'
    BY <1>3, <2>4 DEF AnsweredInv, Done, NoReply
  <2> QED  BY <2>3, <2>5, <2>6 DEF MoveInv
<1> QED  BY <1>4, <1>5 DEF Read

\* The move of a shard has come to its end.
Finished(c) ==
  /\ pc[c] \in Moves /\ reply[c].err = "OK"
  /\ pc[c] = "Delete" \/ (pc[c] = "Install" /\ current[c].shards[index[c]] = NoGroup)

\* Then the groups are as the move of the next one expects them.
LEMMA ProceedMixed ==
  ASSUME TypeOK, MoveInv, NEW c \in Controller, Finished(c)
  PROVE  LET asg == Mixed(current[c], target[c], index[c] + 1) IN
         /\ holder = c /\ Moving /\ Top = target[c].num /\ index[c] \in Shard
         /\ Numbered(current[c], target[c]) /\ Placed(asg) /\ Aligned(asg)
         /\ \A s \in Shard : Assigned(s) = asg[s] /\ (InTransit(s) => s = index[c] /\ pc[c] = "Install")
<1> DEFINE cur == current[c]
<1> DEFINE tgt == target[c]
<1> DEFINE j == index[c]
<1>1. holder = c /\ Moving /\ Busy(c) /\ Top = tgt.num
  BY DEF Finished, MoveInv, HolderInv, Moving, Busy, Top, Moves
<1>2. cur.num < tgt.num /\ cur \in Config /\ tgt \in Config /\ j \in Nat
  BY <1>1 DEF MoveInv, HolderInv, TypeOK, ControllerTypes
<1>3. \A req \in late : req.kind \in Moves =>
        /\ req.gid \in Group /\ req.shard \in Shard /\ req.num \in Nat
        /\ Timely(req) /\ Genuine(req) /\ Harmless(req)
  BY DEF TypeOK, LateTypes, Moves, MoveInv, LateInv
<1>4. pc[c] \in {"Install", "Delete"} /\ j \in Shard /\ cur.shards[j] # tgt.shards[j]
  BY DEF Finished, MoveInv, HolderInv, TypeOK, ControllerTypes
<1>5. Done(c)  BY DEF Finished, MoveInv, AnsweredInv
<1>6. \A s \in Shard : Assigned(s) = Mixed(cur, tgt, j + 1)[s] /\ (InTransit(s) => s = j /\ pc[c] = "Install")
  <2> SUFFICES ASSUME NEW s \in Shard
               PROVE  Assigned(s) = Mixed(cur, tgt, j + 1)[s] /\ (InTransit(s) => s = j /\ pc[c] = "Install")
    OBVIOUS
  <2>1. s \in Nat /\ (s < j + 1 <=> s < j \/ s = j)  BY <1>2, ShardAssumption DEF Shard
  <2>2. Mixed(cur, tgt, j + 1)[s] = IF s < j \/ s = j THEN tgt.shards[s] ELSE cur.shards[s]
    BY <2>1 DEF Mixed
  <2> QED  BY <2>2, <1>1, <1>4 DEF Assigned, InTransit
<1>7. Numbered(cur, tgt)
  BY <1>1, <1>3 DEF Numbered, MoveInv, OwnerInv, Timely, Genuine
<1>8. Placed(Mixed(cur, tgt, j + 1))
  <2> SUFFICES ASSUME NEW g \in Group, NEW s \in Shard
               PROVE  group[g][s].owned <=> g = Assigned(s)
    BY <1>6 DEF Placed
  <2>1. CASE ~InTransit(s)  BY <2>1 DEF MoveInv, OwnerInv
  <2>2. CASE InTransit(s)
    <3>1. s = j /\ pc[c] = "Install"  BY <2>2, <1>6
    <3>2. Assigned(s) = tgt.shards[j]  BY <3>1, <1>1, <1>2 DEF Assigned
    <3> QED  BY <3>1, <3>2, <1>5 DEF Done, MoveInv, OwnerInv
  <2> QED  BY <2>1, <2>2
<1>9. Aligned(Mixed(cur, tgt, j + 1))
  <2> SUFFICES ASSUME NEW req \in late, req.kind \in Moves
               PROVE  \/ req.num < group[req.gid][req.shard].num
                      \/ IF req.kind = "Install" THEN req.gid = Assigned(req.shard) ELSE req.gid # Assigned(req.shard)
    BY <1>3, <1>6 DEF Aligned
  <2>1. CASE ~InTransit(req.shard)  BY <2>1, <1>3 DEF Harmless
  <2>2. CASE InTransit(req.shard)
    <3>1. req.shard = j /\ pc[c] = "Install"  BY <2>2, <1>3, <1>6
    <3>2. Assigned(j) = tgt.shards[j]  BY <3>1, <1>1, <1>2 DEF Assigned
    <3>3. req.gid = tgt.shards[j] => group[req.gid][j].num = tgt.num  BY <3>1, <1>5, <1>3 DEF Done
    <3>4. req.num <= tgt.num /\ tgt.num \in Nat \cup {-1}  BY <1>1, <1>2, <1>3 DEF Timely, Config
    <3>5. req.num = tgt.num /\ req.kind # "Install" => req.gid = cur.shards[j]
      BY <3>1, <1>1, <1>3 DEF Genuine
    <3>6. req.kind # "Install" => req.num < group[req.gid][j].num \/ req.gid # tgt.shards[j]
      BY <3>3, <3>4, <3>5, <1>3, <1>4
    <3> QED  BY <3>1, <3>2, <3>6, <1>3 DEF Harmless
  <2> QED  BY <2>1, <2>2
<1> QED  BY <1>1, <1>4, <1>6, <1>7, <1>8, <1>9

LEMMA ProceedOwns ==
  ASSUME TypeOK, TypeOK', MoveInv, NEW c \in Controller, Proceed(c)
  PROVE  MoveInv'
<1> DEFINE cur == current[c]
<1> DEFINE tgt == target[c]
<1> DEFINE j == index[c]
<1>1. UNCHANGED <<group, conf, holder, target, current, late>> /\ reply[c] # NoReply  BY DEF Proceed
<1>2. pc[c] \in Moves \cup {"Publish"}  BY <1>1 DEF TypeOK, ControllerTypes
<1>3. holder = c /\ Moving /\ Busy(c) /\ Top = tgt.num
  BY <1>2 DEF MoveInv, HolderInv, Moving, Busy, Top, Moves
<1>4. \A d \in Controller \ {c} : pc[d] \in {"Idle", "Acquire"}  BY <1>3, OthersWait
<1>5. cur.num < tgt.num /\ cur \in Config /\ tgt \in Config /\ j \in Nat
  BY <1>3 DEF MoveInv, HolderInv, TypeOK, ControllerTypes
<1>6. pc[c] \in Moves =>
        /\ j \in Shard /\ cur.shards[j] # tgt.shards[j] /\ reply[c].err \in {"none", "OK"} /\ conf = cur
        /\ pc[c] # "Install" => cur.shards[j] # NoGroup
  BY <1>2, <1>3 DEF MoveInv, HolderInv, TypeOK, ControllerTypes, Moves
<1>7. \A req \in late : req.kind \in Moves =>
        /\ req.gid \in Group /\ req.shard \in Shard /\ req.num \in Nat
        /\ Timely(req) /\ Genuine(req) /\ Harmless(req)
  BY DEF TypeOK, LateTypes, Moves, MoveInv, LateInv
<1>8. \A g \in Group, s \in Shard : group[g][s].num \in Nat  BY DEF TypeOK, GroupTypes
<1>9. CASE Enter(c, "Release", <<>>) /\ (reply[c].err # "OK" \/ pc[c] = "Publish")
  <2>1. pc'[c] = "Release" /\ \A d \in Controller \ {c} : pc'[d] = pc[d]
    BY <1>9 DEF Enter, TypeOK, ControllerTypes
  <2>2. reply[c].err # "none"
    BY <1>1, <1>2, <1>9 DEF TypeOK, ControllerTypes, NoReply, Enter, Proceed, Moves
  <2>3. pc[c] = "Publish" /\ conf = tgt
    BY <1>2, <1>6, <1>9, <2>2 DEF MoveInv, HolderInv, Busy, Moves
  <2>4. ~Moving' /\ \A d \in Controller : ~Busy(d)'  BY <1>1, <1>3, <1>4, <2>1 DEF Moving, Busy, Moves
  <2>5. HolderInv'  BY <1>1, <1>3, <1>4, <2>1, <2>4 DEF HolderInv, Busy, Moves
  <2>6. AnsweredInv'  BY <2>4 DEF AnsweredInv, Done, Busy, Moves
  <2>7. Top' = Top /\ \A s \in Shard : Assigned(s)' = Assigned(s) /\ ~InTransit(s)' /\ ~InTransit(s)
    BY <1>1, <1>3, <2>3, <2>4 DEF Top, Assigned, InTransit
  <2>8. OwnerInv'  BY <1>1, <2>7 DEF MoveInv, OwnerInv
  <2>9. LateInv'
    <3> SUFFICES ASSUME NEW req \in late, req.kind \in Moves
                 PROVE  Timely(req)' /\ Genuine(req)' /\ Harmless(req)'
      BY <1>1 DEF LateInv
    <3> QED  BY <1>1, <1>7, <2>4, <2>7 DEF Timely, Genuine, Harmless
  <2> QED  BY <2>5, <2>6, <2>8, <2>9 DEF MoveInv
<1>10. ASSUME reply[c].err = "OK", NEW state \in {"Install", "Delete"}, NEW data, Enter(c, state, data),
              \/ pc[c] = "Freeze" /\ state = "Install"
              \/ pc[c] = "Install" /\ state = "Delete" /\ cur.shards[j] # NoGroup
       PROVE  MoveInv'
  <2>1. /\ pc'[c] = state /\ reply'[c] = NoReply /\ UNCHANGED index
        /\ \A d \in Controller \ {c} : pc'[d] = pc[d]
    BY <1>10 DEF Enter, TypeOK, ControllerTypes
  <2>2. Moving' /\ Top' = Top  BY <1>1, <1>3, <2>1 DEF Moving, Busy, Moves, Top
  <2>3. Done(c)  BY <1>10 DEF MoveInv, AnsweredInv
  <2>4. HolderInv'
    BY <1>1, <1>3, <1>4, <1>5, <1>6, <1>10, <2>1 DEF HolderInv, Busy, Moves, NoReply
  <2>5. AnsweredInv'
    BY <1>4, <2>1 DEF AnsweredInv, Done, NoReply
  <2>6. \A s \in Shard : s # j => Assigned(s)' = Assigned(s) /\ ~InTransit(s)' /\ ~InTransit(s)
    BY <1>1, <1>3, <1>10, <2>1, <2>2 DEF Assigned, InTransit
  <2>7. j \in Shard /\ \A s \in Shard : s = j =>
          /\ Assigned(s)' = tgt.shards[s] /\ (InTransit(s)' <=> state = "Install") /\ InTransit(s)
          /\ Assigned(s) = IF state = "Install" THEN cur.shards[s] ELSE tgt.shards[s]
    BY <1>1, <1>3, <1>5, <1>6, <1>10, <2>1, <2>2 DEF Assigned, InTransit, Moves
  <2>8. OwnerInv'
    <3> SUFFICES ASSUME NEW g \in Group, NEW s \in Shard
                 PROVE  /\ group[g][s].num <= Top \/ group[g][s].num = 0
                        /\ group[g][s].owned => g = Assigned(s)'
                        /\ g = Assigned(s)' /\ ~InTransit(s)' => group[g][s].owned
      BY <1>1, <2>2 DEF OwnerInv
    <3>1. CASE s # j  BY <3>1, <2>6 DEF MoveInv, OwnerInv
    <3>2. CASE s = j /\ state = "Install"
      <4>1. ~group[g][s].owned  BY <3>2, <2>3, <2>7, <1>10 DEF Done, MoveInv, OwnerInv
      <4> QED  BY <4>1, <3>2, <2>7 DEF MoveInv, OwnerInv
    <3>3. CASE s = j /\ state = "Delete"
      BY <3>3, <2>3, <2>7, <1>10 DEF Done, MoveInv, OwnerInv
    <3> QED  BY <3>1, <3>2, <3>3, <1>10
  <2>9. LateInv'
    <3> SUFFICES ASSUME NEW req \in late, req.kind \in Moves
                 PROVE  Timely(req)' /\ Genuine(req)' /\ Harmless(req)'
      BY <1>1 DEF LateInv
    <3>1. Timely(req)' /\ Genuine(req)'  BY <1>1, <1>3, <1>7, <2>2 DEF Timely, Genuine
    <3>2. Harmless(req)'
      <4>1. CASE req.shard # j  BY <4>1, <1>1, <1>7, <2>6 DEF Harmless
      <4>2. CASE req.shard = j
        <5>1. req.num <= tgt.num /\ tgt.num \in Nat \cup {-1}  BY <1>3, <1>5, <1>7 DEF Timely, Config
        <5>2. req.num = tgt.num =>
                req.gid = IF req.kind = "Install" THEN tgt.shards[j] ELSE cur.shards[j]
          BY <4>2, <1>3, <1>7 DEF Genuine
        <5>3. CASE state = "Install"
          <6>1. req.gid = cur.shards[j] => group[req.gid][j].num = tgt.num
            BY <5>3, <2>3, <1>7, <1>10 DEF Done
          <6>2. req.kind = "Install" =>
                  req.num < group[req.gid][j].num \/ req.gid = cur.shards[j]
            BY <4>2, <5>3, <1>7, <2>7 DEF Harmless
          <6>3. req.kind = "Install" => req.num < group[req.gid][j].num \/ req.gid = tgt.shards[j]
            BY <5>1, <5>2, <6>1, <6>2, <1>6, <1>7, <1>10 DEF Moves
          <6> QED  BY <4>2, <5>3, <6>3, <1>1, <2>7 DEF Harmless
        <5>4. CASE state = "Delete"
          <6>1. req.gid = tgt.shards[j] => group[req.gid][j].num = tgt.num
            BY <5>4, <2>3, <1>7, <1>10 DEF Done
          <6>2. req.kind = "Install" =>
                  req.num < group[req.gid][j].num \/ req.gid = tgt.shards[j]
            BY <4>2, <5>4, <1>7, <2>7 DEF Harmless
          <6>3. req.kind # "Install" => req.num < group[req.gid][j].num \/ req.gid # tgt.shards[j]
            BY <5>1, <5>2, <6>1, <1>6, <1>7, <1>10 DEF Moves
          <6> QED  BY <4>2, <5>4, <6>2, <6>3, <1>1, <2>7 DEF Harmless
        <5> QED  BY <5>3, <5>4
      <4> QED  BY <4>1, <4>2
    <3> QED  BY <3>1, <3>2
  <2> QED  BY <2>4, <2>5, <2>8, <2>9 DEF MoveInv
<1>11. CASE /\ reply[c].err = "OK" /\ Advance(c, cur, j + 1)
            /\ pc[c] = "Delete" \/ (pc[c] = "Install" /\ cur.shards[j] = NoGroup)
  <2>1. Finished(c) /\ pc[c] \in Moves  BY <1>11 DEF Finished, Moves
  <2>2. /\ Numbered(cur, tgt) /\ Placed(Mixed(cur, tgt, j + 1)) /\ Aligned(Mixed(cur, tgt, j + 1))
    BY <2>1, ProceedMixed
  <2>3. current'[c] = cur /\ j + 1 \in Nat  BY <1>1, <1>5
  <2>4. /\ OwnerInv' /\ LateInv' /\ Busy(c)' /\ pc'[c] # "Delete"
        /\ pc'[c] \in Moves =>
             /\ cur.shards[index'[c]] # target[c].shards[index'[c]]
             /\ pc'[c] # "Install" => cur.shards[index'[c]] # NoGroup
    BY <1>1, <1>3, <1>5, <1>11, <2>2, <2>3, AdvanceOwns
  <2>5. reply'[c] = NoReply /\ \A d \in Controller \ {c} : pc'[d] = pc[d]
    BY <1>11 DEF Advance, TypeOK, ControllerTypes
  <2>6. HolderInv'
    BY <1>1, <1>3, <1>4, <1>5, <1>6, <2>1, <2>4, <2>5 DEF HolderInv, Busy, Moves, NoReply
  <2>7. AnsweredInv'  BY <1>4, <2>5 DEF AnsweredInv, Done, NoReply
  <2> QED  BY <2>4, <2>6, <2>7 DEF MoveInv
<1> QED  BY <1>9, <1>10, <1>11 DEF Proceed

-----------------------------------------------------------------------------
LEMMA InitOwns == Init => MoveInv
<1> SUFFICES ASSUME Init PROVE MoveInv  OBVIOUS
<1>1. \A c \in Controller : pc[c] = "Idle" /\ reply[c].err = "none"  BY DEF Init, NoReply
<1>2. holder = Nobody /\ ~Moving  BY ControllerAssumption DEF Init, Moving
<1>3. HolderInv  BY <1>1 DEF HolderInv, Busy, Moves
<1>4. AnsweredInv  BY <1>1 DEF AnsweredInv
<1>5. OwnerInv
  <2>1. \A s \in Shard : Assigned(s) = NoGroup  BY <1>2 DEF Init, Assigned, NoConfig, Unassigned
  <2> QED  BY <2>1, GroupAssumption DEF Init, OwnerInv
<1>6. LateInv  BY DEF Init, LateInv
<1> QED  BY <1>3, <1>4, <1>5, <1>6 DEF MoveInv

\* Every step keeps ownership in order.
LEMMA NextOwns == TypeOK /\ TypeOK' /\ MoveInv /\ [Next]_vars => MoveInv'
<1> SUFFICES ASSUME TypeOK, TypeOK', MoveInv, [Next]_vars PROVE MoveInv'  OBVIOUS
<1>1. CASE UNCHANGED vars
  <2>1. UNCHANGED <<group, conf, holder, pc, target, current, index, reply, late>>
    BY <1>1 DEF vars, controllerVars
  <2>2. HolderInv' /\ AnsweredInv'  BY <2>1 DEF MoveInv, HolderInv, AnsweredInv, Done, Busy
  <2>3. Same  BY <2>1, SameHolder DEF Moving, Busy
  <2> DEFINE extra == {}
  <2>4. late' \subseteq late \cup extra  BY <2>1
  <2>5. \A r \in extra : r.kind \in Moves => r \in MoveReq /\ Sound(r)  OBVIOUS
  <2> HIDE DEF extra
  <2>6. OwnerInv' /\ LateInv'  BY <2>1, <2>3, <2>4, <2>5, QuietStep
  <2> QED  BY <2>2, <2>6 DEF MoveInv
<1>2. CASE Next
  BY <1>2, BeginOwns, ReadOwns, ProceedOwns, ReleaseOwns, ServeMoveOwns, ServePublishOwns, ResendOwns,
     ClientOwns, ServeLateOwns DEF Next, ControllerStep
<1> QED  BY <1>1, <1>2

\* The inductive invariant of ownership (ChangeConfigTo under the lock, DoOp's fencing).
THEOREM MovesInOrder == Spec => []MoveInv
<1>1. Init => MoveInv  BY InitOwns
<1>2. Spec => []TypeOK  BY TypeCorrect
<1> QED  BY <1>1, <1>2, NextOwns, PTL DEF Spec

\* No two groups serve a shard (architecture.md:630).
THEOREM OwnersUnique == Spec => []OneOwner
<1>1. MoveInv => OneOwner  BY DEF MoveInv, OwnerInv, OneOwner
<1> QED  BY <1>1, MovesInOrder, PTL

\* Whenever nobody holds the lock, groups and configuration agree.
THEOREM GroupsSettled == Spec => []Settled
<1>1. MoveInv => Settled
  <2> SUFFICES ASSUME MoveInv, holder = Nobody, NEW s \in Shard, NEW g \in Group
               PROVE  group[g][s].owned <=> conf.shards[s] = g
    BY DEF Settled
  <2>1. ~Moving  BY ControllerAssumption DEF Moving
  <2> QED  BY <2>1 DEF MoveInv, OwnerInv, Assigned, InTransit
<1> QED  BY <1>1, MovesInOrder, PTL

\* No call of the lock's holder is refused; what it may be told of as an error is the
\* publication that has succeeded.
THEOREM ErrorsArePublished == Spec => []ErrorMeansPublished
<1>1. TypeOK /\ MoveInv => ErrorMeansPublished
  BY DEF TypeOK, ControllerTypes, MoveInv, HolderInv, ErrorMeansPublished, Busy, Moves, NoReply
<1> QED  BY <1>1, TypeCorrect, MovesInOrder, PTL

-----------------------------------------------------------------------------
\* Where a shard's data is

\* A controller is between the calls of some shard.
Working == Moving /\ pc[holder] \in Moves

\* The group that a shard in transit comes from.
Source(s) == current[holder].shards[s]

FrozenAt(g, s) ==
  /\ group[g][s].frozen /\ group[g][s].num = Top
  /\ \A h \in Group : ~group[h][s].owned

Untouched(s) ==
  \A g \in Group : group[g][s].data = <<>> /\ ~group[g][s].owned /\ ~group[g][s].frozen

\* No group has been given s yet.
Free(s) ==
  IF InTransit(s) THEN Source(s) = NoGroup /\ reply[holder] = NoReply ELSE Assigned(s) = NoGroup

\* In the move that is going on only the source of the shard in transit is frozen.
FrozenInv ==
  \A g \in Group, s \in Shard : group[g][s].frozen =>
    /\ group[g][s].num <= Top
    /\ Working /\ s >= index[holder] /\ group[g][s].num = Top => s = index[holder] /\ g = Source(s)

\* The requests that take a shard away from a group.
Leaves == {"Freeze", "Delete"}

\* Such requests of that move that are late are of calls made, and those of earlier
\* ones cannot reach the source any more.
Behind(req) ==
  /\ Working /\ req.num = Top =>
       /\ req.shard <= index[holder]
       /\ req.shard = index[holder] /\ req.kind = "Delete" => pc[holder] = "Delete"
  /\ InTransit(req.shard) /\ req.num # Top /\ req.gid = Source(req.shard) =>
       req.num < group[req.gid][req.shard].num

LateMoveInv == \A req \in late : req.kind \in Leaves => Behind(req)

VacantInv ==
  \A s \in Shard : Free(s) =>
    Untouched(s) /\ \A req \in late : req.kind \in Leaves => req.shard # s

\* The shard in transit is at its source until it is installed, and what is installed
\* is what is there.
TransitInv ==
  \A s \in Shard, g \in Group : InTransit(s) /\ g = Source(s) =>
    /\ pc[holder] = "Freeze" => group[g][s].owned \/ FrozenAt(g, s)
    /\ pc[holder] = "Freeze" /\ reply[holder] # NoReply =>
         FrozenAt(g, s) /\ reply[holder].data = group[g][s].data
    /\ pc[holder] = "Install" /\ reply[holder] = NoReply =>
         FrozenAt(g, s) /\ moved[holder] = group[g][s].data

\* A shard that has no source is installed empty; one that has no destination never is.
EndsInv ==
  Working =>
    /\ Source(index[holder]) = NoGroup => moved[holder] = <<>>
    /\ pc[holder] = "Delete" \/ (pc[holder] = "Install" /\ reply[holder] # NoReply) =>
         target[holder].shards[index[holder]] # NoGroup

StoreInv == FrozenInv /\ LateMoveInv /\ VacantInv /\ TransitInv /\ EndsInv

\* A client's versions are of the past.
Data(s) == group[Home(s)][s].data

CallOK(k) ==
  /\ call[k] = NoCall => answer[k] = NoAnswer
  /\ call[k].kind = "Get" => answer[k].version <= Len(Data(call[k].shard))
  /\ call[k].kind = "Put" =>
       /\ call[k].version <= Len(Data(call[k].shard))
       /\ answer[k] # NoAnswer /\ ~Refused(k) => call[k].version < Len(Data(call[k].shard))

PutOK(req) ==
  \/ req.version < Len(Data(req.shard))
  \/ call[req.by] = [kind |-> "Put", shard |-> req.shard, version |-> req.version]

PastInv == (\A k \in Client : CallOK(k)) /\ \A req \in late : req.kind = "Put" => PutOK(req)

-----------------------------------------------------------------------------
\* Steps that move no shard

\* The controller that works stays where it is, and
Still ==
  /\ Same
  /\ Moving => /\ holder' = holder /\ pc'[holder] = pc[holder] /\ index'[holder] = index[holder]
               /\ current'[holder] = current[holder] /\ target'[holder] = target[holder]
               /\ moved'[holder] = moved[holder]

\* what it is told is true, if anything.
Truthful ==
  Working =>
    \/ reply'[holder] = reply[holder] \/ pc[holder] = "Delete"
    \/ pc[holder] = "Install" /\ reply'[holder] # NoReply /\ target[holder].shards[index[holder]] # NoGroup
    \/ /\ pc[holder] = "Freeze"
       /\ \/ reply'[holder] = NoReply
          \/ \A g \in Group, s \in Shard : s = index[holder] /\ g = Source(s) =>
               FrozenAt(g, s)' /\ reply'[holder].data = group'[g][s].data

\* What the variables of a still controller amount to.
LEMMA StillPlaces ==
  ASSUME Still
  PROVE  /\ Top' = Top /\ (Moving' <=> Moving) /\ (Working' <=> Working)
         /\ \A s \in Shard : Assigned(s)' = Assigned(s) /\ (InTransit(s)' <=> InTransit(s))
         /\ Moving => /\ holder' = holder /\ pc'[holder] = pc[holder] /\ index'[holder] = index[holder]
                      /\ target'[holder] = target[holder] /\ moved'[holder] = moved[holder]
                      /\ \A s : Source(s)' = Source(s)
BY DEF Still, Same, Working, Source

\* Where the holder of the lock works, and on what.
LEMMA AtWork ==
  ASSUME TypeOK, MoveInv
  PROVE  /\ Working => /\ Moving /\ holder \in Controller /\ index[holder] \in Shard
                       /\ Source(index[holder]) # target[holder].shards[index[holder]]
                       /\ pc[holder] # "Install" => Source(index[holder]) # NoGroup
         /\ \A s \in Shard : InTransit(s) => Working /\ s = index[holder] /\ pc[holder] \in {"Freeze", "Install"}
         /\ \A s \in Shard : Working /\ s = index[holder] /\ pc[holder] # "Delete" => InTransit(s)
         /\ \A s \in Shard : Working /\ s = index[holder] /\ pc[holder] = "Delete" =>
              Assigned(s) = target[holder].shards[s]
<1>1. Working => Moving /\ holder \in Controller /\ pc[holder] \in Moves  BY DEF Working, Moving
<1>2. Working => index[holder] \in Shard  BY <1>1 DEF TypeOK, ControllerTypes
<1>3. Working => /\ current[holder].shards[index[holder]] # target[holder].shards[index[holder]]
                 /\ pc[holder] # "Install" => current[holder].shards[index[holder]] # NoGroup
  BY <1>1 DEF MoveInv, HolderInv
<1>4. \A s \in Shard : InTransit(s) => Working /\ s = index[holder] /\ pc[holder] \in {"Freeze", "Install"}
  BY DEF InTransit, Working, Moves
<1>5. \A s \in Shard : Working /\ s = index[holder] /\ pc[holder] # "Delete" => InTransit(s)
  BY <1>1 DEF InTransit, Moves
<1>6. \A s \in Shard : Working /\ s = index[holder] /\ pc[holder] = "Delete" => Assigned(s) = target[holder].shards[s]
  BY <1>1 DEF Assigned
<1> QED  BY <1>1, <1>2, <1>3, <1>4, <1>5, <1>6 DEF Source

\* A shard that has nobody is not the one that is being frozen or deleted.
LEMMA FreeStays ==
  ASSUME TypeOK, MoveInv, StoreInv, Still, Truthful, NEW s \in Shard, Free(s)'
  PROVE  Free(s)
<1>1. CASE InTransit(s)
  <2>1. /\ InTransit(s)' /\ Moving /\ Working /\ s = index[holder]
        /\ Source(s) = NoGroup /\ reply'[holder] = NoReply
    BY <1>1, StillPlaces, AtWork DEF Free
  <2>2. pc[holder] = "Install"  BY <1>1, <2>1, AtWork
  <2> QED  BY <1>1, <2>1, <2>2 DEF Free, Truthful
<1>2. CASE ~InTransit(s)  BY <1>2, StillPlaces DEF Free
<1> QED  BY <1>1, <1>2

\* What such a step has to leave alone.
LEMMA StillStore ==
  ASSUME TypeOK, MoveInv, StoreInv, Still, Truthful, FrozenInv', NEW extra, late' \subseteq late \cup extra,
         \A req \in extra : req.kind \in Leaves =>
           /\ Working /\ pc[holder] # "Install" /\ req.kind = pc[holder]
           /\ req.shard = index[holder] /\ req.num = Top,
         \A g \in Group, s \in Shard :
           group[g][s].num \in Nat /\ group'[g][s].num \in Nat /\ group[g][s].num <= group'[g][s].num,
         \A s \in Shard : Free(s) /\ Free(s)' => Untouched(s)',
         \A g \in Group, s \in Shard :
           InTransit(s) /\ g = Source(s) /\ (pc[holder] = "Install" => reply'[holder] = NoReply) =>
             /\ FrozenAt(g, s) => FrozenAt(g, s)' /\ group'[g][s].data = group[g][s].data
             /\ group[g][s].owned /\ pc[holder] = "Freeze" => group'[g][s].owned \/ FrozenAt(g, s)'
  PROVE  StoreInv'
<1>1. /\ Top' = Top /\ (Moving' <=> Moving) /\ (Working' <=> Working)
      /\ \A s \in Shard : Assigned(s)' = Assigned(s) /\ (InTransit(s)' <=> InTransit(s))
      /\ Moving => /\ holder' = holder /\ pc'[holder] = pc[holder] /\ index'[holder] = index[holder]
                   /\ target'[holder] = target[holder] /\ moved'[holder] = moved[holder]
                   /\ \A s : Source(s)' = Source(s)
  BY StillPlaces
<1>2. LateMoveInv'
  <2> SUFFICES ASSUME NEW req \in late', req.kind \in Leaves
               PROVE  /\ Working /\ req.num = Top =>
                           /\ req.shard <= index[holder]
                           /\ req.shard = index[holder] /\ req.kind = "Delete" => pc[holder] = "Delete"
                      /\ InTransit(req.shard)' /\ req.num # Top /\ req.gid = Source(req.shard)' =>
                           req.num < group'[req.gid][req.shard].num
    BY <1>1 DEF LateMoveInv, Behind, Working
  <2>1. CASE req \in late
    <3>1. req.gid \in Group /\ req.shard \in Shard /\ req.num \in Nat
      BY <2>1 DEF TypeOK, LateTypes, Moves, Leaves
    <3>2. InTransit(req.shard) => Moving  BY DEF InTransit
    <3>3. Behind(req)  BY <2>1 DEF StoreInv, LateMoveInv
    <3> QED  BY <3>1, <3>2, <3>3, <1>1 DEF Behind
  <2>2. CASE req \in extra
    <3>1. index[holder] \in Nat  BY <2>2, AtWork, ShardAssumption DEF Shard
    <3> QED  BY <2>2, <3>1
  <2> QED  BY <2>1, <2>2
<1>3. VacantInv'
  <2> SUFFICES ASSUME NEW s \in Shard, Free(s)'
               PROVE  Untouched(s)' /\ \A req \in late' : req.kind \in Leaves => req.shard # s
    BY DEF VacantInv
  <2>1. Free(s)  BY FreeStays
  <2>2. \A req \in late : req.kind \in Leaves => req.shard # s
    BY <2>1 DEF StoreInv, VacantInv
  <2>3. ASSUME NEW req \in extra, req.kind \in Leaves, req.shard = s PROVE FALSE
    <3>1. Working /\ s = index[holder] /\ pc[holder] # "Install"  BY <2>3
    <3>2. CASE pc[holder] = "Delete"
      <4>1. ~InTransit(s) /\ Assigned(s) = target[holder].shards[s]  BY <3>1, <3>2, AtWork
      <4> QED  BY <4>1, <3>1, <3>2, <2>1 DEF Free, StoreInv, EndsInv
    <3>3. CASE pc[holder] # "Delete"
      BY <3>1, <3>3, <2>1, AtWork DEF Free
    <3> QED  BY <3>2, <3>3
  <2> QED  BY <2>1, <2>2, <2>3
<1>4. TransitInv'
  <2> SUFFICES ASSUME NEW s \in Shard, NEW g \in Group, InTransit(s), g = Source(s)
               PROVE  /\ pc[holder] = "Freeze" => group'[g][s].owned \/ FrozenAt(g, s)'
                      /\ pc[holder] = "Freeze" /\ reply'[holder] # NoReply =>
                           FrozenAt(g, s)' /\ reply'[holder].data = group'[g][s].data
                      /\ pc[holder] = "Install" /\ reply'[holder] = NoReply =>
                           FrozenAt(g, s)' /\ moved[holder] = group'[g][s].data
    <3>1. \A s \in Shard : InTransit(s) => Moving  BY DEF InTransit
    <3> QED  BY <3>1, <1>1 DEF TransitInv
  <2>1. Working /\ s = index[holder]  BY AtWork
  <2>2. /\ pc[holder] = "Freeze" => group[g][s].owned \/ FrozenAt(g, s)
        /\ pc[holder] = "Freeze" /\ reply[holder] # NoReply =>
             FrozenAt(g, s) /\ reply[holder].data = group[g][s].data
        /\ pc[holder] = "Install" /\ reply[holder] = NoReply =>
             FrozenAt(g, s) /\ moved[holder] = group[g][s].data
    BY DEF StoreInv, TransitInv
  <2>3. CASE pc[holder] = "Freeze"
    <3>1. reply'[holder] = reply[holder] \/ reply'[holder] = NoReply
          \/ (FrozenAt(g, s)' /\ reply'[holder].data = group'[g][s].data)
      BY <2>1, <2>3 DEF Truthful
    <3> QED  BY <2>2, <2>3, <3>1
  <2>4. CASE pc[holder] = "Install" /\ reply'[holder] = NoReply
    <3>1. reply'[holder] = reply[holder]  BY <2>1, <2>4 DEF Truthful
    <3> QED  BY <2>2, <2>4, <3>1
  <2> QED  BY <2>3, <2>4
<1>5. EndsInv'
  <2> SUFFICES ASSUME Working
               PROVE  /\ Source(index[holder]) = NoGroup => moved[holder] = <<>>
                      /\ pc[holder] = "Delete" \/ (pc[holder] = "Install" /\ reply'[holder] # NoReply) =>
                           target[holder].shards[index[holder]] # NoGroup
    BY <1>1, AtWork DEF EndsInv
  <2> QED  BY DEF StoreInv, EndsInv, Truthful
<1> QED  BY <1>2, <1>3, <1>4, <1>5 DEF StoreInv

\* Clients write only where a shard is owned; nothing else changes in the groups.
LEMMA WriteStore ==
  ASSUME TypeOK, MoveInv, StoreInv, Still, Truthful, NEW extra, late' \subseteq late \cup extra,
         \A req \in extra : req.kind \in Leaves =>
           /\ Working /\ pc[holder] # "Install" /\ req.kind = pc[holder]
           /\ req.shard = index[holder] /\ req.num = Top,
         \A g \in Group, s \in Shard :
           /\ group'[g][s].num = group[g][s].num /\ group'[g][s].owned = group[g][s].owned
           /\ group'[g][s].frozen = group[g][s].frozen
           /\ ~group[g][s].owned => group'[g][s].data = group[g][s].data
  PROVE  StoreInv'
<1>1. /\ Top' = Top /\ (Working' <=> Working)
      /\ Moving => /\ holder' = holder /\ pc'[holder] = pc[holder] /\ index'[holder] = index[holder]
                   /\ \A s : Source(s)' = Source(s)
  BY StillPlaces
<1>2. FrozenInv'  BY <1>1 DEF StoreInv, FrozenInv, Working
<1>3. \A g \in Group, s \in Shard : FrozenAt(g, s) => FrozenAt(g, s)' /\ group'[g][s].data = group[g][s].data
  BY <1>1 DEF FrozenAt
<1>4. \A s \in Shard : Free(s) => Untouched(s)'  BY DEF StoreInv, VacantInv, Untouched
<1>5. \A g \in Group, s \in Shard :
        group[g][s].num \in Nat /\ group'[g][s].num \in Nat /\ group[g][s].num <= group'[g][s].num
  BY DEF TypeOK, GroupTypes
<1> QED  BY <1>2, <1>3, <1>4, <1>5, StillStore

\* Requests of a controller that take a shard away, late or not.
LEMMA LeaveStore ==
  ASSUME TypeOK, TypeOK', MoveInv, StoreInv, Still, Truthful, NEW req \in MoveReq, req.kind \in Leaves,
         Sound(req), Behind(req), ~Free(req.shard), Execute(req), late' \subseteq late
  PROVE  StoreInv'
<1> DEFINE st == group[req.gid][req.shard]
<1>1. /\ Top' = Top /\ (Working' <=> Working)
      /\ Moving => /\ holder' = holder /\ pc'[holder] = pc[holder] /\ index'[holder] = index[holder]
                   /\ \A s : Source(s)' = Source(s)
  BY StillPlaces
<1>2. /\ req.gid \in Group /\ req.shard \in Shard /\ req.num \in Nat /\ req.kind \in {"Freeze", "Delete"}
      /\ st \in ShardState
  BY DEF MoveReq, Leaves, TypeOK, GroupTypes, ShardState
<1>3. /\ group'[req.gid][req.shard] = DoOp(st, req)
      /\ \A g \in Group, s \in Shard : g # req.gid \/ s # req.shard => group'[g][s] = group[g][s]
  BY <1>2, MoveEffect, ExecuteEffect DEF TypeOK
<1> DEFINE extra == {}
<1>4. late' \subseteq late \cup extra /\ \A r \in extra : FALSE  OBVIOUS
<1> HIDE DEF extra
<1>5. CASE Fenced(st, req)
  <2>1. \A g \in Group, s \in Shard : group'[g][s] = group[g][s]  BY <1>2, <1>3, <1>5, MoveEffect
  <2> QED  BY <1>4, <2>1, WriteStore
<1>6. CASE ~Fenced(st, req)
  <2>1. LET new == group'[req.gid][req.shard] IN
          /\ new.num = req.num /\ ~new.owned /\ (new.frozen <=> req.kind = "Freeze")
          /\ new.data = IF req.kind = "Freeze" THEN st.data ELSE <<>>
    <3>1. group'[req.gid][req.shard] = Moved(st, req)  BY <1>2, <1>3, <1>6 DEF DoOp, Moves
    <3>2. CASE req.kind = "Freeze"
      <4>1. Moved(st, req) = [st EXCEPT !.num = req.num, !.owned = FALSE, !.frozen = TRUE]
        BY <3>2 DEF Moved
      <4> QED  BY <1>2, <3>1, <3>2, <4>1 DEF ShardState
    <3>3. CASE req.kind = "Delete"
      <4>1. Moved(st, req) = [data |-> <<>>, owned |-> FALSE, frozen |-> FALSE, num |-> req.num]
        BY <3>3 DEF Moved
      <4> QED  BY <3>1, <3>3, <4>1
    <3> QED  BY <1>2, <3>2, <3>3
  <2>2. st.num <= req.num  BY <1>2, <1>6 DEF Fenced, ShardState
  <2>3. \A g \in Group, s \in Shard :
          group[g][s].num \in Nat /\ group'[g][s].num \in Nat /\ group[g][s].num <= group'[g][s].num
    <3>1. \A g \in Group, s \in Shard : group[g][s].num \in Nat /\ group'[g][s].num \in Nat
      BY DEF TypeOK, GroupTypes
    <3>2. st.num <= group'[req.gid][req.shard].num  BY <2>1, <2>2
    <3> QED  BY <1>3, <3>1, <3>2
  <2>4. FrozenInv'
    <3> SUFFICES ASSUME NEW g \in Group, NEW s \in Shard, group'[g][s].frozen
                 PROVE  /\ group'[g][s].num <= Top
                        /\ Working /\ s >= index[holder] /\ group'[g][s].num = Top =>
                             s = index[holder] /\ g = Source(s)
      BY <1>1 DEF FrozenInv, Working
    <3>1. CASE g # req.gid \/ s # req.shard  BY <3>1, <1>3 DEF StoreInv, FrozenInv
    <3>2. CASE g = req.gid /\ s = req.shard
      <4>1. Working => index[holder] \in Shard /\ index[holder] \in Nat /\ s \in Nat /\ Moving
        BY AtWork, ShardAssumption DEF Shard
      <4> QED  BY <3>2, <4>1, <2>1, <1>2 DEF Sound, Timely, Genuine, Behind, Source
    <3> QED  BY <3>1, <3>2
  <2>5. \A s \in Shard : Free(s) => Untouched(s)'
    BY <1>3 DEF StoreInv, VacantInv, Untouched
  <2>6. \A g \in Group, s \in Shard : group'[g][s].owned => group[g][s].owned  BY <1>3, <2>1
  <2>7. ASSUME NEW g \in Group, NEW s \in Shard, InTransit(s), g = Source(s),
               pc[holder] = "Install" => reply'[holder] = NoReply
        PROVE  /\ FrozenAt(g, s) => FrozenAt(g, s)' /\ group'[g][s].data = group[g][s].data
               /\ group[g][s].owned /\ pc[holder] = "Freeze" => group'[g][s].owned \/ FrozenAt(g, s)'
    <3>1. CASE g # req.gid \/ s # req.shard
      BY <3>1, <1>1, <1>3, <2>6 DEF FrozenAt
    <3>2. CASE g = req.gid /\ s = req.shard
      <4>1. Working /\ s = index[holder] /\ pc[holder] \in {"Freeze", "Install"} /\ Moving
        BY <2>7, AtWork
      <4>2. req.num = Top /\ req.kind = "Freeze"
        <5>1. st.num \in Nat  BY <1>2 DEF ShardState
        <5>2. InTransit(req.shard) /\ req.gid = Source(req.shard)  BY <2>7, <3>2
        <5>3. req.num = Top  BY <5>1, <5>2, <1>2, <2>2 DEF Behind
        <5>4. req.kind # "Delete"  BY <5>3, <3>2, <4>1 DEF Behind
        <5> QED  BY <5>3, <5>4, <1>2
      <4>3. ASSUME FrozenAt(g, s) \/ (group[g][s].owned /\ pc[holder] = "Freeze"), NEW h \in Group
            PROVE  ~group'[h][s].owned
        <5>1. CASE FrozenAt(g, s)  BY <5>1, <2>6 DEF FrozenAt
        <5>2. CASE group[g][s].owned
          BY <5>2, <2>1, <2>6, <3>2 DEF MoveInv, OwnerInv
        <5> QED  BY <4>3, <5>1, <5>2
      <4> QED  BY <4>2, <4>3, <3>2, <2>1, <1>1 DEF FrozenAt
    <3> QED  BY <3>1, <3>2
  <2> QED  BY <1>4, <2>3, <2>4, <2>5, <2>7, StillStore
<1> QED  BY <1>5, <1>6

LEMMA StillHolder ==
  ASSUME holder' = holder,
         Moving => /\ pc'[holder] = pc[holder] /\ index'[holder] = index[holder]
                   /\ target'[holder] = target[holder] /\ current'[holder] = current[holder]
                   /\ moved'[holder] = moved[holder],
         Moving' => Moving, Moving \/ conf' = conf
  PROVE  Still
<1>1. Same  BY SameHolder
<1> QED  BY <1>1 DEF Still

LEMMA BeginStill ==
  ASSUME TypeOK, MoveInv, NEW c \in Controller, Begin(c) \/ Acquire(c) \/ Crash(c) \/ Release(c)
  PROVE  Still /\ UNCHANGED reply
<1>1. UNCHANGED <<group, conf, moved, reply, late>>  BY DEF Begin, Acquire, Crash, Release
<1>2. CASE Begin(c)
  <2>1. /\ holder' = holder /\ pc'[c] = "Acquire" /\ pc[c] = "Idle" /\ UNCHANGED <<current, index>>
        /\ \A d \in Controller \ {c} : pc'[d] = pc[d] /\ target'[d] = target[d]
    BY <1>2 DEF Begin, TypeOK, ControllerTypes
  <2> QED  BY <2>1, <1>1, StillHolder DEF Moving, Busy, Moves
<1>3. CASE Crash(c)
  BY <1>3, <1>1, StillHolder DEF Crash, Moving, Busy
<1>4. CASE Acquire(c) \/ Release(c)
  <2>1. ~Moving
    BY <1>4, ControllerAssumption DEF Acquire, Release, Moving, Busy, Moves, MoveInv, HolderInv
  <2>2. ~Moving'
    BY <1>4, ControllerAssumption DEF Acquire, Release, Moving, Busy, Moves, TypeOK, ControllerTypes
  <2> QED  BY <2>1, <2>2, <1>1 DEF Still, Same, Top, Assigned, InTransit
<1> QED  BY <1>1, <1>2, <1>3, <1>4

LEMMA BeginStore ==
  ASSUME TypeOK, MoveInv, StoreInv, NEW c \in Controller, Begin(c) \/ Acquire(c) \/ Crash(c) \/ Release(c)
  PROVE  StoreInv'
<1>1. UNCHANGED <<group, late>>  BY DEF Begin, Acquire, Crash, Release
<1>2. Still /\ Truthful  BY BeginStill DEF Truthful
<1> DEFINE extra == {}
<1>3. late' \subseteq late \cup extra /\ \A r \in extra : FALSE  BY <1>1
<1> HIDE DEF extra
<1> QED  BY <1>1, <1>2, <1>3, WriteStore

LEMMA ServePublishStore ==
  ASSUME TypeOK, MoveInv, StoreInv, NEW c \in Controller, ServePublish(c)
  PROVE  StoreInv'
<1>1. UNCHANGED <<group, holder, pc, target, current, index, moved, late>> /\ pc[c] = "Publish"
  BY DEF ServePublish
<1>2. holder = c /\ Moving /\ ~Working  BY <1>1 DEF MoveInv, HolderInv, Moving, Busy, Working, Moves
<1>3. Still /\ Truthful  BY <1>1, <1>2, StillHolder DEF Moving, Busy, Truthful
<1> DEFINE extra == {}
<1>4. late' \subseteq late \cup extra /\ \A r \in extra : FALSE  BY <1>1
<1> HIDE DEF extra
<1> QED  BY <1>1, <1>3, <1>4, WriteStore

\* A call is repeated, that of InstallShard only before it is executed.
LEMMA ResendStore ==
  ASSUME InstallsOnce, TypeOK, MoveInv, StoreInv, NEW c \in Controller, Resend(c)
  PROVE  StoreInv'
<1>1. /\ UNCHANGED <<group, conf, holder, pc, target, current, index, moved>>
      /\ reply' = [reply EXCEPT ![c] = NoReply] /\ pc[c] \in Moves \cup {"Publish"}
      /\ pc[c] = "Install" => reply[c] = NoReply
  BY DEF Resend, InstallsOnce
<1>2. reply'[c] = NoReply /\ \A d \in Controller \ {c} : reply'[d] = reply[d]
  BY <1>1 DEF TypeOK, ControllerTypes
<1>3. holder = c  BY <1>1 DEF MoveInv, HolderInv, Moves
<1>4. Still /\ Truthful
  BY <1>1, <1>2, <1>3, StillHolder DEF Moving, Busy, Moves, Working, Truthful
<1> DEFINE extra == IF pc[c] \in Moves /\ Move(c).gid # NoGroup THEN {Move(c)} ELSE {}
<1>5. late' \subseteq late \cup extra  BY DEF Resend, LeaveBehind
<1>6. \A req \in extra : req.kind \in Leaves =>
        /\ Working /\ pc[holder] # "Install" /\ req.kind = pc[holder]
        /\ req.shard = index[holder] /\ req.num = Top
  BY <1>1, <1>3, OwnMoveSound DEF Move, Working, Leaves
<1> HIDE DEF extra
<1> QED  BY <1>1, <1>4, <1>5, <1>6, WriteStore

\* What an access leaves alone.
LEMMA AccessWrites ==
  ASSUME TypeOK, NEW req \in AccessReq, Execute(req)
  PROVE  \A g \in Group, s \in Shard :
           /\ group'[g][s].num = group[g][s].num /\ group'[g][s].owned = group[g][s].owned
           /\ group'[g][s].frozen = group[g][s].frozen
           /\ ~group[g][s].owned => group'[g][s].data = group[g][s].data
<1> DEFINE st == group[req.gid][req.shard]
<1>1. req.gid \in Group /\ req.shard \in Shard /\ st \in ShardState /\ req.kind \notin Moves
  BY DEF AccessReq, TypeOK, GroupTypes, ShardState, Moves
<1>2. /\ group'[req.gid][req.shard] = DoOp(st, req)
      /\ \A g \in Group, s \in Shard : g # req.gid \/ s # req.shard => group'[g][s] = group[g][s]
  BY <1>1, AccessEffect, ExecuteEffect DEF TypeOK
<1>3. \/ DoOp(st, req) = st
      \/ st.owned /\ DoOp(st, req) = [st EXCEPT !.data = Append(st.data, req.by)]
  BY <1>1 DEF DoOp, AccessErr
<1>4. LET new == DoOp(st, req) IN
        /\ new.num = st.num /\ new.owned = st.owned /\ new.frozen = st.frozen
        /\ ~st.owned => new.data = st.data
  BY <1>1, <1>3 DEF ShardState
<1> QED  BY <1>1, <1>2, <1>4

LEMMA ClientStore ==
  ASSUME TypeOK, MoveInv, StoreInv, NEW k \in Client, Invoke(k) \/ ServeCall(k) \/ Recall(k) \/ ClientStep(k)
  PROVE  StoreInv'
<1>1. UNCHANGED <<conf, holder, pc, target, current, index, moved, reply>>
  BY DEF Invoke, ServeCall, Recall, ClientStep, Reroute, Return, controllerVars
<1>2. Still /\ Truthful  BY <1>1, StillHolder DEF Moving, Busy, Truthful
<1> DEFINE extra == IF call[k].kind = "Put" THEN {Request(k)} ELSE {}
<1>3. late' \subseteq late \cup extra
  BY DEF Invoke, ServeCall, Recall, ClientStep, Reroute, Return, LeaveBehind
<1>4. \A req \in extra : req.kind \notin Leaves  BY DEF Request, Leaves
<1> HIDE DEF extra
<1>5. \A g \in Group, s \in Shard :
        /\ group'[g][s].num = group[g][s].num /\ group'[g][s].owned = group[g][s].owned
        /\ group'[g][s].frozen = group[g][s].frozen
        /\ ~group[g][s].owned => group'[g][s].data = group[g][s].data
  <2>1. CASE ServeCall(k)
    BY <2>1, RequestType, AccessWrites DEF ServeCall, TypeOK
  <2>2. CASE ~ServeCall(k)
    BY <2>2 DEF Invoke, Recall, ClientStep, Reroute, Return
  <2> QED  BY <2>1, <2>2
<1> QED  BY <1>2, <1>3, <1>4, <1>5, WriteStore

\* A copy of InstallShard that is too late does nothing.
LEMMA LateInstall ==
  ASSUME InstallsOnce, TypeOK, NEW req \in late, req.kind = "Install", ServeLate(req)
  PROVE  \A g \in Group, s \in Shard : group'[g][s] = group[g][s]
<1> DEFINE st == group[req.gid][req.shard]
<1>1. req \in MoveReq /\ req.gid \in Group /\ req.shard \in Shard
  BY DEF TypeOK, LateTypes, MoveReq
<1>2. Fenced(st, req) /\ Execute(req)  BY DEF InstallsOnce, ServeLate
<1>3. DoOp(st, req) = st  BY <1>2 DEF DoOp, Moves
<1>4. st \in ShardState  BY <1>1 DEF TypeOK, GroupTypes, ShardState
<1> QED  BY <1>1, <1>2, <1>3, <1>4, ExecuteEffect DEF TypeOK

LEMMA ServeLateStore ==
  ASSUME InstallsOnce, TypeOK, TypeOK', MoveInv, StoreInv, NEW req \in late, ServeLate(req)
  PROVE  StoreInv'
<1>1. UNCHANGED <<conf, holder, pc, target, current, index, moved, reply>> /\ Execute(req) /\ late' \subseteq late
  BY DEF ServeLate, controllerVars
<1>2. Still /\ Truthful  BY <1>1, StillHolder DEF Moving, Busy, Truthful
<1>3. CASE req \in MoveReq /\ req.kind \in Leaves
  <2>1. req.kind \in Moves /\ req.shard \in Shard  BY <1>3 DEF MoveReq
  <2>2. Sound(req) /\ Behind(req)  BY <1>3, <2>1 DEF MoveInv, LateInv, Sound, StoreInv, LateMoveInv
  <2>3. ~Free(req.shard)  BY <1>3, <2>1 DEF StoreInv, VacantInv
  <2> QED  BY <1>1, <1>2, <1>3, <2>2, <2>3, LeaveStore
<1>5. CASE req.kind = "Install"
  <2> DEFINE extra == {}
  <2>1. late' \subseteq late \cup extra /\ \A r \in extra : FALSE  BY <1>1
  <2> HIDE DEF extra
  <2>2. \A g \in Group, s \in Shard : group'[g][s] = group[g][s]  BY <1>5, LateInstall
  <2> QED  BY <1>2, <2>1, <2>2, WriteStore
<1>4. CASE req \in AccessReq
  <2> DEFINE extra == {}
  <2>1. late' \subseteq late \cup extra /\ \A r \in extra : FALSE  BY <1>1
  <2> HIDE DEF extra
  <2> QED  BY <1>1, <1>2, <1>4, <2>1, AccessWrites, WriteStore
<1>6. req \in MoveReq => req.kind = "Install" \/ req.kind \in Leaves  BY DEF MoveReq, Moves, Leaves
<1> QED  BY <1>3, <1>4, <1>5, <1>6, LateEffect

\* What the holder's own call does.
LEMMA ServeMoveEffect ==
  ASSUME TypeOK, MoveInv, NEW c \in Controller, ServeMove(c)
  PROVE  /\ holder = c /\ Working /\ Top = target[c].num /\ index[c] \in Shard
         /\ Move(c) \in MoveReq /\ Sound(Move(c)) /\ Execute(Move(c)) /\ late' = late
         /\ Still /\ reply[c] = NoReply /\ reply'[c] # NoReply
         /\ \A g \in Group, s \in Shard : g # Move(c).gid \/ s # index[c] => group'[g][s] = group[g][s]
         /\ LET old == group[Move(c).gid][index[c]]
                new == group'[Move(c).gid][index[c]] IN
              /\ new.num = Top /\ (new.owned <=> pc[c] = "Install") /\ (new.frozen <=> pc[c] = "Freeze")
              /\ pc[c] = "Freeze" => new.data = old.data /\ reply'[c].data = old.data
              /\ pc[c] = "Install" => new.data = moved[c]
<1> DEFINE req == Move(c)
<1> DEFINE st == group[req.gid][index[c]]
<1>1. /\ UNCHANGED <<conf, holder, pc, target, current, index, moved, late>> /\ Execute(req)
      /\ pc[c] \in Moves /\ req.gid # NoGroup /\ reply[c] = NoReply
  BY DEF ServeMove
<1>2. /\ req \in MoveReq /\ Sound(req) /\ holder = c /\ Moving /\ Top = target[c].num
      /\ \A x \in ShardState : (x.num <= Top \/ x.num = 0) => ~Fenced(x, req)
  BY <1>1, OwnMoveSound
<1>3. /\ req.gid \in Group /\ req.shard = index[c] /\ index[c] \in Shard
      /\ req.kind = pc[c] /\ req.num = target[c].num
  BY <1>2 DEF MoveReq, Move
<1>4. st \in ShardState  BY <1>3 DEF TypeOK, GroupTypes, ShardState
<1>5. ~Fenced(st, req)  BY <1>2, <1>3, <1>4 DEF MoveInv, OwnerInv
<1>6. /\ group'[req.gid][index[c]] = DoOp(st, req)
      /\ \A g \in Group, s \in Shard : g # req.gid \/ s # index[c] => group'[g][s] = group[g][s]
  BY <1>1, <1>2, <1>3, <1>4, MoveEffect, ExecuteEffect DEF TypeOK
<1>7. DoOp(st, req) = Moved(st, req)  BY <1>1, <1>3, <1>5 DEF DoOp
<1>8. LET new == DoOp(st, req) IN
        /\ new.num = Top /\ (new.owned <=> pc[c] = "Install") /\ (new.frozen <=> pc[c] = "Freeze")
        /\ pc[c] = "Freeze" => new.data = st.data
        /\ pc[c] = "Install" => new.data = req.data
  <2>1. CASE pc[c] = "Freeze"
    BY <2>1, <1>2, <1>3, <1>4, <1>7 DEF Moved, ShardState
  <2>2. CASE pc[c] = "Install"
    BY <2>2, <1>2, <1>3, <1>7 DEF Moved
  <2>3. CASE pc[c] = "Delete"
    BY <2>3, <1>2, <1>3, <1>7 DEF Moved
  <2> QED  BY <2>1, <2>2, <2>3, <1>1 DEF Moves
<1>9. pc[c] = "Install" => req.data = moved[c]  BY DEF Move
<1>10. reply'[c].err = "OK" /\ (pc[c] = "Freeze" => reply'[c].data = st.data)
  BY <1>5 DEF ServeMove, TypeOK, ControllerTypes
<1>11. Still  BY <1>1, StillHolder DEF Moving, Busy
<1> QED  BY <1>1, <1>2, <1>3, <1>6, <1>8, <1>9, <1>10, <1>11 DEF Working, NoReply

LEMMA ServeMoveStore ==
  ASSUME TypeOK, TypeOK', MoveInv, MoveInv', StoreInv, NEW c \in Controller, ServeMove(c)
  PROVE  StoreInv'
<1> DEFINE j == index[c]
<1>1. /\ holder = c /\ Working /\ Top = target[c].num /\ j \in Shard
      /\ Move(c) \in MoveReq /\ Sound(Move(c)) /\ Execute(Move(c)) /\ late' = late
      /\ Still /\ reply[c] = NoReply /\ reply'[c] # NoReply
      /\ \A g \in Group, s \in Shard : g # Move(c).gid \/ s # j => group'[g][s] = group[g][s]
  BY ServeMoveEffect
<1>2. LET old == group[Move(c).gid][j]
          new == group'[Move(c).gid][j] IN
        /\ new.num = Top /\ (new.owned <=> pc[c] = "Install") /\ (new.frozen <=> pc[c] = "Freeze")
        /\ pc[c] = "Freeze" => new.data = old.data /\ reply'[c].data = old.data
        /\ pc[c] = "Install" => new.data = moved[c]
  BY ServeMoveEffect
<1>3. /\ Move(c).kind = pc[c] /\ Move(c).shard = j /\ Move(c).num = Top /\ Move(c).gid \in Group
      /\ Move(c).gid = IF pc[c] = "Install" THEN target[c].shards[j] ELSE Source(j)
  BY <1>1 DEF Move, MoveReq, Source
<1>4. /\ Top' = Top /\ (Moving' <=> Moving) /\ (Working' <=> Working)
      /\ \A s \in Shard : Assigned(s)' = Assigned(s) /\ (InTransit(s)' <=> InTransit(s))
      /\ Moving => /\ holder' = holder /\ pc'[holder] = pc[holder] /\ index'[holder] = index[holder]
                   /\ target'[holder] = target[holder] /\ moved'[holder] = moved[holder]
                   /\ \A s : Source(s)' = Source(s)
  BY <1>1, StillPlaces
<1>5. Moving /\ j \in Nat  BY <1>1, ShardAssumption DEF Working, Shard
<1>6. CASE pc[c] # "Install"
  <2>1. Behind(Move(c))  BY <1>1, <1>3, <1>5, <1>6 DEF Behind
  <2>2. ~Free(j)
    <3>1. CASE pc[c] = "Delete"
      <4>1. ~InTransit(j) /\ Assigned(j) = target[holder].shards[j]  BY <1>1, <3>1, AtWork
      <4> QED  BY <4>1, <3>1, <1>1 DEF Free, StoreInv, EndsInv
    <3>2. CASE pc[c] # "Delete"
      BY <3>2, <1>1, <1>6, AtWork DEF Free
    <3> QED  BY <3>1, <3>2
  <2>3. Truthful
    <3>1. CASE pc[c] = "Delete"  BY <3>1, <1>1 DEF Truthful
    <3>2. CASE pc[c] = "Freeze"
      <4> SUFFICES ASSUME NEW g \in Group, NEW s \in Shard, s = j, g = Source(s)
                   PROVE  FrozenAt(g, s)' /\ reply'[c].data = group'[g][s].data
        BY <1>1, <3>2 DEF Truthful
      <4>1. g = Move(c).gid  BY <1>3, <3>2
      <4>2. Assigned(s) = Source(s)
        BY <1>1, <1>5, <3>2 DEF Assigned, Source
      <4>3. \A h \in Group : ~group'[h][s].owned
        BY <1>2, <1>4, <3>2, <4>1, <4>2 DEF MoveInv, OwnerInv
      <4> QED  BY <1>2, <1>4, <3>2, <4>1, <4>3 DEF FrozenAt
    <3> QED  BY <3>1, <3>2, <1>1, <1>6 DEF Working, Moves
  <2>4. Move(c).kind \in Leaves  BY <1>1, <1>3, <1>6 DEF Leaves, Working, Moves
  <2> QED  BY <1>1, <1>3, <2>1, <2>2, <2>3, <2>4, LeaveStore
<1>7. CASE pc[c] = "Install"
  <2>1. Truthful  BY <1>1, <1>3, <1>7, GroupAssumption DEF Truthful
  <2>2. FrozenInv'
    <3> SUFFICES ASSUME NEW g \in Group, NEW s \in Shard, group'[g][s].frozen
                 PROVE  /\ group'[g][s].num <= Top
                        /\ Working /\ s >= index[holder] /\ group'[g][s].num = Top =>
                             s = index[holder] /\ g = Source(s)
      BY <1>4 DEF FrozenInv, Working
    <3>1. g # Move(c).gid \/ s # j  BY <1>2, <1>7
    <3> QED  BY <3>1, <1>1 DEF StoreInv, FrozenInv
  <2>3. \A g \in Group, s \in Shard :
          group[g][s].num \in Nat /\ group'[g][s].num \in Nat /\ group[g][s].num <= group'[g][s].num
    <3>1. \A g \in Group, s \in Shard : group[g][s].num \in Nat /\ group'[g][s].num \in Nat
      BY DEF TypeOK, GroupTypes
    <3>2. group[Move(c).gid][j].num <= Top \/ group[Move(c).gid][j].num = 0
      BY <1>1, <1>3 DEF MoveInv, OwnerInv
    <3>3. Top \in Nat  BY <1>2, <1>3, <1>1, <3>1
    <3>4. group[Move(c).gid][j].num <= Top  BY <3>2, <3>3
    <3> QED  BY <1>1, <1>2, <3>1, <3>4
  <2>4. ASSUME NEW s \in Shard, Free(s), Free(s)' PROVE Untouched(s)'
    <3>1. s # j
      <4>1. s = j => InTransit(s)'  BY <1>1, <1>4, <1>7, AtWork
      <4>2. reply'[holder'] # NoReply  BY <1>1, <1>4, <1>5
      <4> QED  BY <4>1, <4>2, <2>4 DEF Free
    <3> QED  BY <3>1, <1>1, <2>4 DEF StoreInv, VacantInv, Untouched
  <2>5. ASSUME NEW g \in Group, NEW s \in Shard, InTransit(s), pc[holder] = "Install" => reply'[holder] = NoReply
        PROVE  FALSE
    BY <2>5, <1>1, <1>7
  <2> DEFINE extra == {}
  <2>6. late' \subseteq late \cup extra /\ \A r \in extra : FALSE  BY <1>1
  <2> HIDE DEF extra
  <2> QED  BY <1>1, <2>1, <2>2, <2>3, <2>4, <2>5, <2>6, StillStore
<1> QED  BY <1>6, <1>7

-----------------------------------------------------------------------------
\* Where a controller goes on

\* No shard is in transit any more.
LEMMA SettledStore ==
  ASSUME StoreInv, UNCHANGED <<group, late>>, ~Working', \A s \in Shard : ~InTransit(s)',
         \A req \in late : req.kind \in Leaves => req.shard \in Shard,
         \A g \in Group, s \in Shard : group[g][s].frozen => group[g][s].num <= Top',
         \A s \in Shard : Assigned(s)' = NoGroup => Free(s)
  PROVE  StoreInv'
<1>1. FrozenInv'  BY DEF FrozenInv
<1>2. LateMoveInv'  BY DEF StoreInv, LateMoveInv, Behind
<1>3. VacantInv'  BY DEF StoreInv, VacantInv, Free, Untouched
<1>4. TransitInv'  BY DEF TransitInv
<1>5. EndsInv'  BY DEF EndsInv
<1> QED  BY <1>1, <1>2, <1>3, <1>4, <1>5 DEF StoreInv

\* The next shard is in transit, if there is one.
LEMMA AdvanceStore ==
  ASSUME TypeOK, TypeOK', StoreInv, NEW c \in Controller, NEW cur \in Config, NEW i \in Nat, Advance(c, cur, i),
         holder = c, current'[c] = cur, UNCHANGED <<group, late, holder, target>>,
         Placed(Mixed(cur, target[c], i)), Aligned(Mixed(cur, target[c], i)),
         \A g \in Group, s \in Shard : group[g][s].frozen =>
           group[g][s].num <= target[c].num /\ (group[g][s].num = target[c].num => s < i),
         \A req \in late : req.kind \in Leaves /\ req.num = target[c].num => req.shard < i,
         \A s \in Shard : Mixed(cur, target[c], i)[s] = NoGroup => Free(s)
  PROVE  StoreInv'
<1> DEFINE asg == Mixed(cur, target[c], i)
<1>1. /\ Moving' /\ Top' = target[c].num /\ reply'[c] = NoReply /\ moved'[c] = <<>>
      /\ \/ pc'[c] = "Publish" /\ \A s \in Shard : Assigned(s)' = asg[s] /\ ~InTransit(s)'
         \/ \E s \in Shard :
              /\ s >= i /\ cur.shards[s] # target[c].shards[s] /\ asg[s] = cur.shards[s]
              /\ index'[c] = s /\ pc'[c] = IF cur.shards[s] = NoGroup THEN "Install" ELSE "Freeze"
              /\ InTransit(s)' /\ (cur.shards[s] # NoGroup => Assigned(s)' = cur.shards[s])
              /\ \A r \in Shard \ {s} : Assigned(r)' = asg[r] /\ ~InTransit(r)'
  BY AdvancePlaces
<1>2. \A s \in Shard : asg[s] = NoGroup => Free(s)  OBVIOUS
<1>3. \A g \in Group, s \in Shard : group[g][s].owned <=> g = asg[s]  BY DEF Placed
<1>4. \A req \in late : req.kind \in Leaves =>
        req.num < group[req.gid][req.shard].num \/ req.gid # asg[req.shard]
  BY DEF Aligned, Leaves, Moves
<1> HIDE DEF asg
<1>5. \A req \in late : req.kind \in Leaves => req.shard \in Shard /\ req.gid \in Group
  BY DEF TypeOK, LateTypes, Moves, Leaves
<1>6. holder' = c /\ \A s : Source(s)' = cur.shards[s]  BY DEF Source
<1>7. CASE pc'[c] = "Publish" /\ \A s \in Shard : Assigned(s)' = asg[s] /\ ~InTransit(s)'
  <2>1. ~Working'  BY <1>6, <1>7 DEF Working, Moves
  <2> QED  BY <1>1, <1>2, <1>5, <1>7, <2>1, SettledStore
<1>8. CASE \E s \in Shard :
             /\ s >= i /\ cur.shards[s] # target[c].shards[s] /\ asg[s] = cur.shards[s]
             /\ index'[c] = s /\ pc'[c] = IF cur.shards[s] = NoGroup THEN "Install" ELSE "Freeze"
             /\ InTransit(s)' /\ (cur.shards[s] # NoGroup => Assigned(s)' = cur.shards[s])
             /\ \A r \in Shard \ {s} : Assigned(r)' = asg[r] /\ ~InTransit(r)'
  <2>1. PICK s \in Shard :
             /\ s >= i /\ cur.shards[s] # target[c].shards[s] /\ asg[s] = cur.shards[s]
             /\ index'[c] = s /\ pc'[c] = IF cur.shards[s] = NoGroup THEN "Install" ELSE "Freeze"
             /\ InTransit(s)' /\ (cur.shards[s] # NoGroup => Assigned(s)' = cur.shards[s])
             /\ \A r \in Shard \ {s} : Assigned(r)' = asg[r] /\ ~InTransit(r)'
    BY <1>8
  <2>2. \A r \in Shard : r \in Nat  BY ShardAssumption DEF Shard
  <2>3. FrozenInv'
    <3> SUFFICES ASSUME NEW g \in Group, NEW r \in Shard, group[g][r].frozen
                 PROVE  group[g][r].num <= Top' /\ ~(r >= s /\ group[g][r].num = Top')
      BY <1>6, <2>1 DEF FrozenInv
    <3> QED  BY <1>1, <2>1, <2>2
  <2>4. LateMoveInv'
    <3> SUFFICES ASSUME NEW req \in late, req.kind \in Leaves
                 PROVE  /\ req.num = Top' => req.shard < s
                        /\ InTransit(req.shard)' /\ req.gid = cur.shards[req.shard] =>
                             req.num < group[req.gid][req.shard].num
      BY <1>5, <1>6, <2>1, <2>2 DEF LateMoveInv, Behind
    <3>1. req.num = Top' => req.shard < s  BY <1>1, <1>5, <2>1, <2>2
    <3>2. InTransit(req.shard)' => req.shard = s  BY <1>5, <2>1
    <3> QED  BY <1>4, <1>5, <2>1, <3>1, <3>2
  <2>5. VacantInv'
    <3> SUFFICES ASSUME NEW r \in Shard, Free(r)' PROVE Free(r)
      BY DEF StoreInv, VacantInv, Untouched
    <3>1. CASE r = s  BY <3>1, <1>2, <1>6, <2>1 DEF Free
    <3>2. CASE r # s  BY <3>2, <1>2, <2>1 DEF Free
    <3> QED  BY <3>1, <3>2
  <2>6. TransitInv'
    <3> SUFFICES ASSUME NEW r \in Shard, NEW g \in Group, InTransit(r)', g = cur.shards[r]
                 PROVE  /\ pc'[c] = "Freeze" /\ reply'[c] = NoReply /\ group[g][r].owned
      BY <1>6 DEF TransitInv
    <3>1. r = s  BY <2>1
    <3> QED  BY <3>1, <1>1, <1>3, <2>1, GroupAssumption
  <2>7. EndsInv'  BY <1>1, <1>6, <2>1 DEF EndsInv
  <2> QED  BY <2>3, <2>4, <2>5, <2>6, <2>7 DEF StoreInv
<1> QED  BY <1>1, <1>7, <1>8

LEMMA ReadStore ==
  ASSUME TypeOK, TypeOK', MoveInv, StoreInv, NEW c \in Controller, Read(c)
  PROVE  StoreInv'
<1>1. pc[c] = "Read" /\ UNCHANGED <<group, conf, holder, target, late>>  BY DEF Read
<1>2. holder = c /\ ~Moving  BY <1>1 DEF MoveInv, HolderInv, Moving, Busy, Moves
<1>3. CASE Enter(c, "Release", <<>>) /\ UNCHANGED current
  <2>1. ~Moving'  BY <1>1, <1>2, <1>3 DEF Enter, TypeOK, ControllerTypes, Moving, Busy, Moves
  <2>2. Still /\ Truthful
    BY <1>1, <1>2, <2>1 DEF Still, Same, Top, Assigned, InTransit, Truthful, Working
  <2> DEFINE extra == {}
  <2>3. late' \subseteq late \cup extra /\ \A r \in extra : FALSE  BY <1>1
  <2> HIDE DEF extra
  <2> QED  BY <1>1, <2>2, <2>3, WriteStore
<1>4. CASE ~Superseded(c) /\ current' = [current EXCEPT ![c] = conf] /\ Advance(c, conf, 0)
  <2> DEFINE asg == Mixed(conf, target[c], 0)
  <2>1. /\ conf \in Config /\ conf.num < target[c].num /\ Placed(asg) /\ Aligned(asg)
        /\ \A s \in Shard : asg[s] = Assigned(s) /\ ~InTransit(s)
        /\ Top = conf.num /\ \A req \in late : req.kind \in Moves => req.num < target[c].num
    BY <1>1, <1>4, ReadMixed
  <2>2. current'[c] = conf  BY <1>4 DEF TypeOK, ControllerTypes
  <2>3. \A g \in Group, s \in Shard : group[g][s].frozen => group[g][s].num < target[c].num
    <3>1. \A g \in Group, s \in Shard : group[g][s].num \in Nat  BY DEF TypeOK, GroupTypes
    <3>2. conf.num \in Nat \cup {-1} /\ target[c].num \in Nat \cup {-1}
      BY DEF TypeOK, ControllerTypes, Config
    <3> QED  BY <2>1, <3>1, <3>2 DEF StoreInv, FrozenInv
  <2>4. \A s \in Shard : asg[s] = NoGroup => Free(s)  BY <2>1 DEF Free
  <2>5. \A req \in late : req.kind \in Leaves => req.num # target[c].num
    <3>1. \A req \in late : req.kind \in Leaves => req.num \in Nat /\ req.num < target[c].num
      BY <2>1 DEF TypeOK, LateTypes, Moves, Leaves
    <3>2. target[c].num \in Nat \cup {-1}  BY DEF TypeOK, ControllerTypes, Config
    <3> QED  BY <3>1, <3>2
  <2>6. \A g \in Group, s \in Shard : group[g][s].num \in Nat /\ target[c].num \in Nat \cup {-1}
    BY DEF TypeOK, GroupTypes, ControllerTypes, Config
  <2>7. \A g \in Group, s \in Shard : group[g][s].frozen =>
          group[g][s].num <= target[c].num /\ (group[g][s].num = target[c].num => s < 0)
    BY <2>3, <2>6
  <2> HIDE DEF asg
  <2> QED  BY <1>1, <1>2, <1>4, <2>1, <2>2, <2>4, <2>5, <2>7, AdvanceStore DEF asg
<1> QED  BY <1>3, <1>4 DEF Read

\* The shard in transit has been frozen, or installed.
LEMMA EnterStore ==
  ASSUME TypeOK, MoveInv, StoreInv, NEW c \in Controller, NEW state \in {"Install", "Delete"}, NEW data,
         Enter(c, state, data), reply[c].err = "OK", UNCHANGED <<group, conf, holder, target, current, late>>,
         \/ pc[c] = "Freeze" /\ state = "Install" /\ data = reply[c].data
         \/ pc[c] = "Install" /\ state = "Delete" /\ current[c].shards[index[c]] # NoGroup
  PROVE  StoreInv'
<1> DEFINE j == index[c]
<1>1. /\ pc'[c] = state /\ reply'[c] = NoReply /\ moved'[c] = data /\ UNCHANGED index
  BY DEF Enter, TypeOK, ControllerTypes
<1>2. holder = c /\ Working /\ reply[c] # NoReply
  BY DEF MoveInv, HolderInv, Moving, Busy, Working, Moves, NoReply
<1>3. /\ j \in Shard /\ j \in Nat /\ Source(j) # target[c].shards[j] /\ Source(j) # NoGroup
      /\ InTransit(j) /\ Moving
  BY <1>2, AtWork, ShardAssumption DEF Source, Shard
<1>4. Moving' /\ Working' /\ Top' = Top /\ \A s : Source(s)' = Source(s)
  BY <1>1, <1>2, <1>3 DEF Moving, Busy, Working, Moves, Top, Source
<1>5. \A s \in Shard : s # j => Assigned(s)' = Assigned(s) /\ ~InTransit(s)' /\ ~InTransit(s)
  BY <1>1, <1>2, <1>3, <1>4 DEF Assigned, InTransit
<1>6. \A s \in Shard : s = j => (InTransit(s)' <=> state = "Install") /\ Assigned(s)' = target[c].shards[s]
  BY <1>1, <1>2, <1>3, <1>4 DEF Assigned, InTransit
<1>7. \A s \in Shard : InTransit(s)' => InTransit(s)  BY <1>3, <1>5
<1>8. FrozenInv'  BY <1>1, <1>2, <1>4 DEF StoreInv, FrozenInv
<1>9. LateMoveInv'
  <2> SUFFICES ASSUME NEW req \in late, req.kind \in Leaves
               PROVE  /\ req.num = Top =>
                           /\ req.shard <= j
                           /\ req.shard = j /\ req.kind = "Delete" => pc'[c] = "Delete"
                      /\ InTransit(req.shard)' /\ req.num # Top /\ req.gid = Source(req.shard) =>
                           req.num < group[req.gid][req.shard].num
    BY <1>1, <1>2, <1>4 DEF LateMoveInv, Behind
  <2>1. req.shard \in Shard  BY DEF TypeOK, LateTypes, Moves, Leaves
  <2> QED  BY <2>1, <1>2, <1>7 DEF StoreInv, LateMoveInv, Behind
<1>10. VacantInv'
  <2> SUFFICES ASSUME NEW s \in Shard, Free(s)' PROVE Free(s)
    BY DEF StoreInv, VacantInv, Untouched
  <2>1. s # j  BY <1>2, <1>3, <1>4, <1>6 DEF Free, StoreInv, EndsInv
  <2> QED  BY <2>1, <1>5 DEF Free
<1>11. TransitInv'
  <2> SUFFICES ASSUME NEW s \in Shard, NEW g \in Group, InTransit(s)', g = Source(s)
               PROVE  pc'[c] # "Freeze" /\ FrozenAt(g, s)' /\ moved'[c] = group[g][s].data
    BY <1>2, <1>4 DEF TransitInv
  <2>1. s = j /\ state = "Install"  BY <1>5, <1>6
  <2>2. FrozenAt(g, s) /\ reply[c].data = group[g][s].data
    BY <2>1, <1>2, <1>3 DEF StoreInv, TransitInv
  <2> QED  BY <2>1, <2>2, <1>1, <1>4 DEF FrozenAt
<1>12. EndsInv'
  <2>1. pc[c] = "Install" => target[c].shards[j] # NoGroup  BY <1>2 DEF StoreInv, EndsInv
  <2>2. holder' = c /\ index'[c] = j /\ Source(j)' # NoGroup
    BY <1>1, <1>2, <1>3, <1>4 DEF Source
  <2> QED  BY <2>1, <2>2, <1>1, <1>2, <1>3, <1>4 DEF EndsInv, Source
<1> QED  BY <1>8, <1>9, <1>10, <1>11, <1>12 DEF StoreInv

LEMMA ProceedStore ==
  ASSUME TypeOK, TypeOK', MoveInv, StoreInv, NEW c \in Controller, Proceed(c)
  PROVE  StoreInv'
<1> DEFINE j == index[c]
<1>1. UNCHANGED <<group, conf, holder, target, current, late>> /\ reply[c] # NoReply  BY DEF Proceed
<1>2. pc[c] \in Moves \cup {"Publish"}  BY <1>1 DEF TypeOK, ControllerTypes
<1>3. holder = c /\ Moving /\ Busy(c)
  BY <1>2 DEF MoveInv, HolderInv, Moving, Busy, Moves
<1>4. \A req \in late : req.kind \in Leaves => req.shard \in Shard /\ req.num \in Nat /\ Timely(req)
  BY DEF TypeOK, LateTypes, Moves, Leaves, MoveInv, LateInv
<1>5. CASE Enter(c, "Release", <<>>) /\ (reply[c].err # "OK" \/ pc[c] = "Publish")
  <2>1. pc'[c] = "Release"  BY <1>5 DEF Enter, TypeOK, ControllerTypes
  <2>2. reply[c].err # "none"
    BY <1>1, <1>2, <1>5 DEF TypeOK, ControllerTypes, NoReply, Enter, Proceed, Moves
  <2>3. pc[c] = "Publish" /\ conf = target[c]
    BY <1>2, <1>3, <1>5, <2>2 DEF MoveInv, HolderInv, Busy, Moves
  <2>4. ~Moving' /\ ~Working'  BY <1>1, <1>3, <2>1 DEF Moving, Busy, Working, Moves
  <2>5. Top' = Top /\ \A s \in Shard : Assigned(s)' = Assigned(s) /\ ~InTransit(s)' /\ ~InTransit(s)
    BY <1>1, <1>3, <2>3, <2>4 DEF Top, Assigned, InTransit
  <2>6. \A g \in Group, s \in Shard : group[g][s].frozen => group[g][s].num <= Top'
    BY <2>5 DEF StoreInv, FrozenInv
  <2>7. \A s \in Shard : Assigned(s)' = NoGroup => Free(s)  BY <2>5 DEF Free
  <2> QED  BY <1>1, <1>4, <2>4, <2>5, <2>6, <2>7, SettledStore
<1>6. CASE reply[c].err = "OK" /\ pc[c] = "Freeze" /\ Enter(c, "Install", reply[c].data)
  BY <1>1, <1>6, EnterStore
<1>7. CASE reply[c].err = "OK" /\ pc[c] = "Install" /\ current[c].shards[j] # NoGroup /\ Enter(c, "Delete", <<>>)
  BY <1>1, <1>7, EnterStore
<1>8. CASE /\ reply[c].err = "OK" /\ Advance(c, current[c], j + 1)
           /\ pc[c] = "Delete" \/ (pc[c] = "Install" /\ current[c].shards[j] = NoGroup)
  <2> DEFINE asg == Mixed(current[c], target[c], j + 1)
  <2>1. Finished(c) /\ Working  BY <1>3, <1>8 DEF Finished, Working, Moves
  <2>2. /\ Top = target[c].num /\ j \in Shard /\ Placed(asg) /\ Aligned(asg)
        /\ \A s \in Shard : Assigned(s) = asg[s] /\ (InTransit(s) => s = j /\ pc[c] = "Install")
    BY <2>1, ProceedMixed
  <2>3. \A s \in Shard : s \in Nat  BY ShardAssumption DEF Shard
  <2>4. current'[c] = current[c] /\ j + 1 \in Nat /\ current[c] \in Config
    BY <1>1, <2>2, <2>3 DEF TypeOK, ControllerTypes
  <2>5. \A g \in Group, s \in Shard : group[g][s].frozen =>
          group[g][s].num <= target[c].num /\ (group[g][s].num = target[c].num => s < j + 1)
    BY <1>3, <2>1, <2>2, <2>3 DEF StoreInv, FrozenInv
  <2>6. \A req \in late : req.kind \in Leaves /\ req.num = target[c].num => req.shard < j + 1
    <3>1. \A req \in late : req.kind \in Leaves => req.shard \in Shard /\ req.shard \in Nat
      BY <2>3 DEF TypeOK, LateTypes, Moves, Leaves
    <3>2. j \in Nat  BY <2>2, <2>3
    <3> QED  BY <1>3, <1>4, <2>1, <2>2, <3>1, <3>2 DEF StoreInv, LateMoveInv, Behind
  <2>7. \A s \in Shard : asg[s] = NoGroup => Free(s)
    <3> SUFFICES ASSUME NEW s \in Shard, Assigned(s) = NoGroup PROVE Free(s)  BY <2>2
    <3>1. CASE ~InTransit(s)  BY <3>1 DEF Free
    <3>2. CASE InTransit(s)
      <4>1. s = j /\ pc[c] = "Install" /\ current[c].shards[j] = NoGroup  BY <1>8, <2>2, <3>2
      <4>2. Assigned(s) = target[c].shards[j]  BY <1>3, <2>2, <2>3, <4>1 DEF Assigned
      <4> QED  BY <1>3, <2>1, <4>1, <4>2, AtWork DEF Source
    <3> QED  BY <3>1, <3>2
  <2> HIDE DEF asg
  <2> QED  BY <1>1, <1>3, <1>8, <2>2, <2>4, <2>5, <2>6, <2>7, AdvanceStore DEF asg
<1> QED  BY <1>5, <1>6, <1>7, <1>8 DEF Proceed

-----------------------------------------------------------------------------
LEMMA InitStore == Init => StoreInv
<1> SUFFICES ASSUME Init PROVE StoreInv  OBVIOUS
<1>1. holder = Nobody /\ ~Moving /\ ~Working  BY ControllerAssumption DEF Init, Moving, Working
<1>2. FrozenInv /\ LateMoveInv /\ EndsInv  BY <1>1 DEF Init, FrozenInv, LateMoveInv, EndsInv
<1>3. VacantInv  BY DEF Init, VacantInv, Untouched
<1>4. TransitInv  BY <1>1 DEF TransitInv, InTransit
<1> QED  BY <1>2, <1>3, <1>4 DEF StoreInv

LEMMA NextStore ==
  TypeOK /\ TypeOK' /\ MoveInv /\ MoveInv' /\ StoreInv /\ [Next /\ InstallsOnce]_vars => StoreInv'
<1> SUFFICES ASSUME TypeOK, TypeOK', MoveInv, MoveInv', StoreInv, [Next /\ InstallsOnce]_vars
             PROVE  StoreInv'
  OBVIOUS
<1>1. CASE UNCHANGED vars
  <2>1. UNCHANGED <<group, conf, holder, pc, target, current, index, moved, reply, late>>
    BY <1>1 DEF vars, controllerVars
  <2>2. Still /\ Truthful  BY <2>1, StillHolder DEF Moving, Busy, Truthful
  <2> DEFINE extra == {}
  <2>3. late' \subseteq late \cup extra /\ \A r \in extra : FALSE  BY <2>1
  <2> HIDE DEF extra
  <2> QED  BY <2>1, <2>2, <2>3, WriteStore
<1>2. CASE Next /\ InstallsOnce
  BY <1>2, BeginStore, ReadStore, ProceedStore, ServeMoveStore, ServePublishStore, ResendStore,
     ClientStore, ServeLateStore DEF Next, ControllerStep
<1> QED  BY <1>1, <1>2

\* The executions in which InstallShard takes effect once are executions of the system.
LEMMA OnceIsSpec == OnceSpec => Spec
<1>1. [Next /\ InstallsOnce]_vars => [Next]_vars  OBVIOUS
<1> QED  BY <1>1, PTL DEF OnceSpec, Spec

\* As long as InstallShard takes effect once, a shard's data is in one place, and
\* nothing that is late can reach it there.
THEOREM DataInPlace == OnceSpec => []StoreInv
<1>1. Init => StoreInv  BY InitStore
<1>2. TypeOK /\ TypeOK' /\ MoveInv /\ MoveInv' /\ StoreInv /\ [Next /\ InstallsOnce]_vars => StoreInv'
  BY NextStore
<1> QED  BY <1>1, <1>2, OnceIsSpec, TypeCorrect, MovesInOrder, PTL DEF OnceSpec

-----------------------------------------------------------------------------
\* The data of a shard

StoreSafe == TypeOK /\ MoveInv /\ StoreInv

\* A copy is on its way.
Carried(s) == InTransit(s) /\ pc[holder] = "Install" /\ reply[holder] = NoReply

Held(s) ==
  IF Carried(s) THEN moved[holder]
  ELSE IF Assigned(s) = NoGroup THEN <<>> ELSE group[Assigned(s)][s].data

DataFound == \A s \in Shard : Data(s) = Held(s)

LEMMA AssignedTypes ==
  ASSUME TypeOK, NEW s \in Shard
  PROVE  /\ Assigned(s) \in Group \cup {NoGroup}
         /\ Moving => Source(s) \in Group \cup {NoGroup} /\ target[holder].shards[s] \in Group \cup {NoGroup}
<1>1. conf.shards[s] \in Group \cup {NoGroup}  BY DEF TypeOK, ControllerTypes, Config, Assignment
<1>2. Moving => Source(s) \in Group \cup {NoGroup} /\ target[holder].shards[s] \in Group \cup {NoGroup}
  <2> SUFFICES ASSUME Moving
               PROVE  Source(s) \in Group \cup {NoGroup} /\ target[holder].shards[s] \in Group \cup {NoGroup}
    OBVIOUS
  <2>1. current[holder] \in Config /\ target[holder] \in Config  BY DEF Moving, TypeOK, ControllerTypes
  <2> QED  BY <2>1 DEF Source, Config, Assignment
<1> QED  BY <1>1, <1>2 DEF Assigned, Source

\* Home is where the owner is, or the source of a shard that nobody owns in transit.
LEMMA HomeAt ==
  ASSUME TypeOK, MoveInv, StoreInv, NEW s \in Shard, NEW g \in Group,
         group[g][s].owned \/ (InTransit(s) /\ g = Source(s) /\ FrozenAt(g, s))
  PROVE  Home(s) = g
<1> DEFINE P(x) == \/ group[x][s].owned
                   \/ /\ \A h \in Group : ~group[h][s].owned
                      /\ \A h \in Group : group[h][s].frozen =>
                           group[x][s].frozen /\ group[h][s].num <= group[x][s].num
<1>1. P(g)  BY DEF FrozenAt, StoreInv, FrozenInv
<1>2. ASSUME NEW x \in Group, P(x) PROVE x = g
  <2>1. CASE group[g][s].owned  BY <1>2, <2>1 DEF MoveInv, OwnerInv
  <2>2. CASE InTransit(s) /\ g = Source(s) /\ FrozenAt(g, s)
    <3>1. group[x][s].frozen /\ Top <= group[x][s].num /\ group[x][s].num <= Top
      BY <1>2, <2>2 DEF FrozenAt, StoreInv, FrozenInv
    <3>2. group[x][s].num \in Nat /\ Top \in Nat  BY <2>2 DEF FrozenAt, TypeOK, GroupTypes
    <3>3. Working /\ s = index[holder] /\ s >= index[holder]
      BY <2>2, AtWork, ShardAssumption DEF Shard
    <3> QED  BY <2>2, <3>1, <3>2, <3>3 DEF StoreInv, FrozenInv
  <2> QED  BY <2>1, <2>2
<1>3. Home(s) = CHOOSE x \in Group : P(x)  BY DEF Home
<1> HIDE DEF P
<1> QED  BY <1>1, <1>2, <1>3

LEMMA HomeFree ==
  ASSUME Group # {}, NEW s \in Shard, Untouched(s)
  PROVE  Data(s) = <<>>
<1> DEFINE P(x) == \/ group[x][s].owned
                   \/ /\ \A h \in Group : ~group[h][s].owned
                      /\ \A h \in Group : group[h][s].frozen =>
                           group[x][s].frozen /\ group[h][s].num <= group[x][s].num
<1>1. \A x \in Group : P(x)  BY DEF Untouched
<1>2. Home(s) = CHOOSE x \in Group : P(x)  BY DEF Home
<1> HIDE DEF P
<1>3. Home(s) \in Group  BY <1>1, <1>2
<1> QED  BY <1>3 DEF Data, Untouched

\* The invariants say where to look.
LEMMA DataIsFound ==
  ASSUME Group # {}
  PROVE  StoreSafe => DataFound
<1> SUFFICES ASSUME TypeOK, MoveInv, StoreInv, NEW s \in Shard PROVE Data(s) = Held(s)
  BY DEF StoreSafe, DataFound
<1>1. CASE ~InTransit(s)
  <2>1. CASE Assigned(s) = NoGroup
    BY <1>1, <2>1, HomeFree DEF Held, Carried, Free, StoreInv, VacantInv
  <2>2. CASE Assigned(s) # NoGroup
    <3>1. Assigned(s) \in Group  BY <2>2, AssignedTypes
    <3>2. group[Assigned(s)][s].owned  BY <3>1, <1>1 DEF MoveInv, OwnerInv
    <3> QED  BY <1>1, <2>2, <3>1, <3>2, HomeAt DEF Held, Carried, Data
  <2> QED  BY <2>1, <2>2
<1>2. CASE InTransit(s)
  <2>1. /\ Working /\ Moving /\ holder \in Controller /\ s = index[holder] /\ pc[holder] \in {"Freeze", "Install"}
        /\ Source(s) \in Group \cup {NoGroup} /\ target[holder].shards[s] \in Group \cup {NoGroup}
        /\ Source(s) = NoGroup => pc[holder] = "Install"
    BY <1>2, AtWork, AssignedTypes
  <2>2. Assigned(s) = IF pc[holder] = "Freeze" THEN Source(s) ELSE target[holder].shards[s]
    <3>1. s \in Nat  BY ShardAssumption DEF Shard
    <3> QED  BY <2>1, <3>1 DEF Assigned, Source
  <2>3. CASE pc[holder] = "Freeze"
    <3>1. Source(s) \in Group  BY <2>1, <2>3
    <3>2. group[Source(s)][s].owned \/ FrozenAt(Source(s), s)
      BY <1>2, <2>3, <3>1 DEF StoreInv, TransitInv
    <3>3. Home(s) = Source(s)  BY <1>2, <3>1, <3>2, HomeAt
    <3> QED  BY <2>2, <2>3, <3>1, <3>3, GroupAssumption DEF Held, Carried, Data
  <2>4. CASE pc[holder] = "Install" /\ reply[holder] = NoReply
    <3>1. Held(s) = moved[holder]  BY <1>2, <2>4 DEF Held, Carried
    <3>2. CASE Source(s) = NoGroup
      <4>1. Untouched(s)  BY <1>2, <2>4, <3>2 DEF Free, StoreInv, VacantInv
      <4>2. moved[holder] = <<>>  BY <2>1, <3>2 DEF StoreInv, EndsInv
      <4> QED  BY <3>1, <4>1, <4>2, HomeFree
    <3>3. CASE Source(s) \in Group
      <4>1. FrozenAt(Source(s), s) /\ moved[holder] = group[Source(s)][s].data
        BY <1>2, <2>4, <3>3 DEF StoreInv, TransitInv
      <4>2. Home(s) = Source(s)  BY <1>2, <3>3, <4>1, HomeAt
      <4> QED  BY <3>1, <4>1, <4>2 DEF Data
    <3> QED  BY <2>1, <3>2, <3>3
  <2>5. CASE pc[holder] = "Install" /\ reply[holder] # NoReply
    <3>1. Assigned(s) = target[holder].shards[s] /\ Assigned(s) \in Group
      BY <2>1, <2>2, <2>5 DEF StoreInv, EndsInv
    <3>2. reply[holder].err = "OK"
      BY <2>1, <2>5 DEF TypeOK, ControllerTypes, MoveInv, HolderInv, Moves
    <3>3. group[Assigned(s)][s].owned
      BY <2>1, <2>5, <3>1, <3>2 DEF MoveInv, AnsweredInv, Done
    <3>4. Home(s) = Assigned(s)  BY <3>1, <3>3, HomeAt
    <3> QED  BY <2>5, <3>1, <3>4, GroupAssumption DEF Held, Carried, Data
  <2> QED  BY <2>1, <2>3, <2>4, <2>5
<1> QED  BY <1>1, <1>2

-----------------------------------------------------------------------------
\* What the steps do to it

HeldSame == \A s \in Shard : Held(s)' = Held(s)

\* No shard's data is written or carried any further.
LEMMA StillHeld ==
  ASSUME TypeOK, Still, Moving /\ pc[holder] = "Install" => reply'[holder] = reply[holder],
         \A s \in Shard : Assigned(s) \in Group /\ ~Carried(s) =>
           group'[Assigned(s)][s].data = group[Assigned(s)][s].data
  PROVE  HeldSame
<1> SUFFICES ASSUME NEW s \in Shard PROVE Held(s)' = Held(s)  BY DEF HeldSame
<1>1. /\ Assigned(s)' = Assigned(s) /\ (InTransit(s)' <=> InTransit(s)) /\ (InTransit(s) => Moving)
      /\ Moving => holder' = holder /\ pc'[holder] = pc[holder] /\ moved'[holder] = moved[holder]
  BY StillPlaces DEF InTransit
<1>2. Carried(s)' <=> Carried(s)  BY <1>1 DEF Carried
<1>3. CASE Carried(s)  BY <1>1, <1>2, <1>3 DEF Held, Carried
<1>4. CASE ~Carried(s)  BY <1>1, <1>2, <1>4, AssignedTypes DEF Held
<1> QED  BY <1>3, <1>4

LEMMA BeginHeld ==
  ASSUME TypeOK, MoveInv, StoreInv, NEW c \in Controller, Begin(c) \/ Acquire(c) \/ Crash(c) \/ Release(c)
  PROVE  HeldSame
<1>1. UNCHANGED <<group, reply>>  BY DEF Begin, Acquire, Crash, Release
<1>2. Still  BY BeginStill
<1> QED  BY <1>1, <1>2, StillHeld

LEMMA ServePublishHeld ==
  ASSUME TypeOK, MoveInv, NEW c \in Controller, ServePublish(c)
  PROVE  HeldSame
<1>1. UNCHANGED <<group, holder, pc, target, current, index, moved, late>> /\ pc[c] = "Publish"
  BY DEF ServePublish
<1>2. holder = c /\ Moving  BY <1>1 DEF MoveInv, HolderInv, Moving, Busy
<1>3. Still  BY <1>1, <1>2, StillHolder DEF Moving, Busy
<1> QED  BY <1>1, <1>2, <1>3, StillHeld

LEMMA ResendHeld ==
  ASSUME InstallsOnce, TypeOK, MoveInv, NEW c \in Controller, Resend(c)
  PROVE  HeldSame
<1>1. /\ UNCHANGED <<group, conf, holder, pc, target, current, index, moved>>
      /\ reply' = [reply EXCEPT ![c] = NoReply] /\ pc[c] \in Moves \cup {"Publish"}
      /\ pc[c] = "Install" => reply[c] = NoReply
  BY DEF Resend, InstallsOnce
<1>2. holder = c  BY <1>1 DEF MoveInv, HolderInv, Moves
<1>3. Still  BY <1>1, StillHolder DEF Moving, Busy
<1>4. reply'[c] = NoReply  BY <1>1 DEF TypeOK, ControllerTypes
<1> QED  BY <1>1, <1>2, <1>3, <1>4, StillHeld

\* A client's request writes where the shard is owned, and there only.
Writes(st, req) == req.kind = "Put" /\ AccessErr(st, req) = "OK"

LEMMA AccessHeld ==
  ASSUME TypeOK, MoveInv, StoreInv, NEW req \in AccessReq, Execute(req),
         UNCHANGED <<conf, holder, controllerVars>>
  PROVE  LET st == group[req.gid][req.shard] IN
         /\ st.owned => Held(req.shard) = st.data
         /\ \A s \in Shard :
              Held(s)' = IF s = req.shard /\ Writes(st, req) THEN Append(Held(s), req.by) ELSE Held(s)
<1> DEFINE st == group[req.gid][req.shard]
<1>1. req.gid \in Group /\ req.shard \in Shard /\ st \in ShardState /\ req.kind \notin Moves
  BY DEF AccessReq, TypeOK, GroupTypes, ShardState, Moves
<1>2. /\ group'[req.gid][req.shard] = DoOp(st, req)
      /\ \A g \in Group, s \in Shard : g # req.gid \/ s # req.shard => group'[g][s] = group[g][s]
  BY <1>1, AccessEffect, ExecuteEffect DEF TypeOK
<1>3. /\ Writes(st, req) => st.owned /\ DoOp(st, req).data = Append(st.data, req.by)
      /\ ~Writes(st, req) => DoOp(st, req) = st
  BY <1>1 DEF DoOp, Writes, AccessErr, ShardState
<1>4. Still /\ reply' = reply  BY StillHolder DEF controllerVars, Moving, Busy
<1>5. /\ Moving => holder' = holder /\ pc'[holder] = pc[holder] /\ moved'[holder] = moved[holder]
      /\ \A s \in Shard : Assigned(s)' = Assigned(s) /\ (InTransit(s)' <=> InTransit(s)) /\ (InTransit(s) => Moving)
  BY <1>4, StillPlaces DEF InTransit
<1>6. st.owned => req.gid = Assigned(req.shard) /\ Assigned(req.shard) # NoGroup /\ ~Carried(req.shard)
  <2> SUFFICES ASSUME st.owned
               PROVE  req.gid = Assigned(req.shard) /\ Assigned(req.shard) # NoGroup /\ ~Carried(req.shard)
    OBVIOUS
  <2>1. req.gid = Assigned(req.shard)  BY <1>1 DEF MoveInv, OwnerInv
  <2>2. ASSUME Carried(req.shard) PROVE FALSE
    <3>1. InTransit(req.shard) /\ pc[holder] = "Install" /\ reply[holder] = NoReply  BY <2>2 DEF Carried
    <3>2. Source(req.shard) \in Group \cup {NoGroup}  BY <1>1, <1>5, <3>1, AssignedTypes
    <3>3. CASE Source(req.shard) = NoGroup
      BY <1>1, <3>1, <3>3 DEF Free, StoreInv, VacantInv, Untouched
    <3>4. CASE Source(req.shard) \in Group
      BY <1>1, <3>1, <3>4 DEF FrozenAt, StoreInv, TransitInv
    <3> QED  BY <3>2, <3>3, <3>4
  <2> QED  BY <1>1, <2>1, <2>2, GroupAssumption
<1>7. st.owned => Held(req.shard) = st.data  BY <1>6 DEF Held
<1>8. ASSUME NEW s \in Shard
      PROVE  Held(s)' = IF s = req.shard /\ Writes(st, req) THEN Append(Held(s), req.by) ELSE Held(s)
  <2>1. Carried(s)' <=> Carried(s)  BY <1>4, <1>5 DEF Carried
  <2>2. CASE Carried(s)
    <3>1. Held(s)' = Held(s)  BY <1>5, <2>1, <2>2 DEF Held, Carried
    <3> QED  BY <3>1, <2>2, <1>3, <1>6
  <2>3. CASE ~Carried(s) /\ s = req.shard /\ Writes(st, req)
    <3>1. /\ Assigned(s)' = req.gid /\ req.gid # NoGroup /\ ~Carried(s)' /\ Held(s) = st.data
      BY <1>3, <1>5, <1>6, <1>7, <2>1, <2>3
    <3>2. Held(s)' = group'[req.gid][req.shard].data  BY <2>3, <3>1 DEF Held
    <3> QED  BY <1>2, <1>3, <2>3, <3>1, <3>2
  <2>4. CASE ~Carried(s) /\ ~(s = req.shard /\ Writes(st, req))
    <3>1. \A g \in Group : group'[g][s] = group[g][s]  BY <1>2, <1>3, <2>4
    <3> QED  BY <3>1, <1>5, <2>1, <2>4, AssignedTypes DEF Held
  <2> QED  BY <2>2, <2>3, <2>4
<1> QED  BY <1>7, <1>8

LEMMA ServeMoveHeld ==
  ASSUME TypeOK, MoveInv, StoreInv, NEW c \in Controller, ServeMove(c)
  PROVE  HeldSame
<1> DEFINE j == index[c]
<1>1. /\ holder = c /\ Working /\ j \in Shard /\ Move(c) \in MoveReq
      /\ Still /\ reply[c] = NoReply /\ reply'[c] # NoReply
      /\ \A g \in Group, s \in Shard : g # Move(c).gid \/ s # j => group'[g][s] = group[g][s]
  BY ServeMoveEffect
<1>2. LET old == group[Move(c).gid][j]
          new == group'[Move(c).gid][j] IN
        /\ pc[c] = "Freeze" => new.data = old.data
        /\ pc[c] = "Install" => new.data = moved[c]
  BY ServeMoveEffect
<1>3. Move(c).gid \in Group /\ Move(c).gid = IF pc[c] = "Install" THEN target[c].shards[j] ELSE Source(j)
  BY <1>1 DEF Move, MoveReq, Source
<1>4. Moving /\ pc[c] \in Moves /\ Source(j) # target[c].shards[j]  BY <1>1, AtWork DEF Working
<1>5. Assigned(j) = IF pc[c] = "Freeze" THEN Source(j) ELSE target[c].shards[j]
  <2>1. j \in Nat  BY <1>1, ShardAssumption DEF Shard
  <2> QED  BY <1>1, <1>4, <2>1 DEF Assigned, Source, Moves
<1>6. CASE pc[c] # "Install"
  <2>1. ASSUME NEW s \in Shard, Assigned(s) \in Group
        PROVE  group'[Assigned(s)][s].data = group[Assigned(s)][s].data
    <3>1. CASE s # j  BY <2>1, <3>1, <1>1
    <3>2. CASE s = j /\ pc[c] = "Freeze"  BY <3>2, <1>2, <1>3, <1>5
    <3>3. CASE s = j /\ pc[c] = "Delete"  BY <2>1, <3>3, <1>1, <1>3, <1>4, <1>5
    <3> QED  BY <3>1, <3>2, <3>3, <1>4, <1>6 DEF Moves
  <2> QED  BY <1>1, <1>6, <2>1, StillHeld
<1>7. CASE pc[c] = "Install"
  <2> SUFFICES ASSUME NEW s \in Shard PROVE Held(s)' = Held(s)  BY DEF HeldSame
  <2>1. /\ Assigned(s)' = Assigned(s) /\ (InTransit(s)' <=> InTransit(s))
        /\ holder' = c /\ InTransit(s) => s = j
    BY <1>1, <1>4, StillPlaces, AtWork
  <2>2. ~Carried(s)'  BY <1>1, <1>4, <2>1, StillPlaces DEF Carried
  <2>3. CASE s = j
    <3>1. Carried(s)  BY <1>1, <1>7, <2>3, AtWork DEF Carried
    <3> QED  BY <1>1, <1>2, <1>3, <1>5, <1>7, <2>1, <2>2, <2>3, <3>1, GroupAssumption DEF Held
  <2>4. CASE s # j
    <3>1. ~InTransit(s)  BY <1>1, <2>4, AtWork
    <3>2. ~Carried(s)  BY <3>1 DEF Carried
    <3> QED  BY <1>1, <2>1, <2>2, <2>4, <3>2, AssignedTypes DEF Held
  <2> QED  BY <2>3, <2>4
<1> QED  BY <1>6, <1>7

\* A late request of a controller finds the data gone, or leaves them.
LEMMA LateMoveHeld ==
  ASSUME InstallsOnce, TypeOK, MoveInv, StoreInv, NEW req \in late, req \in MoveReq, ServeLate(req)
  PROVE  HeldSame
<1> DEFINE st == group[req.gid][req.shard]
<1>1. UNCHANGED <<conf, holder, pc, target, current, index, moved, reply>> /\ Execute(req)
  BY DEF ServeLate, controllerVars
<1>2. Still  BY <1>1, StillHolder DEF Moving, Busy
<1>3. /\ req.gid \in Group /\ req.shard \in Shard /\ req.num \in Nat /\ req.kind \in Moves
      /\ st \in ShardState /\ st.num \in Nat
  BY DEF MoveReq, TypeOK, GroupTypes, ShardState
<1>4. /\ group'[req.gid][req.shard] = DoOp(st, req)
      /\ \A g \in Group, s \in Shard : g # req.gid \/ s # req.shard => group'[g][s] = group[g][s]
  BY <1>1, <1>3, MoveEffect, ExecuteEffect DEF TypeOK
<1>5. Timely(req) /\ Genuine(req) /\ Harmless(req) /\ (req.kind \in Leaves => Behind(req))
  BY <1>3 DEF MoveInv, LateInv, StoreInv, LateMoveInv
<1>6. ASSUME req.gid = Assigned(req.shard), ~Carried(req.shard), req.kind \in Leaves
      PROVE  DoOp(st, req).data = st.data
  <2>1. CASE Fenced(st, req)  BY <2>1, <1>3 DEF DoOp
  <2>2. CASE ~Fenced(st, req)
    <3> DEFINE s == req.shard
    <3>1. st.num <= req.num  BY <1>3, <2>2 DEF Fenced
    <3>2. InTransit(s)  BY <1>3, <1>5, <1>6, <3>1 DEF Harmless, Leaves
    <3>3. /\ Working /\ Moving /\ s = index[holder] /\ pc[holder] \in {"Freeze", "Install"} /\ holder \in Controller
          /\ Source(s) # target[holder].shards[s] /\ s \in Nat
      BY <1>3, <3>2, AtWork, ShardAssumption DEF Shard
    <3>4. CASE pc[holder] = "Freeze"
      <4>1. req.gid = Source(s)  BY <1>6, <3>3, <3>4 DEF Assigned, Source
      <4>2. req.num = Top  BY <1>3, <1>5, <1>6, <3>1, <3>2, <4>1 DEF Behind
      <4>3. req.kind = "Freeze"  BY <1>5, <1>6, <3>3, <3>4, <4>2 DEF Behind, Leaves
      <4> QED  BY <1>3, <2>2, <4>3 DEF DoOp, Moved, ShardState
    <3>5. CASE pc[holder] = "Install"
      <4>1. req.gid = target[holder].shards[s]  BY <1>6, <3>3, <3>5 DEF Assigned
      <4>2. reply[holder].err = "OK"
        BY <1>6, <3>2, <3>3, <3>5 DEF Carried, TypeOK, ControllerTypes, MoveInv, HolderInv, Moves
      <4>3. st.num = target[holder].num /\ Top = target[holder].num
        BY <1>3, <3>3, <3>5, <4>1, <4>2 DEF MoveInv, AnsweredInv, Done, Top
      <4>4. req.num = Top  BY <1>3, <1>5, <3>1, <4>3 DEF Timely
      <4> QED  BY <1>5, <1>6, <3>3, <4>1, <4>4 DEF Genuine, Source, Leaves
    <3> QED  BY <3>3, <3>4, <3>5
  <2> QED  BY <2>1, <2>2
<1>7. ASSUME NEW s \in Shard, Assigned(s) \in Group, ~Carried(s)
      PROVE  group'[Assigned(s)][s].data = group[Assigned(s)][s].data
  <2>1. CASE req.kind \in Leaves /\ s = req.shard /\ Assigned(s) = req.gid  BY <1>4, <1>6, <1>7, <2>1
  <2>2. CASE req.kind = "Install"  BY <1>7, <2>2, LateInstall
  <2>3. CASE ~(s = req.shard /\ Assigned(s) = req.gid)  BY <1>4, <1>7, <2>3
  <2> QED  BY <1>3, <2>1, <2>2, <2>3 DEF Leaves, Moves
<1> QED  BY <1>1, <1>2, <1>7, StillHeld

LEMMA AdvanceHeld ==
  ASSUME TypeOK, TypeOK', NEW c \in Controller, NEW cur \in Config, NEW i \in Nat, Advance(c, cur, i),
         holder = c, current'[c] = cur, UNCHANGED <<group, holder, target>>,
         \A s \in Shard : Mixed(cur, target[c], i)[s] = Assigned(s) /\ ~Carried(s)
  PROVE  HeldSame
<1> DEFINE asg == Mixed(cur, target[c], i)
<1>1. /\ Moving' /\ Top' = target[c].num /\ reply'[c] = NoReply /\ moved'[c] = <<>>
      /\ \/ pc'[c] = "Publish" /\ \A s \in Shard : Assigned(s)' = asg[s] /\ ~InTransit(s)'
         \/ \E s \in Shard :
              /\ s >= i /\ cur.shards[s] # target[c].shards[s] /\ asg[s] = cur.shards[s]
              /\ index'[c] = s /\ pc'[c] = IF cur.shards[s] = NoGroup THEN "Install" ELSE "Freeze"
              /\ InTransit(s)' /\ (cur.shards[s] # NoGroup => Assigned(s)' = cur.shards[s])
              /\ \A r \in Shard \ {s} : Assigned(r)' = asg[r] /\ ~InTransit(r)'
  BY AdvancePlaces
<1>2. \A s \in Shard : asg[s] = Assigned(s) /\ ~Carried(s)  OBVIOUS
<1> HIDE DEF asg
<1> SUFFICES ASSUME NEW s \in Shard PROVE Held(s)' = Held(s)  BY DEF HeldSame
<1>3. CASE Assigned(s)' = Assigned(s) /\ ~Carried(s)'
  BY <1>2, <1>3 DEF Held
<1>4. CASE Assigned(s) = NoGroup /\ Carried(s)'
  BY <1>1, <1>2, <1>4 DEF Held
<1>5. (Assigned(s)' = Assigned(s) /\ ~Carried(s)') \/ (Assigned(s) = NoGroup /\ Carried(s)')
  <2>1. CASE ~InTransit(s)'  BY <1>1, <1>2, <2>1 DEF Carried
  <2>2. CASE InTransit(s)'
    <3>1. asg[s] = cur.shards[s] /\ pc'[c] = (IF cur.shards[s] = NoGroup THEN "Install" ELSE "Freeze")
          /\ (cur.shards[s] # NoGroup => Assigned(s)' = cur.shards[s])
      BY <1>1, <2>2
    <3> QED  BY <1>1, <1>2, <2>2, <3>1 DEF Carried
  <2> QED  BY <2>1, <2>2
<1> QED  BY <1>3, <1>4, <1>5

LEMMA ReadHeld ==
  ASSUME TypeOK, TypeOK', MoveInv, NEW c \in Controller, Read(c)
  PROVE  HeldSame
<1>1. pc[c] = "Read" /\ UNCHANGED <<group, conf, holder, target, late>>  BY DEF Read
<1>2. holder = c /\ ~Moving  BY <1>1 DEF MoveInv, HolderInv, Moving, Busy, Moves
<1>3. CASE Enter(c, "Release", <<>>) /\ UNCHANGED current
  <2>1. ~Moving'  BY <1>1, <1>2, <1>3 DEF Enter, TypeOK, ControllerTypes, Moving, Busy, Moves
  <2>2. Still  BY <1>1, <1>2, <2>1 DEF Still, Same, Top, Assigned, InTransit
  <2> QED  BY <1>1, <1>2, <2>2, StillHeld
<1>4. CASE ~Superseded(c) /\ current' = [current EXCEPT ![c] = conf] /\ Advance(c, conf, 0)
  <2>1. conf \in Config /\ \A s \in Shard : Mixed(conf, target[c], 0)[s] = Assigned(s) /\ ~InTransit(s)
    BY <1>1, <1>4, ReadMixed
  <2>2. current'[c] = conf  BY <1>4 DEF TypeOK, ControllerTypes
  <2> QED  BY <1>1, <1>2, <1>4, <2>1, <2>2, AdvanceHeld DEF Carried
<1> QED  BY <1>3, <1>4 DEF Read

LEMMA ProceedHeld ==
  ASSUME TypeOK, TypeOK', MoveInv, StoreInv, NEW c \in Controller, Proceed(c)
  PROVE  HeldSame
<1> DEFINE j == index[c]
<1>1. UNCHANGED <<group, conf, holder, target, current, late>> /\ reply[c] # NoReply  BY DEF Proceed
<1>2. pc[c] \in Moves \cup {"Publish"}  BY <1>1 DEF TypeOK, ControllerTypes
<1>3. holder = c /\ Moving /\ Busy(c)
  BY <1>2 DEF MoveInv, HolderInv, Moving, Busy, Moves
<1>4. \A s \in Shard : ~Carried(s)  BY <1>1, <1>3 DEF Carried
<1>5. CASE Enter(c, "Release", <<>>) /\ (reply[c].err # "OK" \/ pc[c] = "Publish")
  <2>1. pc'[c] = "Release"  BY <1>5 DEF Enter, TypeOK, ControllerTypes
  <2>2. reply[c].err # "none"
    BY <1>1, <1>2, <1>5 DEF TypeOK, ControllerTypes, NoReply, Enter, Proceed, Moves
  <2>3. pc[c] = "Publish" /\ conf = target[c]
    BY <1>2, <1>3, <1>5, <2>2 DEF MoveInv, HolderInv, Busy, Moves
  <2>4. ~Moving'  BY <1>1, <1>3, <2>1 DEF Moving, Busy, Moves
  <2>5. \A s \in Shard : Assigned(s)' = Assigned(s) /\ ~Carried(s)'
    BY <1>1, <1>3, <2>3, <2>4 DEF Assigned, InTransit, Carried
  <2> QED  BY <1>1, <1>4, <2>5 DEF HeldSame, Held
<1>6. CASE reply[c].err = "OK" /\ pc[c] = "Freeze" /\ Enter(c, "Install", reply[c].data)
  <2>1. /\ pc'[c] = "Install" /\ reply'[c] = NoReply /\ moved'[c] = reply[c].data /\ UNCHANGED index
    BY <1>6 DEF Enter, TypeOK, ControllerTypes
  <2> SUFFICES ASSUME NEW s \in Shard PROVE Held(s)' = Held(s)  BY DEF HeldSame
  <2>2. Moving' /\ s \in Nat  BY <1>1, <1>3, <2>1, ShardAssumption DEF Moving, Busy, Moves, Shard
  <2>3. CASE s = j
    <3>1. Carried(s)'  BY <1>1, <1>3, <2>1, <2>2, <2>3 DEF Carried, InTransit
    <3>2. /\ InTransit(s) /\ Source(s) # NoGroup /\ Source(s) \in Group \cup {NoGroup}
          /\ Assigned(s) = Source(s)
      BY <1>3, <1>6, <2>2, <2>3, AtWork, AssignedTypes DEF Working, Moves, Assigned, Source
    <3>3. reply[c].data = group[Source(s)][s].data
      BY <1>1, <1>3, <1>6, <3>2 DEF StoreInv, TransitInv
    <3> QED  BY <1>1, <1>3, <1>4, <2>1, <3>1, <3>2, <3>3 DEF Held
  <2>4. CASE s # j
    <3>1. Assigned(s)' = Assigned(s) /\ ~Carried(s)'
      BY <1>1, <1>3, <1>6, <2>1, <2>2, <2>4 DEF Assigned, Carried, InTransit
    <3> QED  BY <1>1, <1>4, <3>1 DEF Held
  <2> QED  BY <2>3, <2>4
<1>7. CASE reply[c].err = "OK" /\ pc[c] = "Install" /\ current[c].shards[j] # NoGroup /\ Enter(c, "Delete", <<>>)
  <2>1. pc'[c] = "Delete" /\ UNCHANGED index  BY <1>7 DEF Enter, TypeOK, ControllerTypes
  <2>2. Moving'  BY <1>1, <1>3, <2>1 DEF Moving, Busy, Moves
  <2>3. \A s \in Shard : Assigned(s)' = Assigned(s) /\ ~Carried(s)'
    BY <1>1, <1>3, <1>7, <2>1, <2>2 DEF Assigned, Carried
  <2> QED  BY <1>1, <1>4, <2>3 DEF HeldSame, Held
<1>8. CASE /\ reply[c].err = "OK" /\ Advance(c, current[c], j + 1)
           /\ pc[c] = "Delete" \/ (pc[c] = "Install" /\ current[c].shards[j] = NoGroup)
  <2>1. Finished(c)  BY <1>8 DEF Finished, Moves
  <2>2. j \in Shard /\ \A s \in Shard : Mixed(current[c], target[c], j + 1)[s] = Assigned(s)
    BY <2>1, ProceedMixed
  <2>3. current'[c] = current[c] /\ j + 1 \in Nat /\ current[c] \in Config
    BY <1>1, <2>2, ShardAssumption DEF TypeOK, ControllerTypes, Shard
  <2> QED  BY <1>1, <1>3, <1>4, <1>8, <2>2, <2>3, AdvanceHeld
<1> QED  BY <1>5, <1>6, <1>7, <1>8 DEF Proceed

-----------------------------------------------------------------------------
\* What the clients see

DataSame == \A s \in Shard : Data(s)' = Data(s)

Appended(s, k) == \A r \in Shard : Data(r)' = IF r = s THEN Append(Data(r), k) ELSE Data(r)

DataTyped == \A s \in Shard : Data(s) \in Seq(Client)

LEMMA DataTypes == TypeOK /\ DataFound => DataTyped
<1> SUFFICES ASSUME TypeOK, DataFound, NEW s \in Shard PROVE Held(s) \in Seq(Client)
  BY DEF DataFound, DataTyped
<1>1. CASE Carried(s)
  <2>1. moved[holder] \in Seq(Client)  BY <1>1 DEF Carried, InTransit, Moving, TypeOK, ControllerTypes
  <2> QED  BY <1>1, <2>1 DEF Held
<1>2. CASE ~Carried(s) /\ Assigned(s) = NoGroup
  <2>1. <<>> \in Seq(Client)  OBVIOUS
  <2> QED  BY <1>2, <2>1 DEF Held
<1>3. CASE ~Carried(s) /\ Assigned(s) # NoGroup
  <2>1. Assigned(s) \in Group  BY <1>3, AssignedTypes
  <2> QED  BY <1>3, <2>1 DEF Held, TypeOK, GroupTypes
<1> QED  BY <1>1, <1>2, <1>3

\* What is known of every reachable state, and of the next one.
Known == StoreSafe /\ DataFound /\ DataTyped

\* Controllers, and late requests of theirs, change no shard's data.
LEMMA MoveData ==
  ASSUME InstallsOnce, Known, Known',
         \/ \E c \in Controller : \/ Begin(c) \/ Acquire(c) \/ ControllerStep(c)
                                  \/ ServeMove(c) \/ ServePublish(c) \/ Resend(c) \/ Crash(c)
         \/ \E req \in late : req \in MoveReq /\ ServeLate(req)
  PROVE  /\ DataSame /\ UNCHANGED <<call, answer>>
         /\ \A req \in late' : req.kind = "Put" => req \in late
<1>1. TypeOK /\ TypeOK' /\ MoveInv /\ StoreInv  BY DEF Known, StoreSafe
<1>2. HeldSame
  BY <1>1, BeginHeld, ReadHeld, ProceedHeld, ServeMoveHeld, ServePublishHeld, ResendHeld, LateMoveHeld
  DEF ControllerStep
<1>3. DataSame  BY <1>2 DEF HeldSame, DataSame, Known, DataFound
<1>4. CASE \E req \in late : req \in MoveReq /\ ServeLate(req)
  BY <1>3, <1>4 DEF ServeLate, clientVars
<1>5. CASE \E c \in Controller : \/ Begin(c) \/ Acquire(c) \/ ControllerStep(c)
                                 \/ ServeMove(c) \/ ServePublish(c) \/ Resend(c) \/ Crash(c)
  <2>1. PICK c \in Controller : \/ Begin(c) \/ Acquire(c) \/ ControllerStep(c)
                                \/ ServeMove(c) \/ ServePublish(c) \/ Resend(c) \/ Crash(c)
    BY <1>5
  <2>2. UNCHANGED <<call, answer>>
    BY <2>1 DEF Begin, Acquire, ControllerStep, Read, Proceed, Release, ServeMove, ServePublish, Resend, Crash,
       clientVars
  <2>3. \A req \in late' : req \in late \/ (req.kind \in Moves)
    <3>1. CASE ~Resend(c)
      BY <2>1, <3>1 DEF Begin, Acquire, ControllerStep, Read, Proceed, Release, ServeMove, ServePublish, Crash
    <3>2. CASE Resend(c)  BY <3>2 DEF Resend, LeaveBehind, Move
    <3> QED  BY <3>1, <3>2
  <2> QED  BY <1>3, <2>2, <2>3 DEF Moves
<1> QED  BY <1>4, <1>5

\* A Get or Put is executed.
LEMMA AccessData ==
  ASSUME Known, Known', NEW req \in AccessReq, Execute(req), UNCHANGED <<conf, holder, controllerVars>>
  PROVE  LET st == group[req.gid][req.shard] IN
         /\ st.owned => Data(req.shard) = st.data
         /\ Writes(st, req) => Appended(req.shard, req.by)
         /\ ~Writes(st, req) => DataSame
<1> DEFINE st == group[req.gid][req.shard]
<1>1. req.shard \in Shard /\ TypeOK /\ MoveInv /\ StoreInv  BY DEF AccessReq, Known, StoreSafe
<1>2. /\ st.owned => Held(req.shard) = st.data
      /\ \A s \in Shard :
           Held(s)' = IF s = req.shard /\ Writes(st, req) THEN Append(Held(s), req.by) ELSE Held(s)
  BY <1>1, AccessHeld
<1>3. \A s \in Shard : Data(s) = Held(s) /\ Data(s)' = Held(s)'  BY DEF Known, DataFound
<1> HIDE DEF st
<1>4. /\ st.owned => Data(req.shard) = st.data
      /\ Writes(st, req) => Appended(req.shard, req.by)
      /\ ~Writes(st, req) => DataSame
  BY <1>1, <1>2, <1>3 DEF Appended, DataSame
<1> QED  BY <1>4 DEF st

\* A client is answered: refused, or as the data are.
LEMMA ServeCallData ==
  ASSUME Known, Known', NEW k \in Client, ServeCall(k)
  PROVE  LET v == Len(Data(call[k].shard)) IN
         /\ UNCHANGED <<call, late>> /\ call[k] # NoCall /\ answer[k] = NoAnswer
         /\ answer' = [answer EXCEPT ![k] = answer'[k]]
         /\ \/ Refused(k)' /\ answer'[k].version = 0 /\ DataSame
            \/ /\ call[k].kind = "Get" /\ DataSame
               /\ answer'[k] = [err |-> IF v = 0 THEN "ErrNoKey" ELSE "OK", version |-> v]
            \/ /\ call[k].kind = "Put" /\ call[k].version = v /\ Appended(call[k].shard, k)
               /\ answer'[k] = [err |-> "OK", version |-> 0]
            \/ /\ call[k].kind = "Put" /\ call[k].version # v /\ DataSame
               /\ answer'[k] = [err |-> IF v = 0 THEN "ErrNoKey" ELSE "ErrVersion", version |-> 0]
<1> DEFINE req == Request(k)
<1> DEFINE st == group[req.gid][req.shard]
<1> DEFINE e == AccessErr(st, req)
<1>1. TypeOK /\ TypeOK'  BY DEF Known, StoreSafe
<1>2. /\ req \in AccessReq /\ Execute(req) /\ UNCHANGED <<conf, holder, controllerVars, call, late>>
      /\ req.shard = call[k].shard /\ req.version = call[k].version /\ req.by = k /\ req.kind = call[k].kind
  BY <1>1, RequestType DEF ServeCall, Request, TypeOK
<1>3. /\ st.owned => Data(req.shard) = st.data
      /\ Writes(st, req) => Appended(req.shard, req.by)
      /\ ~Writes(st, req) => DataSame
  BY <1>2, AccessData
<1>4. req.gid \in Group /\ req.shard \in Shard /\ st \in ShardState /\ req.kind \in {"Get", "Put"}
  BY <1>1, <1>2 DEF AccessReq, TypeOK, GroupTypes, ShardState
<1>5. st.data \in Seq(Client) /\ (st.data = <<>> <=> Len(st.data) = 0)
  BY <1>4 DEF ShardState
<1>6. /\ answer' = [answer EXCEPT ![k] =
           [err |-> e, version |-> IF call[k].kind = "Get" /\ e = "OK" THEN Len(st.data) ELSE 0]]
      /\ call[k] # NoCall /\ answer[k] = NoAnswer
  BY <1>2 DEF ServeCall
<1>7. answer'[k] = [err |-> e, version |-> IF call[k].kind = "Get" /\ e = "OK" THEN Len(st.data) ELSE 0]
  BY <1>1, <1>6 DEF TypeOK, ClientTypes
<1>8. CASE ~st.owned \/ st.frozen
  <2>1. e \in {"ErrWrongGroup", "ErrFrozen"}  BY <1>8 DEF AccessErr
  <2>2. Refused(k)' /\ answer'[k].version = 0 /\ ~Writes(st, req)  BY <1>7, <2>1 DEF Refused, Writes
  <2> QED  BY <1>2, <1>3, <1>6, <1>7, <2>2
<1>9. CASE st.owned /\ ~st.frozen
  <2>1. e = IF req.kind = "Get" THEN IF st.data = <<>> THEN "ErrNoKey" ELSE "OK"
            ELSE IF req.version = Len(st.data) THEN "OK"
            ELSE IF st.data = <<>> THEN "ErrNoKey" ELSE "ErrVersion"
    BY <1>9 DEF AccessErr
  <2>2. Writes(st, req) <=> req.kind = "Put" /\ req.version = Len(st.data)
    BY <1>4, <2>1 DEF Writes
  <2> HIDE DEF e, st, req
  <2>3. CASE req.kind = "Get"
    <3>1. ~Writes(st, req) /\ call[k].kind = "Get"  BY <1>2, <2>2, <2>3
    <3> QED  BY <1>2, <1>3, <1>5, <1>6, <1>7, <1>9, <2>1, <2>3, <3>1
  <2>4. CASE req.kind = "Put"
    <3>1. call[k].kind = "Put" /\ (Writes(st, req) <=> req.version = Len(st.data))
      BY <1>2, <2>2, <2>4
    <3> QED  BY <1>2, <1>3, <1>5, <1>6, <1>7, <1>9, <2>1, <2>4, <3>1
  <2> QED  BY <1>4, <2>3, <2>4
<1> QED  BY <1>8, <1>9

-----------------------------------------------------------------------------
\* What a client knows of a shard is of the past

Grows == \A s \in Shard : Len(Data(s)) \in Nat /\ Len(Data(s))' \in Nat /\ Len(Data(s)) <= Len(Data(s))'

LEMMA DataGrows ==
  ASSUME Known, Known', DataSame \/ \E r \in Shard, k \in Client : Appended(r, k)
  PROVE  Grows
<1> SUFFICES ASSUME NEW s \in Shard
             PROVE  Len(Data(s)) \in Nat /\ Len(Data(s))' \in Nat /\ Len(Data(s)) <= Len(Data(s))'
  BY DEF Grows
<1>1. Data(s) \in Seq(Client) /\ Data(s)' \in Seq(Client)  BY DEF Known, DataTyped
<1>2. Data(s)' = Data(s) \/ \E k \in Client : Data(s)' = Append(Data(s), k)
  BY DEF DataSame, Appended
<1>3. CASE Data(s)' = Data(s)  BY <1>1, <1>3
<1>4. CASE \E k \in Client : Data(s)' = Append(Data(s), k)
  <2>1. PICK k \in Client : Data(s)' = Append(Data(s), k)  BY <1>4
  <2>2. Len(Data(s)') = Len(Data(s)) + 1  BY <1>1, <2>1
  <2> QED  BY <1>1, <2>2
<1> QED  BY <1>2, <1>3, <1>4

LEMMA CallStays ==
  ASSUME TypeOK, Grows, NEW k \in Client, CallOK(k), call'[k] = call[k], answer'[k] = answer[k]
  PROVE  CallOK(k)'
<1>1. /\ call[k] = NoCall \/ (call[k].shard \in Shard /\ call[k].version \in Nat)
      /\ answer[k].version \in Nat
  BY DEF TypeOK, ClientTypes
<1>2. CASE call[k] = NoCall  BY <1>2 DEF CallOK, NoCall
<1>3. CASE call[k] # NoCall
  <2> DEFINE s == call[k].shard
  <2>1. s \in Shard /\ call[k].version \in Nat  BY <1>1, <1>3
  <2>2. Len(Data(s)) \in Nat /\ Len(Data(s)') \in Nat /\ Len(Data(s)) <= Len(Data(s)')
    BY <2>1 DEF Grows
  <2> QED  BY <1>1, <1>3, <2>1, <2>2 DEF CallOK, Refused
<1> QED  BY <1>2, <1>3

LEMMA PutStays ==
  ASSUME Grows, NEW req \in PutReq, PutOK(req), call'[req.by] = call[req.by] \/ req.version < Len(Data(req.shard))
  PROVE  PutOK(req)'
BY DEF Grows, PutReq, PutOK

LEMMA LatePut ==
  ASSUME TypeOK, NEW req \in late, req.kind = "Put"
  PROVE  req \in PutReq
BY DEF TypeOK, LateTypes, PutReq, Moves

LEMMA InitPast == ASSUME Group # {} PROVE Init /\ StoreSafe => PastInv
<1> SUFFICES ASSUME Init, StoreSafe PROVE PastInv  OBVIOUS
<1>1. \A k \in Client : call[k] = NoCall /\ answer[k] = NoAnswer  BY DEF Init
<1>2. late = {}  BY DEF Init
<1> QED  BY <1>1, <1>2 DEF PastInv, CallOK, NoCall

LEMMA MovePast ==
  ASSUME InstallsOnce, Known, Known', PastInv,
         \/ \E c \in Controller : \/ Begin(c) \/ Acquire(c) \/ ControllerStep(c)
                                  \/ ServeMove(c) \/ ServePublish(c) \/ Resend(c) \/ Crash(c)
         \/ \E req \in late : req \in MoveReq /\ ServeLate(req)
  PROVE  PastInv'
<1>1. /\ DataSame /\ UNCHANGED <<call, answer>>
      /\ \A req \in late' : req.kind = "Put" => req \in late
  BY MoveData
<1>2. Grows /\ TypeOK  BY <1>1, DataGrows DEF Known, StoreSafe
<1>3. \A k \in Client : CallOK(k)'  BY <1>1, <1>2, CallStays DEF PastInv
<1>4. ASSUME NEW req \in late', req.kind = "Put" PROVE PutOK(req)'
  BY <1>1, <1>2, <1>4, LatePut, PutStays DEF PastInv
<1> QED  BY <1>3, <1>4 DEF PastInv

\* A client's step that executes nothing.
LEMMA QuietData ==
  ASSUME NEW k \in Client, Invoke(k) \/ Recall(k) \/ ClientStep(k)
  PROVE  DataSame
BY DEF Invoke, Recall, ClientStep, Reroute, Return, DataSame, Data, Home

LEMMA InvokePast ==
  ASSUME Known, Known', PastInv, NEW k \in Client, Invoke(k)
  PROVE  PastInv'
<1>1. Grows /\ TypeOK  BY QuietData, DataGrows DEF Known, StoreSafe
<1>2. /\ call[k] = NoCall /\ UNCHANGED <<answer, late>>
      /\ \A j \in Client \ {k} : call'[j] = call[j]
      /\ \E s \in Shard : call'[k] = [kind |-> "Get", shard |-> s, version |-> 0]
  BY <1>1 DEF Invoke, TypeOK, ClientTypes
<1>3. ASSUME NEW j \in Client PROVE CallOK(j)'
  <2>1. CASE j # k  BY <1>1, <1>2, <2>1, CallStays DEF PastInv
  <2>2. CASE j = k
    <3>1. answer'[k] = NoAnswer  BY <1>2 DEF PastInv, CallOK
    <3>2. PICK s \in Shard : call'[k] = [kind |-> "Get", shard |-> s, version |-> 0]  BY <1>2
    <3>3. 0 <= Len(Data(s)') /\ call'[k].shard = s  BY <1>1, <3>2 DEF Grows
    <3>4. answer'[k].version = 0 /\ call'[k].kind = "Get" /\ call'[k] # NoCall
      BY <3>1, <3>2 DEF NoAnswer, NoCall
    <3> QED  BY <2>2, <3>3, <3>4 DEF CallOK
  <2> QED  BY <2>1, <2>2
<1>4. ASSUME NEW req \in late, req.kind = "Put" PROVE PutOK(req)'
  <2>1. req \in PutReq /\ req.by \in Client  BY <1>1, <1>4, LatePut DEF PutReq
  <2>2. req.by = k => req.version < Len(Data(req.shard))
    <3>1. PutOK(req)  BY <1>4 DEF PastInv
    <3>2. call[k].kind = "none"  BY <1>2 DEF NoCall
    <3> QED  BY <3>1, <3>2 DEF PutOK
  <2> QED  BY <1>1, <1>2, <1>4, <2>1, <2>2, PutStays DEF PastInv
<1> QED  BY <1>2, <1>3, <1>4 DEF PastInv

LEMMA RecallPast ==
  ASSUME Known, Known', PastInv, NEW k \in Client, Recall(k) \/ Reroute(k)
  PROVE  PastInv'
<1>1. Grows /\ TypeOK  BY QuietData, DataGrows DEF Known, StoreSafe, ClientStep
<1>2. /\ UNCHANGED call /\ call[k] # NoCall /\ answer' = [answer EXCEPT ![k] = NoAnswer]
      /\ \A req \in late' : req \in late \/ (call[k].kind = "Put" /\ req = Request(k))
  BY DEF Recall, Reroute, LeaveBehind
<1>3. answer'[k] = NoAnswer /\ \A j \in Client \ {k} : answer'[j] = answer[j]
  BY <1>1, <1>2 DEF TypeOK, ClientTypes
<1>4. ASSUME NEW j \in Client PROVE CallOK(j)'
  <2>1. CASE j # k  BY <1>1, <1>2, <1>3, <2>1, CallStays DEF PastInv
  <2>2. CASE j = k
    <3>1. PICK s \in Shard : s = call[k].shard /\ call[k].version \in Nat
      BY <1>1, <1>2 DEF TypeOK, ClientTypes
    <3>2. Len(Data(s)) \in Nat /\ Len(Data(s)') \in Nat /\ Len(Data(s)) <= Len(Data(s)')
      BY <1>1, <3>1 DEF Grows
    <3>3. call[k].kind = "Put" => call[k].version <= Len(Data(s))  BY <3>1 DEF PastInv, CallOK
    <3>4. answer'[k].version = 0  BY <1>3 DEF NoAnswer
    <3> QED  BY <1>2, <1>3, <2>2, <3>1, <3>2, <3>3, <3>4 DEF CallOK
  <2> QED  BY <2>1, <2>2
<1>5. ASSUME NEW req \in late', req.kind = "Put" PROVE PutOK(req)'
  <2>1. CASE req \in late
    BY <1>1, <1>2, <1>5, <2>1, LatePut, PutStays DEF PastInv
  <2>2. CASE call[k].kind = "Put" /\ req = Request(k)
    <3>1. call[k] = [kind |-> "Put", shard |-> call[k].shard, version |-> call[k].version]
      BY <1>1, <1>2, <2>2 DEF TypeOK, ClientTypes
    <3> QED  BY <1>2, <2>2, <3>1 DEF PutOK, Request
  <2> QED  BY <1>2, <1>5, <2>1, <2>2
<1> QED  BY <1>4, <1>5 DEF PastInv

LEMMA ReturnPast ==
  ASSUME Known, Known', PastInv, NEW k \in Client, Return(k)
  PROVE  PastInv'
<1>1. Grows /\ TypeOK  BY QuietData, DataGrows DEF Known, StoreSafe, ClientStep
<1>2. /\ answer[k] # NoAnswer /\ ~Refused(k) /\ UNCHANGED late
      /\ answer'[k] = NoAnswer
      /\ \A j \in Client \ {k} : answer'[j] = answer[j] /\ call'[j] = call[j]
      /\ \/ call'[k] = NoCall
         \/ /\ call[k].kind = "Get"
            /\ call'[k] = [kind |-> "Put", shard |-> call[k].shard, version |-> answer[k].version]
  <2>1. UNCHANGED late /\ answer[k] # NoAnswer /\ ~Refused(k) /\ answer' = [answer EXCEPT ![k] = NoAnswer]
    BY DEF Return
  <2>2. answer'[k] = NoAnswer /\ \A j \in Client \ {k} : answer'[j] = answer[j]
    BY <1>1, <2>1 DEF TypeOK, ClientTypes
  <2>3. CASE call' = [call EXCEPT ![k] = NoCall]
    BY <1>1, <2>1, <2>2, <2>3 DEF TypeOK, ClientTypes
  <2>4. CASE /\ call[k].kind = "Get"
             /\ call' = [call EXCEPT ![k].kind = "Put", ![k].version = answer[k].version]
    <3>1. call[k] \in [kind : {"Get", "Put"}, shard : Shard, version : Nat]
      BY <1>1, <2>4 DEF TypeOK, ClientTypes, NoCall
    <3>2. call'[k] = [kind |-> "Put", shard |-> call[k].shard, version |-> answer[k].version]
      BY <1>1, <2>4, <3>1 DEF TypeOK, ClientTypes
    <3>3. \A j \in Client \ {k} : call'[j] = call[j]  BY <1>1, <2>4 DEF TypeOK, ClientTypes
    <3> QED  BY <2>1, <2>2, <2>4, <3>2, <3>3
  <2> QED  BY <2>3, <2>4 DEF Return
<1>3. ASSUME NEW j \in Client PROVE CallOK(j)'
  <2>1. CASE j # k  BY <1>1, <1>2, <2>1, CallStays DEF PastInv
  <2>2. CASE j = k /\ call'[k] = NoCall  BY <1>2, <2>2 DEF CallOK, NoCall
  <2>3. CASE /\ j = k /\ call[k].kind = "Get"
             /\ call'[k] = [kind |-> "Put", shard |-> call[k].shard, version |-> answer[k].version]
    <3>1. PICK s \in Shard : s = call[k].shard /\ answer[k].version \in Nat
      BY <1>1, <2>3 DEF TypeOK, ClientTypes, NoCall
    <3>2. Len(Data(s)) \in Nat /\ Len(Data(s)') \in Nat /\ Len(Data(s)) <= Len(Data(s)')
      BY <1>1, <3>1 DEF Grows
    <3>3. answer[k].version <= Len(Data(s))  BY <2>3, <3>1 DEF PastInv, CallOK
    <3>4. /\ call'[k].kind = "Put" /\ call'[k].shard = s /\ call'[k].version = answer[k].version
          /\ call'[k] # NoCall
      BY <2>3, <3>1 DEF NoCall
    <3> QED  BY <1>2, <2>3, <3>1, <3>2, <3>3, <3>4 DEF CallOK
  <2> QED  BY <1>2, <2>1, <2>2, <2>3
<1>4. ASSUME NEW req \in late, req.kind = "Put" PROVE PutOK(req)'
  <2>1. req \in PutReq /\ req.by \in Client  BY <1>1, <1>4, LatePut DEF PutReq
  <2>2. CASE req.by # k  BY <1>1, <1>2, <1>4, <2>1, <2>2, PutStays DEF PastInv
  <2>3. CASE req.by = k
    <3>1. req.version < Len(Data(req.shard))
      <4>1. PutOK(req)  BY <1>4 DEF PastInv
      <4>2. CASE call[k] = [kind |-> "Put", shard |-> req.shard, version |-> req.version]
        <5>1. call[k].kind = "Put" /\ call[k].shard = req.shard /\ call[k].version = req.version
          BY <4>2
        <5>2. CallOK(k)  BY DEF PastInv
        <5> QED  BY <1>2, <5>1, <5>2 DEF CallOK
      <4> QED  BY <2>3, <4>1, <4>2 DEF PutOK
    <3> QED  BY <1>4, <2>1, <3>1, <1>1, PutStays DEF PastInv
  <2> QED  BY <2>2, <2>3
<1> QED  BY <1>2, <1>3, <1>4 DEF PastInv

LEMMA ServeCallPast ==
  ASSUME Known, Known', PastInv, NEW k \in Client, ServeCall(k)
  PROVE  PastInv'
<1>1. TypeOK /\ call[k].shard \in Shard /\ call[k].version \in Nat
  BY ServeCallData DEF Known, StoreSafe, TypeOK, ClientTypes
<1>2. PICK s \in Shard : s = call[k].shard  BY <1>1
<1> DEFINE v == Len(Data(s))
<1>3. /\ UNCHANGED <<call, late>> /\ call[k] # NoCall
      /\ \A j \in Client \ {k} : answer'[j] = answer[j]
  BY <1>1, ServeCallData DEF TypeOK, ClientTypes
<1>4. \/ Refused(k)' /\ answer'[k].version = 0 /\ DataSame
      \/ /\ call[k].kind = "Get" /\ DataSame
         /\ answer'[k] = [err |-> IF v = 0 THEN "ErrNoKey" ELSE "OK", version |-> v]
      \/ /\ call[k].kind = "Put" /\ call[k].version = v /\ Appended(s, k)
         /\ answer'[k] = [err |-> "OK", version |-> 0]
      \/ /\ call[k].kind = "Put" /\ call[k].version # v /\ DataSame
         /\ answer'[k] = [err |-> IF v = 0 THEN "ErrNoKey" ELSE "ErrVersion", version |-> 0]
  BY <1>2, ServeCallData
<1>5. Grows  BY <1>4, DataGrows
<1>6. /\ Len(Data(s)) \in Nat /\ Len(Data(s)') \in Nat /\ Len(Data(s)) <= Len(Data(s)')
      /\ DataSame => Data(s)' = Data(s)
      /\ Appended(s, k) => Len(Data(s)') = Len(Data(s)) + 1
  <2>1. Data(s) \in Seq(Client)  BY DEF Known, DataTyped
  <2>2. Appended(s, k) => Data(s)' = Append(Data(s), k)  BY DEF Appended
  <2> QED  BY <1>5, <2>1, <2>2 DEF Grows, DataSame
<1>7. CallOK(k)'
  <2>1. CallOK(k) /\ call'[k] = call[k] /\ call'[k].shard = s  BY <1>2, <1>3 DEF PastInv
  <2>2. call[k].kind = "Get" => answer'[k].version <= Len(Data(s)')
    BY <1>4, <1>6
  <2>3. call[k].kind = "Put" =>
          /\ call[k].version <= Len(Data(s)')
          /\ ~Refused(k)' => call[k].version < Len(Data(s)')
    BY <1>1, <1>2, <1>4, <1>6, <2>1 DEF CallOK
  <2> QED  BY <1>3, <2>1, <2>2, <2>3 DEF CallOK
<1>8. ASSUME NEW j \in Client PROVE CallOK(j)'
  BY <1>1, <1>3, <1>5, <1>7, CallStays DEF PastInv
<1>9. ASSUME NEW req \in late, req.kind = "Put" PROVE PutOK(req)'
  BY <1>1, <1>3, <1>5, <1>9, LatePut, PutStays DEF PastInv
<1> QED  BY <1>3, <1>8, <1>9 DEF PastInv

LEMMA LatePutPast ==
  ASSUME Known, Known', PastInv, NEW req \in late, req \in AccessReq, ServeLate(req)
  PROVE  PastInv'
<1>1. /\ Execute(req) /\ UNCHANGED <<conf, holder, controllerVars, call, answer>> /\ late' \subseteq late
  BY DEF ServeLate, clientVars
<1>2. DataSame \/ Appended(req.shard, req.by)  BY <1>1, AccessData
<1>3. Grows /\ TypeOK  BY <1>2, DataGrows DEF AccessReq, Known, StoreSafe
<1>4. ASSUME NEW k \in Client PROVE CallOK(k)'  BY <1>1, <1>3, CallStays DEF PastInv
<1>5. ASSUME NEW r \in late', r.kind = "Put" PROVE PutOK(r)'
  BY <1>1, <1>3, <1>5, LatePut, PutStays DEF PastInv
<1> QED  BY <1>4, <1>5 DEF PastInv

LEMMA NextPast ==
  Known /\ Known' /\ PastInv /\ [Next /\ InstallsOnce]_vars => PastInv'
<1> SUFFICES ASSUME Known, Known', PastInv, [Next /\ InstallsOnce]_vars PROVE PastInv'  OBVIOUS
<1>1. CASE UNCHANGED vars
  <2>1. DataSame /\ UNCHANGED <<call, answer, late>>
    BY <1>1 DEF vars, clientVars, DataSame, Data, Home
  <2>2. Grows /\ TypeOK  BY <2>1, DataGrows DEF Known, StoreSafe
  <2>3. ASSUME NEW k \in Client PROVE CallOK(k)'  BY <2>1, <2>2, CallStays DEF PastInv
  <2>4. ASSUME NEW r \in late, r.kind = "Put" PROVE PutOK(r)'
    BY <2>1, <2>2, <2>4, LatePut, PutStays DEF PastInv
  <2> QED  BY <2>1, <2>3, <2>4 DEF PastInv
<1>2. CASE Next /\ InstallsOnce
  <2>1. CASE \E c \in Controller : \/ Begin(c) \/ Acquire(c) \/ ControllerStep(c)
                                   \/ ServeMove(c) \/ ServePublish(c) \/ Resend(c) \/ Crash(c)
    BY <1>2, <2>1, MovePast
  <2>2. CASE \E k \in Client : Invoke(k) \/ ServeCall(k) \/ Recall(k) \/ ClientStep(k)
    BY <2>2, InvokePast, ServeCallPast, RecallPast, ReturnPast DEF ClientStep
  <2>3. CASE \E req \in late : ServeLate(req)
    <3>1. PICK req \in late : ServeLate(req)  BY <2>3
    <3>2. req \in MoveReq \/ req \in AccessReq  BY LateEffect DEF Known, StoreSafe
    <3> QED  BY <1>2, <3>1, <3>2, MovePast, LatePutPast
  <2> QED  BY <1>2, <2>1, <2>2, <2>3 DEF Next
<1> QED  BY <1>1, <1>2

\* As long as InstallShard takes effect once, a client's versions are of the past, and
\* a put that is late has either taken effect or still has its client waiting.  A
\* second InstallShard may take the shard back behind what clients know (run replay).
THEOREM VersionsOfThePast ==
  ASSUME Group # {}
  PROVE  OnceSpec => [](Known /\ PastInv)
<1>1. StoreSafe => Known  BY DataIsFound, DataTypes DEF Known, StoreSafe
<1>2. Init /\ StoreSafe => PastInv  BY InitPast
<1>3. Known /\ Known' /\ PastInv /\ [Next /\ InstallsOnce]_vars => PastInv'  BY NextPast
<1>4. StoreSafe <=> TypeOK /\ MoveInv /\ StoreInv  BY DEF StoreSafe
<1> QED
  BY <1>1, <1>2, <1>3, <1>4, OnceIsSpec, TypeCorrect, MovesInOrder, DataInPlace, PTL DEF OnceSpec

-----------------------------------------------------------------------------
\* Steps of the store

Store == [s \in Shard |-> Data(s)]
Told  == [k \in Client |-> IF Refused(k) THEN NoAnswer ELSE answer[k]]

StoreStep == [store!Next]_store!vars

LEMMA StoreStutters ==
  ASSUME UNCHANGED <<Store, call, Told>>
  PROVE  StoreStep
BY DEF StoreStep, store!vars, Store, Told, Data

LEMMA IsMoveOn ==
  ASSUME NEW k \in Client, call[k] = NoCall \/ Told[k] # NoAnswer,
         call'[k] \in [kind : {"Get", "Put"}, shard : Shard, version : Nat] \cup {NoCall},
         call' = [call EXCEPT ![k] = call'[k]], Told' = [Told EXCEPT ![k] = NoAnswer], UNCHANGED Store
  PROVE  StoreStep
<1>1. store!MoveOn(k)
  BY DEF store!MoveOn, store!NoCall, store!NoAnswer, store!Calls, NoCall, NoAnswer, Store, Told, Data
<1> QED  BY <1>1 DEF StoreStep, store!Next

LEMMA IsGet ==
  ASSUME NEW k \in Client, call[k] # NoCall, Told[k] = NoAnswer, call[k].kind = "Get",
         NEW v, v = Len(Store[call[k].shard]),
         Told' = [Told EXCEPT ![k] = [err |-> IF v = 0 THEN "ErrNoKey" ELSE "OK", version |-> v]],
         UNCHANGED <<Store, call>>
  PROVE  StoreStep
<1>1. store!Get(k)
  BY DEF store!Get, store!Waits, store!Version, store!NoCall, store!NoAnswer, NoCall, NoAnswer, Store, Told, Data
<1> QED  BY <1>1 DEF StoreStep, store!Next

LEMMA IsPut ==
  ASSUME NEW k \in Client, call[k] # NoCall, Told[k] = NoAnswer, call[k].kind = "Put",
         call[k].version = Len(Store[call[k].shard]),
         Store' = [Store EXCEPT ![call[k].shard] = Append(@, k)],
         Told' = [Told EXCEPT ![k] = [err |-> "OK", version |-> 0]] \/ UNCHANGED Told,
         UNCHANGED call
  PROVE  StoreStep
<1>1. store!Put(k)
  BY DEF store!Put, store!Waits, store!Version, store!NoCall, store!NoAnswer, NoCall, NoAnswer, Store, Told, Data
<1> QED  BY <1>1 DEF StoreStep, store!Next

LEMMA IsRefuse ==
  ASSUME NEW k \in Client, call[k] # NoCall, Told[k] = NoAnswer, call[k].kind = "Put",
         NEW v, v = Len(Store[call[k].shard]), call[k].version # v,
         Told' = [Told EXCEPT ![k] = [err |-> IF v = 0 THEN "ErrNoKey" ELSE "ErrVersion", version |-> 0]],
         UNCHANGED <<Store, call>>
  PROVE  StoreStep
<1>1. store!Refuse(k)
  BY DEF store!Refuse, store!Refusal, store!Waits, store!Version, store!NoCall, store!NoAnswer,
     NoCall, NoAnswer, Store, Told, Data
<1> QED  BY <1>1 DEF StoreStep, store!Next

LEMMA IsLoseAnswer ==
  ASSUME NEW k \in Client, Told[k] # NoAnswer, Told' = [Told EXCEPT ![k] = NoAnswer],
         UNCHANGED <<Store, call>>
  PROVE  StoreStep
<1>1. store!LoseAnswer(k)
  BY DEF store!LoseAnswer, store!NoAnswer, NoAnswer, Store, Told, Data
<1> QED  BY <1>1 DEF StoreStep, store!Next

\* What the store's variables become.
LEMMA ToldOf ==
  ASSUME TypeOK, NEW k \in Client, answer' = [answer EXCEPT ![k] = answer'[k]]
  PROVE  /\ Told' = [Told EXCEPT ![k] = IF Refused(k)' THEN NoAnswer ELSE answer'[k]]
         /\ answer'[k] = NoAnswer => Told' = [Told EXCEPT ![k] = NoAnswer]
<1>1. \A j \in Client \ {k} : answer'[j] = answer[j] /\ (Refused(j)' <=> Refused(j))
  BY DEF TypeOK, ClientTypes, Refused
<1>2. Told' = [Told EXCEPT ![k] = IF Refused(k)' THEN NoAnswer ELSE answer'[k]]
  BY <1>1 DEF Told
<1> QED  BY <1>2

LEMMA StoreOf ==
  /\ DataSame => UNCHANGED Store
  /\ \A s \in Shard, k \in Client : Appended(s, k) => Store' = [Store EXCEPT ![s] = Append(@, k)]
BY DEF DataSame, Appended, Store

-----------------------------------------------------------------------------
\* Every step is one of the store's

LEMMA ClientBegins ==
  ASSUME Known, Known', PastInv, NEW k \in Client, Invoke(k)
  PROVE  StoreStep
<1>1. TypeOK /\ UNCHANGED Store  BY QuietData, StoreOf DEF Known, StoreSafe
<1>2. call[k] = NoCall /\ UNCHANGED answer /\ answer[k] = NoAnswer  BY DEF Invoke, PastInv, CallOK
<1>3. /\ call' = [call EXCEPT ![k] = call'[k]]
      /\ call'[k] \in [kind : {"Get", "Put"}, shard : Shard, version : Nat]
  <2>1. PICK s \in Shard : call' = [call EXCEPT ![k] = [kind |-> "Get", shard |-> s, version |-> 0]]
    BY DEF Invoke
  <2> QED  BY <1>1, <2>1 DEF TypeOK, ClientTypes
<1>4. answer' = [answer EXCEPT ![k] = answer'[k]] /\ answer'[k] = NoAnswer
  BY <1>1, <1>2 DEF TypeOK, ClientTypes
<1> QED  BY <1>1, <1>2, <1>3, <1>4, ToldOf, IsMoveOn

LEMMA ClientGoesOn ==
  ASSUME Known, Known', NEW k \in Client, Return(k)
  PROVE  StoreStep
<1>1. TypeOK /\ TypeOK' /\ UNCHANGED Store  BY QuietData, StoreOf DEF Known, StoreSafe, ClientStep
<1>2. answer[k] # NoAnswer /\ ~Refused(k) /\ answer' = [answer EXCEPT ![k] = NoAnswer]  BY DEF Return
<1>3. Told[k] # NoAnswer  BY <1>2 DEF Told
<1>4. call' = [call EXCEPT ![k] = call'[k]]  BY <1>1 DEF Return, TypeOK, ClientTypes
<1>5. call'[k] \in [kind : {"Get", "Put"}, shard : Shard, version : Nat] \cup {NoCall}
  BY <1>1 DEF TypeOK, ClientTypes
<1>6. answer' = [answer EXCEPT ![k] = answer'[k]] /\ answer'[k] = NoAnswer
  BY <1>1, <1>2 DEF TypeOK, ClientTypes
<1> QED  BY <1>1, <1>3, <1>4, <1>5, <1>6, ToldOf, IsMoveOn

LEMMA ClientTriesAgain ==
  ASSUME Known, Known', NEW k \in Client, Recall(k) \/ Reroute(k)
  PROVE  StoreStep
<1>1. TypeOK /\ UNCHANGED Store  BY QuietData, StoreOf DEF Known, StoreSafe, ClientStep
<1>2. UNCHANGED call /\ answer' = [answer EXCEPT ![k] = NoAnswer]  BY DEF Recall, Reroute
<1>3. Told' = [Told EXCEPT ![k] = NoAnswer]
  <2>1. answer' = [answer EXCEPT ![k] = answer'[k]] /\ answer'[k] = NoAnswer
    BY <1>1, <1>2 DEF TypeOK, ClientTypes
  <2> QED  BY <1>1, <2>1, ToldOf
<1>4. CASE Told[k] = NoAnswer
  <2>1. UNCHANGED Told  BY <1>3, <1>4 DEF Told
  <2> QED  BY <1>1, <1>2, <2>1, StoreStutters
<1>5. CASE Told[k] # NoAnswer  BY <1>1, <1>2, <1>3, <1>5, IsLoseAnswer
<1> QED  BY <1>4, <1>5

LEMMA CallIsServed ==
  ASSUME Known, Known', NEW k \in Client, ServeCall(k)
  PROVE  StoreStep
<1> DEFINE s == call[k].shard
<1> DEFINE v == Len(Data(s))
<1>1. TypeOK /\ s \in Shard /\ Store[s] = Data(s)
  BY ServeCallData DEF Known, StoreSafe, TypeOK, ClientTypes, Store
<1>2. /\ UNCHANGED call /\ call[k] # NoCall /\ answer[k] = NoAnswer
      /\ answer' = [answer EXCEPT ![k] = answer'[k]]
  BY ServeCallData
<1>3. \/ Refused(k)' /\ DataSame
      \/ /\ call[k].kind = "Get" /\ DataSame
         /\ answer'[k] = [err |-> IF v = 0 THEN "ErrNoKey" ELSE "OK", version |-> v]
      \/ /\ call[k].kind = "Put" /\ call[k].version = v /\ Appended(s, k)
         /\ answer'[k] = [err |-> "OK", version |-> 0]
      \/ /\ call[k].kind = "Put" /\ call[k].version # v /\ DataSame
         /\ answer'[k] = [err |-> IF v = 0 THEN "ErrNoKey" ELSE "ErrVersion", version |-> 0]
  BY ServeCallData
<1>4. Told[k] = NoAnswer  BY <1>2 DEF Told
<1>5. Told' = [Told EXCEPT ![k] = IF Refused(k)' THEN NoAnswer ELSE answer'[k]]  BY <1>1, <1>2, ToldOf
<1>6. CASE Refused(k)' /\ DataSame
  <2>1. UNCHANGED Told  BY <1>4, <1>5, <1>6 DEF Told
  <2> QED  BY <1>2, <1>6, <2>1, StoreOf, StoreStutters
<1>7. CASE /\ call[k].kind = "Get" /\ DataSame
           /\ answer'[k] = [err |-> IF v = 0 THEN "ErrNoKey" ELSE "OK", version |-> v]
  <2>1. ~Refused(k)'  BY <1>7 DEF Refused
  <2>2. Told' = [Told EXCEPT ![k] = [err |-> IF v = 0 THEN "ErrNoKey" ELSE "OK", version |-> v]]
    BY <1>5, <1>7, <2>1
  <2> QED  BY <1>1, <1>2, <1>4, <1>7, <2>2, StoreOf, IsGet
<1>8. CASE /\ call[k].kind = "Put" /\ call[k].version = v /\ Appended(s, k)
           /\ answer'[k] = [err |-> "OK", version |-> 0]
  <2>1. ~Refused(k)'  BY <1>8 DEF Refused
  <2>2. Told' = [Told EXCEPT ![k] = [err |-> "OK", version |-> 0]]  BY <1>5, <1>8, <2>1
  <2> QED  BY <1>1, <1>2, <1>4, <1>8, <2>2, StoreOf, IsPut
<1>9. CASE /\ call[k].kind = "Put" /\ call[k].version # v /\ DataSame
           /\ answer'[k] = [err |-> IF v = 0 THEN "ErrNoKey" ELSE "ErrVersion", version |-> 0]
  <2>1. ~Refused(k)'  BY <1>9 DEF Refused
  <2>2. Told' = [Told EXCEPT ![k] = [err |-> IF v = 0 THEN "ErrNoKey" ELSE "ErrVersion", version |-> 0]]
    BY <1>5, <1>9, <2>1
  <2> QED  BY <1>1, <1>2, <1>4, <1>9, <2>2, StoreOf, IsRefuse
<1> QED  BY <1>3, <1>6, <1>7, <1>8, <1>9

\* A put that is late takes effect only while its client is waiting.
LEMMA LatePutServed ==
  ASSUME Known, Known', PastInv, NEW req \in late, req \in AccessReq, ServeLate(req)
  PROVE  StoreStep
<1> DEFINE st == group[req.gid][req.shard]
<1>1. /\ Execute(req) /\ UNCHANGED <<conf, holder, controllerVars, call, answer>>
  BY DEF ServeLate, clientVars
<1>2. /\ st.owned => Data(req.shard) = st.data
      /\ Writes(st, req) => Appended(req.shard, req.by)
      /\ ~Writes(st, req) => DataSame
  BY <1>1, AccessData
<1>3. UNCHANGED Told  BY <1>1 DEF Told, Refused
<1>4. CASE ~Writes(st, req)  BY <1>1, <1>2, <1>3, <1>4, StoreOf, StoreStutters
<1>5. CASE Writes(st, req)
  <2>1. req.kind = "Put" /\ st.owned /\ req.version = Len(st.data)
    BY <1>5 DEF Writes, AccessErr
  <2>2. /\ req.by \in Client /\ req.shard \in Shard /\ TypeOK
    BY DEF AccessReq, Known, StoreSafe
  <2>3. Data(req.shard) = st.data /\ Data(req.shard) \in Seq(Client)
    BY <1>2, <2>1, <2>2 DEF Known, DataTyped
  <2>4. ~(req.version < Len(Data(req.shard)))
    <3>1. req.version = Len(Data(req.shard))  BY <2>1, <2>3
    <3>2. Len(Data(req.shard)) \in Nat  BY <2>3
    <3> HIDE DEF st
    <3> QED  BY <3>1, <3>2
  <2>5. call[req.by] = [kind |-> "Put", shard |-> req.shard, version |-> req.version]
    BY <2>1, <2>4 DEF PastInv, PutOK
  <2>6. /\ call[req.by].kind = "Put" /\ call[req.by].shard = req.shard
        /\ call[req.by].version = req.version /\ call[req.by] # NoCall
    BY <2>5 DEF NoCall
  <2>7. Told[req.by] = NoAnswer
    <3>1. CallOK(req.by)  BY <2>2 DEF PastInv
    <3> QED  BY <2>2, <2>4, <2>6, <3>1 DEF CallOK, Told
  <2>8. Store' = [Store EXCEPT ![req.shard] = Append(@, req.by)]  BY <1>2, <1>5, <2>2, StoreOf
  <2>9. Store[req.shard] = Data(req.shard)  BY <2>2 DEF Store
  <2> HIDE DEF st
  <2> QED  BY <1>1, <1>3, <2>1, <2>2, <2>3, <2>6, <2>7, <2>8, <2>9, IsPut
<1> QED  BY <1>4, <1>5

LEMMA NextIsStoreStep ==
  Known /\ Known' /\ PastInv /\ [Next /\ InstallsOnce]_vars => StoreStep
<1> SUFFICES ASSUME Known, Known', PastInv, [Next /\ InstallsOnce]_vars PROVE StoreStep  OBVIOUS
<1>1. CASE UNCHANGED vars
  <2>1. DataSame /\ UNCHANGED <<call, Told>>
    BY <1>1 DEF vars, clientVars, DataSame, Data, Home, Told, Refused
  <2> QED  BY <2>1, StoreOf, StoreStutters
<1>2. CASE Next /\ InstallsOnce
  <2>1. CASE \/ \E c \in Controller : \/ Begin(c) \/ Acquire(c) \/ ControllerStep(c)
                                      \/ ServeMove(c) \/ ServePublish(c) \/ Resend(c) \/ Crash(c)
             \/ \E req \in late : req \in MoveReq /\ ServeLate(req)
    <3>1. DataSame /\ UNCHANGED <<call, answer>>  BY <1>2, <2>1, MoveData
    <3>2. UNCHANGED Told  BY <3>1 DEF Told, Refused
    <3> QED  BY <3>1, <3>2, StoreOf, StoreStutters
  <2>2. CASE \E k \in Client : Invoke(k) \/ ServeCall(k) \/ Recall(k) \/ ClientStep(k)
    BY <2>2, ClientBegins, CallIsServed, ClientTriesAgain, ClientGoesOn DEF ClientStep
  <2>3. CASE \E req \in late : req \in AccessReq /\ ServeLate(req)
    BY <2>3, LatePutServed
  <2>4. \A req \in late : req \in MoveReq \/ req \in AccessReq
    BY LateEffect DEF Known, StoreSafe
  <2> QED  BY <1>2, <2>1, <2>2, <2>3, <2>4 DEF Next
<1> QED  BY <1>1, <1>2

\* The store keeps its promise while shards move, as long as InstallShard takes effect
\* once (controller.go, client.go of shardgrp and shardkv, server.go of shardgrp).
THEOREM ShardsAreOneStore ==
  ASSUME Group # {}
  PROVE  OnceSpec => ImplementsShardStore
<1>1. Init /\ Known => store!Init
  <2> SUFFICES ASSUME Init, Known PROVE store!Init  OBVIOUS
  <2>1. ASSUME NEW s \in Shard PROVE Data(s) = <<>>
    <3>1. Untouched(s)  BY DEF Init, Untouched
    <3> QED  BY <3>1, HomeFree
  <2>2. Store = [s \in Shard |-> <<>>]  BY <2>1 DEF Store
  <2>3. Told = [k \in Client |-> NoAnswer]  BY DEF Init, Told
  <2>4. call = [k \in Client |-> NoCall]  BY DEF Init
  <2> QED  BY <2>2, <2>3, <2>4 DEF store!Init, store!NoCall, store!NoAnswer, NoCall, NoAnswer, Store, Told, Data
<1>2. Known /\ Known' /\ PastInv /\ [Next /\ InstallsOnce]_vars => [store!Next]_store!vars
  BY NextIsStoreStep DEF StoreStep
<1> QED  BY <1>1, <1>2, VersionsOfThePast, PTL DEF OnceSpec, ImplementsShardStore, store!Spec

-----------------------------------------------------------------------------
\* Replays

WritesStand ==
  \A g \in Group, s \in Shard :
    group[g][s].owned /\ group'[g][s].owned /\ group'[g][s].num = group[g][s].num =>
      Len(group[g][s].data) <= Len(group'[g][s].data)

LEMMA NextWritesStand ==
  StoreSafe /\ [Next /\ InstallsOnce]_vars => WritesStand
<1> SUFFICES ASSUME TypeOK, MoveInv, StoreInv, [Next /\ InstallsOnce]_vars, NEW g \in Group, NEW s \in Shard,
                    group[g][s].owned, group'[g][s].owned, group'[g][s].num = group[g][s].num,
                    group'[g][s] # group[g][s]
             PROVE  Len(group[g][s].data) <= Len(group'[g][s].data)
  <2>1. \A g \in Group, s \in Shard : Len(group[g][s].data) \in Nat
    BY DEF StoreSafe, TypeOK, GroupTypes
  <2> QED  BY <2>1 DEF StoreSafe, WritesStand
<1> DEFINE st == group[g][s]
<1>1. st \in ShardState  BY DEF TypeOK, GroupTypes, ShardState
<1>2. ASSUME NEW req, req \in AccessReq \/ req \in MoveReq, Execute(req)
      PROVE  req.gid = g /\ req.shard = s /\ group'[g][s] = DoOp(st, req)
  <2>1. req.gid \in Group /\ req.shard \in Shard  BY <1>2 DEF AccessReq, MoveReq
  <2>2. group[req.gid][req.shard] \in ShardState  BY <2>1 DEF TypeOK, GroupTypes, ShardState
  <2>3. DoOp(group[req.gid][req.shard], req) \in ShardState
    BY <1>2, <2>2, AccessEffect, MoveEffect
  <2>4. GroupTypes  BY DEF TypeOK
  <2> QED  BY <1>2, <2>1, <2>3, <2>4, ExecuteEffect
<1>3. ASSUME NEW req \in AccessReq, Execute(req)
      PROVE  Len(st.data) <= Len(group'[g][s].data)
  <2>1. req.gid = g /\ req.shard = s /\ group'[g][s] = DoOp(st, req)  BY <1>2, <1>3
  <2>2. group'[g][s].data = Append(st.data, req.by)
    BY <1>1, <2>1 DEF DoOp, AccessReq, Moves, ShardState
  <2>3. st.data \in Seq(Client) /\ req.by \in Client  BY <1>1, <1>3 DEF ShardState, AccessReq
  <2> HIDE DEF st
  <2>4. Len(st.data) \in Nat /\ Len(Append(st.data, req.by)) = Len(st.data) + 1  BY <2>3
  <2> QED  BY <2>2, <2>4
<1>4. ASSUME NEW c \in Controller, ServeMove(c) PROVE FALSE
  <2>1. /\ holder = c /\ Working /\ index[c] \in Shard /\ Move(c) \in MoveReq /\ reply[c] = NoReply
        /\ Move(c).gid = g /\ index[c] = s /\ pc[c] = "Install"
    BY <1>4, ServeMoveEffect
  <2>2. InTransit(s)  BY <2>1 DEF Working, InTransit
  <2>3. Source(s) \in Group \cup {NoGroup}  BY <2>2, AssignedTypes DEF InTransit
  <2>4. CASE Source(s) = NoGroup  BY <2>1, <2>2, <2>4 DEF Free, StoreInv, VacantInv, Untouched
  <2>5. CASE Source(s) \in Group  BY <2>1, <2>2, <2>5 DEF FrozenAt, StoreInv, TransitInv
  <2> QED  BY <2>3, <2>4, <2>5
<1>5. ASSUME NEW req \in late, ServeLate(req), req \in MoveReq, InstallsOnce PROVE FALSE
  <2>1. req.kind # "Install" /\ Execute(req)
    BY <1>5, LateInstall DEF ServeLate
  <2>2. req.gid = g /\ req.shard = s /\ group'[g][s] = DoOp(st, req)
    BY <1>2, <1>5, <2>1
  <2> QED  BY <1>1, <1>5, <2>1, <2>2, MoveEffect
<1>6. CASE UNCHANGED group  BY <1>6
<1>7. CASE \E c \in Controller : ServeMove(c)  BY <1>4, <1>7
<1>8. CASE \E k \in Client : ServeCall(k)  BY <1>3, <1>8, RequestType DEF ServeCall, TypeOK
<1>9. CASE InstallsOnce /\ \E req \in late : ServeLate(req)
  <2>1. PICK req \in late : ServeLate(req)  BY <1>9
  <2>2. req \in MoveReq \/ req \in AccessReq  BY LateEffect
  <2> QED  BY <1>3, <1>5, <1>9, <2>1, <2>2 DEF ServeLate
<1>10. CASE \/ \E c \in Controller : \/ Begin(c) \/ Acquire(c) \/ ControllerStep(c)
                                     \/ ServePublish(c) \/ Resend(c) \/ Crash(c)
            \/ \E k \in Client : Invoke(k) \/ Recall(k) \/ ClientStep(k)
            \/ UNCHANGED vars
  <2>1. UNCHANGED group
    BY <1>10 DEF Begin, Acquire, ControllerStep, Read, Proceed, Release, ServePublish, Resend, Crash,
       Invoke, Recall, ClientStep, Reroute, Return, vars
  <2> QED  BY <2>1, <1>6
<1> QED  BY <1>7, <1>8, <1>9, <1>10 DEF Next

\* Every replay that the groups can get is rejected, as long as InstallShard takes
\* effect once: FreezeShard and DeleteShard are no danger to a shard in service
\* (architecture.md:271, server.go DoOp).
THEOREM OtherReplaysRejected == OnceSpec => ReplaysRejected
<1>1. StoreSafe /\ [Next /\ InstallsOnce]_vars => [WritesStand]_vars  BY NextWritesStand
<1>2. StoreSafe <=> TypeOK /\ MoveInv /\ StoreInv  BY DEF StoreSafe
<1>3. OnceSpec => [][WritesStand]_vars
  BY <1>1, <1>2, OnceIsSpec, TypeCorrect, MovesInOrder, DataInPlace, PTL DEF OnceSpec
<1> QED  BY <1>3 DEF ReplaysRejected, WritesStand
=============================================================================
