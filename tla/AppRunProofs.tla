---------------------------- MODULE AppRunProofs ----------------------------
(***************************************************************************)
(* Proofs about AppRun, and with it about the server of SampleApp: typing, *)
(* rows that belong to their user, answers that are not overwritten by     *)
(* older ones, and handlers that keep their database.                      *)
(***************************************************************************)
EXTENDS AppRun, TLAPS, SequenceTheorems

-----------------------------------------------------------------------------
\* The strengthening.

MainTyped ==
    /\ main \in {"setup", "open", "wire", "run", "shutdown", "closing", "cleanup",
                "exited", "fatal"}
    /\ env \in {"none", "up", "stopped"}
    /\ ctxDone \in BOOLEAN
    /\ serve \in {"idle", "serving", "failed", "closed", "ended"}
    /\ errCh \in {"empty", "failed", "closed"}

\* An answer that was fetched is one the remote has given by now.
Fetched ==
    \A f \in App!Save :
        save[f].pc \in {"storing", "stored"} => save[f].body <= remote[save[f].key]

\* What was stored before a save was accepted is not newer than its answer.
Ordered ==
    \A f \in App!Save : \A g \in save[f].after :
        /\ save[g].pc = "stored"
        /\ save[g].key = save[f].key /\ save[f].pc \in {"storing", "stored"}
              => save[g].body <= save[f].body

AppInv == App!TypeOK /\ App!RowsAreOwn /\ Fetched /\ Ordered

-----------------------------------------------------------------------------
\* What the steps of a save do to the sequence of saves.

\* The same record changed in one place.
Changed(f, e) ==
    /\ DOMAIN save' = DOMAIN save
    /\ Len(save') = Len(save)
    /\ save' \in Seq(App!SaveState)
    /\ save'[f] = e
    /\ \A g \in App!Save : g # f => save'[g] = save[g]

\* A save of the sequence is a save state, and its number a position.
LEMMA SaveTyped ==
    ASSUME App!TypeOK, NEW f \in App!Save
    PROVE  /\ f \in 1 .. Len(save)
           /\ save[f] \in App!SaveState
           /\ App!Save = 1 .. Len(save)
           /\ Len(save) \in Nat
BY ElementOfSeq, LenProperties DEF App!TypeOK, App!Save

\* Replacing one element by another save state changes nothing else.
LEMMA Replacing ==
    ASSUME App!TypeOK, NEW f \in App!Save, NEW e \in App!SaveState,
           save' = [save EXCEPT ![f] = e]
    PROVE  Changed(f, e)
<1>1. f \in 1 .. Len(save) /\ App!Save = 1 .. Len(save)
  BY SaveTyped
<1>2. save \in Seq(App!SaveState)
  BY DEF App!TypeOK
<1> QED
  BY <1>1, <1>2, ExceptSeq DEF Changed, App!Save

\* Fetch records the answer.
LEMMA FetchChanges ==
    ASSUME App!TypeOK, NEW f \in App!Save, App!Fetch(f)
    PROVE  /\ Changed(f, [save[f] EXCEPT !.pc = "storing", !.body = remote[save[f].key]])
           /\ save[f].pc = "fetching"
           /\ UNCHANGED <<req, rows, remote, dbOpen>>
<1> DEFINE e == [save[f] EXCEPT !.pc = "storing", !.body = remote[save[f].key]]
<1>1. save[f] \in App!SaveState
  BY SaveTyped
<1>2. remote[save[f].key] \in Nat
  BY <1>1 DEF App!TypeOK, App!SaveState
<1>3. e \in App!SaveState
  BY <1>1, <1>2 DEF App!SaveState
<1>4. save' = [save EXCEPT ![f] = e]
  BY DEF App!Fetch
<1> QED
  BY <1>3, <1>4, Replacing DEF App!Fetch

\* Store and SaveFails only move the save on.
LEMMA StoreChanges ==
    ASSUME App!TypeOK, NEW f \in App!Save, App!Store(f)
    PROVE  /\ Changed(f, [save[f] EXCEPT !.pc = "stored"])
           /\ save[f].pc = "storing"
           /\ rows' = [rows EXCEPT ![<<save[f].user, save[f].key>>] = f]
           /\ UNCHANGED <<req, remote, dbOpen>>
<1> DEFINE e == [save[f] EXCEPT !.pc = "stored"]
<1>1. e \in App!SaveState
  BY SaveTyped DEF App!SaveState
<1>2. save' = [save EXCEPT ![f] = e]
  BY DEF App!Store
<1> QED
  BY <1>1, <1>2, Replacing DEF App!Store, App!OneUpsert, App!RowOf

LEMMA FailChanges ==
    ASSUME App!TypeOK, NEW f \in App!Save, App!SaveFails(f)
    PROVE  /\ Changed(f, [save[f] EXCEPT !.pc = "failed"])
           /\ save[f].pc \in {"fetching", "storing"}
           /\ UNCHANGED <<req, rows, remote, dbOpen>>
<1> DEFINE e == [save[f] EXCEPT !.pc = "failed"]
<1>1. e \in App!SaveState
  BY SaveTyped DEF App!SaveState
<1>2. save' = [save EXCEPT ![f] = e]
  BY DEF App!SaveFails
<1> QED
  BY <1>1, <1>2, Replacing DEF App!SaveFails

\* HandleSave adds a save that has fetched nothing, after the stored ones.
LEMMA HandleSaveAdds ==
    ASSUME App!TypeOK, NEW r \in Request, App!HandleSave(r)
    PROVE  /\ Len(save') = Len(save) + 1
           /\ Len(save') <= MaxSaves
           /\ DOMAIN save' = 1 .. Len(save')
           /\ save' \in Seq(App!SaveState')
           /\ \A f \in App!Save : save'[f] = save[f]
           /\ save'[Len(save')].pc = "fetching"
           /\ save'[Len(save')].after = {f \in App!Save : save[f].pc = "stored"}
<1> DEFINE e == [pc |-> "fetching", user |-> req[r].user, key |-> req[r].key,
                 by |-> r, body |-> 0,
                 after |-> {f \in App!Save : save[f].pc = "stored"}]
           n == Len(save)
           T == [pc : {"fetching", "storing", "stored", "failed"}, user : User, key : Key,
                 by : Request, body : Nat, after : SUBSET (1 .. n + 1)]
<1>1. save \in Seq(App!SaveState) /\ n \in Nat /\ App!Save = 1 .. n
  BY LenProperties DEF App!TypeOK, App!Save
<1>2. save' = Append(save, e) /\ n < MaxSaves /\ req[r].pc = "save"
  BY DEF App!HandleSave
<1>3. req[r].user \in User /\ req[r].key \in Key
  <2>1. req[r] \in App!RequestState
    BY DEF App!TypeOK
  <2> QED
    BY <2>1, <1>2 DEF App!RequestState
<1>4. e \in T
  BY <1>1, <1>3
<1>5. save \in Seq(T)
  <2>1. App!SaveState \subseteq T
    BY <1>1 DEF App!SaveState
  <2>2. \A i \in 1 .. n : save[i] \in T
    BY <1>1, <2>1, ElementOfSeq
  <2>3. save \in [1 .. n -> T]
    BY <1>1, <2>2, LenProperties
  <2> HIDE DEF T, n
  <2>4. \E m \in Nat : save \in [1 .. m -> T]
    BY <1>1, <2>3
  <2> QED
    BY <2>4, SeqDef
<1>6. /\ Append(save, e) \in Seq(T)
      /\ Len(Append(save, e)) = n + 1
      /\ \A i \in 1 .. n : Append(save, e)[i] = save[i]
      /\ Append(save, e)[n + 1] = e
  BY <1>4, <1>5, AppendProperties
<1>7. save' \in Seq(T) /\ Len(save') = n + 1 /\ save'[n + 1] = e
  BY <1>2, <1>6
<1>8. DOMAIN save' = 1 .. n + 1
  BY <1>7, LenProperties
<1>9. App!SaveState' = T
  BY <1>8 DEF App!SaveState, App!Save
<1>10. n + 1 <= MaxSaves
  BY <1>1, <1>2, AppRunAssumptions
<1> QED
  BY <1>1, <1>2, <1>6, <1>7, <1>8, <1>9, <1>10

-----------------------------------------------------------------------------
\* Preservation, one lemma per step of the server.

\* What the requests and the handlers that start no save leave alone.
LEMMA RequestsKeep ==
    ASSUME App!TypeOK, NEW r \in Request,
           \/ \E op \in {"save", "lookup"}, u \in User, k \in Key : App!Accept(r, op, u, k)
           \/ App!AcceptBad(r) \/ App!Refuse(r) \/ App!HandleLookup(r) \/ App!Reply(r)
    PROVE  req' \in [Request -> App!RequestState] /\ UNCHANGED <<save, rows, remote, dbOpen>>
<1>0. req \in [Request -> App!RequestState] /\ Len(save) \in Nat
  BY LenProperties DEF App!TypeOK
<1>1. CASE \E op \in {"save", "lookup"}, u \in User, k \in Key : App!Accept(r, op, u, k)
  <2>1. PICK op \in {"save", "lookup"}, u \in User, k \in Key : App!Accept(r, op, u, k)
    BY <1>1
  <2>2. [pc |-> op, user |-> u, key |-> k] \in App!RequestState
    BY DEF App!RequestState
  <2> QED
    BY <2>1, <2>2, <1>0 DEF App!Accept
<1>2. CASE App!AcceptBad(r)
  <2>1. [pc |-> "refuse"] \in App!RequestState
    BY DEF App!RequestState
  <2> QED
    BY <2>1, <1>0, <1>2 DEF App!AcceptBad
<1>3. CASE App!Refuse(r)
  <2>1. [pc |-> "answer", status |-> "refused", save |-> 0] \in App!RequestState
    BY <1>0 DEF App!RequestState
  <2> QED
    BY <2>1, <1>0, <1>3 DEF App!Refuse, App!Answer
<1>4. CASE App!HandleLookup(r)
  <2> DEFINE f == rows[<<req[r].user, req[r].key>>]
             s == IF ~dbOpen THEN "error" ELSE IF f = 0 THEN "notFound" ELSE "ok"
  <2>1. req[r].user \in User /\ req[r].key \in Key
    <3>1. req[r].pc = "lookup" /\ req[r] \in App!RequestState
      BY <1>0, <1>4 DEF App!HandleLookup
    <3> QED
      BY <3>1 DEF App!RequestState
  <2>2. f \in 0 .. Len(save)
    BY <2>1 DEF App!TypeOK
  <2>3. [pc |-> "answer", status |-> s, save |-> f] \in App!RequestState
    BY <2>2 DEF App!RequestState
  <2>4. req' = [req EXCEPT ![r] = [pc |-> "answer", status |-> s, save |-> f]]
    BY <1>4 DEF App!HandleLookup, App!Answer, App!RowOf
  <2> QED
    BY <2>3, <2>4, <1>0, <1>4 DEF App!HandleLookup
<1>5. CASE App!Reply(r)
  <2>1. [pc |-> "none"] \in App!RequestState
    BY DEF App!RequestState
  <2> QED
    BY <2>1, <1>0, <1>5 DEF App!Reply, App!NoRequest
<1> QED
  BY <1>1, <1>2, <1>3, <1>4, <1>5

\* What depends on the saves, the rows and the remote alone is kept with them.
LEMMA StandsStill ==
    ASSUME AppInv, UNCHANGED <<save, rows, remote>>,
           req' \in [Request -> App!RequestState], dbOpen' \in BOOLEAN
    PROVE  AppInv'
<1>1. App!RequestState' = App!RequestState /\ App!SaveState' = App!SaveState /\ App!Save' = App!Save
  BY DEF App!RequestState, App!SaveState, App!Save
<1>2. App!TypeOK'
  BY <1>1 DEF AppInv, App!TypeOK
<1>3. App!RowsAreOwn' /\ Fetched' /\ Ordered'
  BY <1>1 DEF AppInv, App!RowsAreOwn, App!RowOf, Fetched, Ordered
<1> QED
  BY <1>2, <1>3 DEF AppInv

LEMMA HandleSaveStep ==
    ASSUME AppInv, NEW r \in Request, App!HandleSave(r)
    PROVE  AppInv'
<1> DEFINE n == Len(save)
<1>0. App!TypeOK /\ App!RowsAreOwn /\ Fetched /\ Ordered
  BY DEF AppInv
<1>1. n \in Nat /\ App!Save = 1 .. n /\ Len(save') = n + 1 /\ App!Save' = 1 .. n + 1
  BY <1>0, HandleSaveAdds, LenProperties DEF App!TypeOK, App!Save
<1>2. /\ \A f \in 1 .. n : save'[f] = save[f]
      /\ save'[n + 1].pc = "fetching"
      /\ save'[n + 1].after = {f \in 1 .. n : save[f].pc = "stored"}
  BY <1>0, <1>1, HandleSaveAdds
<1>3. rows' = rows /\ remote' = remote /\ dbOpen' = dbOpen
  BY DEF App!HandleSave
<1>4. App!TypeOK'
  <2>1. req' \in [Request -> App!RequestState']
    <3>1. App!RequestState \subseteq App!RequestState'
      BY <1>1 DEF App!RequestState
    <3>2. [pc |-> "answer", status |-> "accepted", save |-> Len(save')] \in App!RequestState'
      BY <1>1 DEF App!RequestState
    <3>3. req' = [req EXCEPT ![r] = [pc |-> "answer", status |-> "accepted", save |-> Len(save')]]
      BY DEF App!HandleSave, App!Answer
    <3>4. req \in [Request -> App!RequestState]
      BY <1>0 DEF App!TypeOK
    <3> QED
      BY <3>1, <3>2, <3>3, <3>4
  <2>2. save' \in Seq(App!SaveState') /\ Len(save') <= MaxSaves
    BY <1>0, HandleSaveAdds
  <2>3. rows' \in [User \X Key -> 0 .. Len(save')]
    BY <1>0, <1>1, <1>3 DEF App!TypeOK
  <2> QED
    BY <2>1, <2>2, <2>3, <1>0, <1>3 DEF App!TypeOK
<1>5. App!RowsAreOwn'
  <2> SUFFICES ASSUME NEW u \in User, NEW k \in Key, rows'[<<u, k>>] # 0
               PROVE  LET f == rows'[<<u, k>>] IN
                      save'[f].user = u /\ save'[f].key = k /\ save'[f].pc = "stored"
    BY DEF App!RowsAreOwn, App!RowOf
  <2>1. rows[<<u, k>>] \in 1 .. n
    BY <1>0, <1>1, <1>3 DEF App!TypeOK
  <2> QED
    BY <2>1, <1>0, <1>2, <1>3 DEF App!RowsAreOwn, App!RowOf
<1>6. Fetched'
  BY <1>0, <1>1, <1>2, <1>3 DEF Fetched
<1>7. Ordered'
  <2> SUFFICES ASSUME NEW f \in 1 .. n + 1, NEW g \in save'[f].after
               PROVE  /\ save'[g].pc = "stored"
                      /\ save'[g].key = save'[f].key /\ save'[f].pc \in {"storing", "stored"}
                            => save'[g].body <= save'[f].body
    BY <1>1 DEF Ordered
  <2>1. CASE f = n + 1
    BY <2>1, <1>2
  <2>2. CASE f # n + 1
    <3>1. f \in 1 .. n /\ save'[f] = save[f]
      BY <2>2, <1>1, <1>2
    <3>2. g \in 1 .. n /\ save'[g] = save[g]
      <4>1. save[f] \in App!SaveState
        BY <3>1, <1>0, <1>1, SaveTyped
      <4> QED
        BY <4>1, <3>1, <1>1, <1>2 DEF App!SaveState
    <3> QED
      BY <3>1, <3>2, <1>0, <1>1 DEF Ordered
  <2> QED
    BY <2>1, <2>2
<1> QED
  BY <1>4, <1>5, <1>6, <1>7 DEF AppInv

\* Typing after a step that replaces one save.
LEMMA ReplacedTyped ==
    ASSUME App!TypeOK, NEW f \in App!Save, NEW e, Changed(f, e),
           rows' \in [User \X Key -> 0 .. Len(save)],
           UNCHANGED <<req, remote, dbOpen>>
    PROVE  App!TypeOK' /\ App!Save' = App!Save
<1>1. App!Save' = App!Save /\ Len(save') = Len(save)
  BY DEF App!Save, Changed
<1>2. App!SaveState' = App!SaveState /\ App!RequestState' = App!RequestState
  BY <1>1 DEF App!SaveState, App!RequestState
<1> QED
  BY <1>1, <1>2 DEF App!TypeOK, Changed

\* What was stored before a save is a save, and another one.
LEMMA AfterIsSave ==
    ASSUME App!TypeOK, NEW f \in App!Save, NEW g \in save[f].after
    PROVE  g \in App!Save
BY SaveTyped DEF App!SaveState

LEMMA FetchStep ==
    ASSUME AppInv, NEW f \in App!Save, App!Fetch(f)
    PROVE  AppInv'
<1> DEFINE e == [save[f] EXCEPT !.pc = "storing", !.body = remote[save[f].key]]
<1>0. App!TypeOK /\ App!RowsAreOwn /\ Fetched /\ Ordered
  BY DEF AppInv
<1>1. Changed(f, e) /\ save[f].pc = "fetching" /\ UNCHANGED <<req, rows, remote, dbOpen>>
  BY <1>0, FetchChanges
<1>2. App!TypeOK' /\ App!Save' = App!Save
  BY <1>0, <1>1, ReplacedTyped DEF App!TypeOK
<1>3. save[f] \in App!SaveState /\ remote[save[f].key] \in Nat
  BY <1>0, SaveTyped DEF App!TypeOK, App!SaveState
<1>4. /\ save'[f].pc = "storing" /\ save'[f].body = remote[save[f].key]
      /\ save'[f].user = save[f].user /\ save'[f].key = save[f].key
      /\ save'[f].after = save[f].after
      /\ \A g \in App!Save : g # f => save'[g] = save[g]
  BY <1>1, <1>3 DEF App!SaveState, Changed
<1>5. App!RowsAreOwn'
  <2> SUFFICES ASSUME NEW u \in User, NEW k \in Key, rows'[<<u, k>>] # 0
               PROVE  LET g == rows'[<<u, k>>] IN
                      save'[g].user = u /\ save'[g].key = k /\ save'[g].pc = "stored"
    BY DEF App!RowsAreOwn, App!RowOf
  <2>1. rows[<<u, k>>] \in App!Save /\ rows' = rows
    BY <1>0, <1>1, SaveTyped DEF App!TypeOK
  <2> QED
    BY <2>1, <1>0, <1>1, <1>4 DEF App!RowsAreOwn, App!RowOf
<1>6. Fetched'
  BY <1>0, <1>1, <1>2, <1>3, <1>4 DEF Fetched
<1>7. Ordered'
  <2> SUFFICES ASSUME NEW h \in App!Save, NEW g \in save'[h].after
               PROVE  /\ save'[g].pc = "stored"
                      /\ save'[g].key = save'[h].key /\ save'[h].pc \in {"storing", "stored"}
                            => save'[g].body <= save'[h].body
    BY <1>2 DEF Ordered
  <2>1. g \in save[h].after
    BY <1>4
  <2>2. save[g].pc = "stored" /\ g \in App!Save
    BY <2>1, <1>0, AfterIsSave DEF Ordered
  <2>3. save'[g] = save[g]
    BY <2>2, <1>1, <1>4
  <2>4. CASE h = f
    BY <2>2, <2>3, <2>4, <1>0, <1>4 DEF Fetched
  <2>5. CASE h # f
    BY <2>1, <2>3, <2>5, <1>0, <1>4 DEF Ordered
  <2> QED
    BY <2>4, <2>5
<1> QED
  BY <1>2, <1>5, <1>6, <1>7 DEF AppInv

\* A save that moves on, to "stored" or "failed", with the answer it has.
LEMMA MovesOn ==
    ASSUME AppInv, NEW f \in App!Save, NEW to \in {"stored", "failed"},
           Changed(f, [save[f] EXCEPT !.pc = to]),
           save[f].pc \in {"fetching", "storing"},
           to = "stored" => save[f].pc = "storing",
           UNCHANGED remote
    PROVE  /\ App!Save' = App!Save
           /\ save'[f].pc = to /\ save'[f].user = save[f].user /\ save'[f].key = save[f].key
           /\ \A g \in App!Save : g # f => save'[g] = save[g]
           /\ Fetched'
           /\ Ordered'
<1>0. App!TypeOK /\ App!RowsAreOwn /\ Fetched /\ Ordered
  BY DEF AppInv
<1>1. App!Save' = App!Save
  BY DEF Changed, App!Save
<1>2. save[f] \in App!SaveState
  BY <1>0, SaveTyped
<1>3. /\ save'[f].pc = to /\ save'[f].body = save[f].body
      /\ save'[f].user = save[f].user /\ save'[f].key = save[f].key
      /\ save'[f].after = save[f].after
      /\ \A g \in App!Save : g # f => save'[g] = save[g]
  BY <1>2 DEF App!SaveState, Changed
<1>4. Fetched'
  BY <1>0, <1>1, <1>3 DEF Fetched
<1>5. Ordered'
  <2> SUFFICES ASSUME NEW h \in App!Save, NEW g \in save'[h].after
               PROVE  /\ save'[g].pc = "stored"
                      /\ save'[g].key = save'[h].key /\ save'[h].pc \in {"storing", "stored"}
                            => save'[g].body <= save'[h].body
    BY <1>1 DEF Ordered
  <2>1. g \in save[h].after
    BY <1>3
  <2>2. save[g].pc = "stored" /\ g \in App!Save
    BY <2>1, <1>0, AfterIsSave DEF Ordered
  <2>3. save'[g] = save[g]
    BY <2>2, <1>3
  <2>4. save'[h].key = save[h].key /\ save'[h].body = save[h].body
    BY <1>3
  <2>5. save'[h].pc \in {"storing", "stored"} => save[h].pc \in {"storing", "stored"}
    BY <1>3
  <2> QED
    BY <2>1, <2>2, <2>3, <2>4, <2>5, <1>0 DEF Ordered
<1> QED
  BY <1>1, <1>3, <1>4, <1>5

LEMMA StoreStep ==
    ASSUME AppInv, NEW f \in App!Save, App!Store(f)
    PROVE  AppInv'
<1>0. App!TypeOK /\ App!RowsAreOwn
  BY DEF AppInv
<1>1. /\ Changed(f, [save[f] EXCEPT !.pc = "stored"])
      /\ save[f].pc = "storing"
      /\ rows' = [rows EXCEPT ![<<save[f].user, save[f].key>>] = f]
      /\ UNCHANGED <<req, remote, dbOpen>>
  BY <1>0, StoreChanges
<1>2. save[f].user \in User /\ save[f].key \in Key /\ f \in 1 .. Len(save) /\ Len(save) \in Nat
  BY <1>0, SaveTyped DEF App!SaveState
<1>3. App!TypeOK'
  <2>1. rows' \in [User \X Key -> 0 .. Len(save)]
    BY <1>0, <1>1, <1>2 DEF App!TypeOK
  <2> QED
    BY <2>1, <1>0, <1>1, ReplacedTyped
<1>4. /\ save'[f].pc = "stored" /\ save'[f].user = save[f].user /\ save'[f].key = save[f].key
      /\ \A g \in App!Save : g # f => save'[g] = save[g]
      /\ Fetched' /\ Ordered'
  BY <1>1, MovesOn
<1>5. App!RowsAreOwn'
  <2> SUFFICES ASSUME NEW u \in User, NEW k \in Key, rows'[<<u, k>>] # 0
               PROVE  LET g == rows'[<<u, k>>] IN
                      save'[g].user = u /\ save'[g].key = k /\ save'[g].pc = "stored"
    BY DEF App!RowsAreOwn, App!RowOf
  <2>1. rows \in [User \X Key -> 0 .. Len(save)]
    BY <1>0 DEF App!TypeOK
  <2>2. CASE u = save[f].user /\ k = save[f].key
    BY <2>1, <2>2, <1>1, <1>4
  <2>3. CASE ~(u = save[f].user /\ k = save[f].key)
    <3>1. rows'[<<u, k>>] = rows[<<u, k>>]
      BY <2>1, <2>3, <1>1
    <3>2. rows[<<u, k>>] \in App!Save
      BY <3>1, <2>1, <1>0, <1>2, SaveTyped
    <3>3. save[rows[<<u, k>>]].pc = "stored" /\ rows[<<u, k>>] # f
      BY <3>1, <1>0, <1>1 DEF App!RowsAreOwn, App!RowOf
    <3> QED
      BY <3>1, <3>2, <3>3, <1>0, <1>4 DEF App!RowsAreOwn, App!RowOf
  <2> QED
    BY <2>2, <2>3
<1> QED
  BY <1>3, <1>4, <1>5 DEF AppInv

LEMMA SaveFailsStep ==
    ASSUME AppInv, NEW f \in App!Save, App!SaveFails(f)
    PROVE  AppInv'
<1>0. App!TypeOK /\ App!RowsAreOwn
  BY DEF AppInv
<1>1. /\ Changed(f, [save[f] EXCEPT !.pc = "failed"])
      /\ save[f].pc \in {"fetching", "storing"}
      /\ UNCHANGED <<req, rows, remote, dbOpen>>
  BY <1>0, FailChanges
<1>2. App!TypeOK'
  BY <1>0, <1>1, ReplacedTyped DEF App!TypeOK
<1>3. (\A g \in App!Save : g # f => save'[g] = save[g]) /\ Fetched' /\ Ordered'
  BY <1>1, MovesOn
<1>4. App!RowsAreOwn'
  <2> SUFFICES ASSUME NEW u \in User, NEW k \in Key, rows'[<<u, k>>] # 0
               PROVE  LET g == rows'[<<u, k>>] IN
                      save'[g].user = u /\ save'[g].key = k /\ save'[g].pc = "stored"
    BY DEF App!RowsAreOwn, App!RowOf
  <2>1. rows[<<u, k>>] \in App!Save /\ rows' = rows
    BY <1>0, <1>1, SaveTyped DEF App!TypeOK
  <2>2. save[rows[<<u, k>>]].pc = "stored"
    BY <2>1, <1>0 DEF App!RowsAreOwn, App!RowOf
  <2>3. rows[<<u, k>>] # f
    BY <2>2, <1>1
  <2> QED
    BY <2>1, <2>3, <1>0, <1>3 DEF App!RowsAreOwn, App!RowOf
<1> QED
  BY <1>2, <1>3, <1>4 DEF AppInv

\* A later answer of the remote is a greater one.
LEMMA RemoteChangesStep ==
    ASSUME AppInv, NEW k \in Key, RemoteChanges(k)
    PROVE  AppInv'
<1>0. App!TypeOK /\ App!RowsAreOwn /\ Fetched /\ Ordered
  BY DEF AppInv
<1>1. remote' = [remote EXCEPT ![k] = @ + 1] /\ UNCHANGED <<req, save, rows, dbOpen>>
  BY DEF RemoteChanges
<1>2. remote' \in [Key -> Nat] /\ \A x \in Key : remote[x] \in Nat /\ remote[x] <= remote'[x]
  BY <1>0, <1>1 DEF App!TypeOK
<1>3. App!RequestState' = App!RequestState /\ App!SaveState' = App!SaveState /\ App!Save' = App!Save
  BY <1>1 DEF App!RequestState, App!SaveState, App!Save
<1>4. App!TypeOK'
  BY <1>0, <1>1, <1>2, <1>3 DEF App!TypeOK
<1>5. Fetched'
  <2> SUFFICES ASSUME NEW f \in App!Save, save[f].pc \in {"storing", "stored"}
               PROVE  save[f].body <= remote'[save[f].key]
    BY <1>1, <1>3 DEF Fetched
  <2>1. save[f].key \in Key /\ save[f].body \in Nat
    BY <1>0, SaveTyped DEF App!SaveState
  <2>2. save[f].body <= remote[save[f].key]
    BY <1>0 DEF Fetched
  <2>3. remote[save[f].key] \in Nat /\ remote'[save[f].key] \in Nat
        /\ remote[save[f].key] <= remote'[save[f].key]
    BY <2>1, <1>2
  <2> QED
    BY <2>1, <2>2, <2>3
<1>6. App!RowsAreOwn' /\ Ordered'
  BY <1>0, <1>1, <1>3 DEF App!RowsAreOwn, App!RowOf, Ordered
<1> QED
  BY <1>4, <1>5, <1>6 DEF AppInv

-----------------------------------------------------------------------------
\* Every step is one of main and the environment, or one of the server.

LEMMA MainIsApart ==
    ASSUME AppInv, MainTyped,
           \/ Interrupt \/ MainStep \/ ServeFails \/ ServeStep
    PROVE  /\ MainTyped' /\ AppInv' /\ UNCHANGED <<req, save, rows, remote>>
<1>1. UNCHANGED <<req, save, rows, remote>> /\ dbOpen' \in BOOLEAN
  BY DEF AppInv, App!TypeOK, Interrupt, MainStep, ServeFails, ServeStep, Setup, SetupFails,
         OpenDB, OpenDBFails, WiringFails, BeginRun, RunFails, BeginShutdown, ShutdownDone,
         ShutdownTimesOut, CloseDB, Cleanup, ServeCloses, Report, appVars
<1>2. MainTyped'
  BY DEF MainTyped, Interrupt, MainStep, ServeFails, ServeStep, Setup, SetupFails, GoTo,
         OpenDB, OpenDBFails, WiringFails, BeginRun, RunFails, BeginShutdown, ShutdownDone,
         ShutdownTimesOut, CloseDB, Cleanup, ServeCloses, Report
<1>3. AppInv'
  BY <1>1, StandsStill DEF AppInv, App!TypeOK
<1> QED
  BY <1>1, <1>2, <1>3

LEMMA AppInvStep ==
    ASSUME AppInv, MainTyped, [Next]_vars
    PROVE  AppInv' /\ MainTyped'
<1>0. App!TypeOK
  BY DEF AppInv
<1>1. CASE Interrupt \/ MainStep \/ ServeFails \/ ServeStep
  BY <1>1, MainIsApart
<1>2. ASSUME NEW r \in Request, AcceptRequest(r) PROVE AppInv' /\ MainTyped'
  <2>1. req' \in [Request -> App!RequestState] /\ UNCHANGED <<save, rows, remote, dbOpen>>
    BY <1>0, <1>2, RequestsKeep DEF AcceptRequest
  <2>2. AppInv'
    BY <2>1, StandsStill DEF AppInv, App!TypeOK
  <2> QED
    BY <2>2, <1>2 DEF AcceptRequest, mainVars, MainTyped
<1>3. ASSUME NEW r \in Request, Handler(r) PROVE AppInv' /\ MainTyped'
  <2>1. App!Handler(r) /\ UNCHANGED mainVars
    BY <1>3 DEF Handler
  <2>2. CASE App!HandleSave(r)
    BY <2>2, HandleSaveStep, <2>1 DEF mainVars, MainTyped
  <2>3. CASE App!Refuse(r) \/ App!HandleLookup(r) \/ App!Reply(r)
    <3>1. req' \in [Request -> App!RequestState] /\ UNCHANGED <<save, rows, remote, dbOpen>>
      BY <1>0, <2>3, RequestsKeep
    <3>2. AppInv'
      BY <3>1, StandsStill DEF AppInv, App!TypeOK
    <3> QED
      BY <3>2, <2>1 DEF mainVars, MainTyped
  <2> QED
    BY <2>1, <2>2, <2>3 DEF App!Handler
<1>4. ASSUME NEW f \in App!Save, Background(f) PROVE AppInv' /\ MainTyped'
  BY <1>4, FetchStep, StoreStep, SaveFailsStep DEF Background, App!Background, mainVars, MainTyped
<1>5. ASSUME NEW k \in Key, RemoteChanges(k) PROVE AppInv' /\ MainTyped'
  BY <1>5, RemoteChangesStep DEF RemoteChanges, mainVars, MainTyped
<1>6. CASE UNCHANGED vars
  <2>1. UNCHANGED <<req, save, rows, remote, dbOpen>> /\ UNCHANGED mainVars
    BY <1>6 DEF vars, appVars
  <2>2. AppInv'
    BY <2>1, StandsStill DEF AppInv, App!TypeOK
  <2> QED
    BY <2>1, <2>2 DEF mainVars, MainTyped
<1> QED
  BY <1>1, <1>2, <1>3, <1>4, <1>5, <1>6 DEF Next

LEMMA AppInvInit == Init => AppInv /\ MainTyped
<1> SUFFICES ASSUME Init PROVE AppInv /\ MainTyped
  OBVIOUS
<1>1. save = <<>> /\ App!Save = {} /\ Len(save) = 0 /\ save \in Seq(App!SaveState)
  BY DEF Init, App!Init, App!Save
<1>2. [pc |-> "none"] \in App!RequestState
  BY DEF App!RequestState
<1>3. App!TypeOK
  <2>1. req \in [Request -> App!RequestState]
    BY <1>2 DEF Init, App!Init, App!NoRequest
  <2>2. Len(save) <= MaxSaves /\ rows \in [User \X Key -> 0 .. Len(save)]
    BY <1>1, AppRunAssumptions DEF Init, App!Init
  <2>3. remote \in [Key -> Nat] /\ dbOpen \in BOOLEAN
    BY DEF Init, App!Init
  <2> QED
    BY <2>1, <2>2, <2>3, <1>1 DEF App!TypeOK
<1>4. App!RowsAreOwn /\ Fetched /\ Ordered
  BY <1>1 DEF Init, App!Init, App!RowsAreOwn, App!RowOf, Fetched, Ordered
<1> QED
  BY <1>3, <1>4 DEF AppInv, Init, MainTyped

LEMMA AppInvHolds == Spec => [](AppInv /\ MainTyped)
<1>1. AppInv /\ MainTyped /\ [Next]_vars => (AppInv /\ MainTyped)'
  BY AppInvStep
<1> QED
  BY <1>1, AppInvInit, PTL DEF Spec

-----------------------------------------------------------------------------
\* Theorems.

\* Every variable keeps its type.
THEOREM TypeCorrect == Spec => []TypeOK
<1>1. AppInv /\ MainTyped => TypeOK
  BY DEF AppInv, MainTyped, TypeOK
<1> QED
  BY <1>1, AppInvHolds, PTL

\* A user finds what was answered to a save of theirs, under any number of
\* requests and saves at once.
THEOREM RowsStayOwn == Spec => []RowsAreOwn
<1>1. AppInv => RowsAreOwn
  BY DEF AppInv, RowsAreOwn
<1> QED
  BY <1>1, AppInvHolds, PTL

\* A step that writes a row does not put back an answer older than one that
\* was stored before the writing save was accepted.
LEMMA FreshStep ==
    ASSUME AppInv, [Next]_vars, NEW x \in User \X Key,
           rows[x] # 0, rows'[x] # 0, save[rows'[x]].body < save[rows[x]].body
    PROVE  rows[x] \notin save[rows'[x]].after /\ rows'[x] \notin save[rows[x]].after
<1> DEFINE old == rows[x]
           new == rows'[x]
<1>0. App!TypeOK /\ App!RowsAreOwn /\ Ordered
  BY DEF AppInv
<1>1. old \in App!Save /\ save[old].body \in Nat
  <2>1. old \in 1 .. Len(save) /\ Len(save) \in Nat
    BY <1>0, LenProperties DEF App!TypeOK
  <2>2. old \in App!Save
    BY <2>1, <1>0, LenProperties DEF App!TypeOK, App!Save
  <2> QED
    BY <2>2, <1>0, SaveTyped DEF App!SaveState
<1>2. old # new
  BY <1>1
<1>3. PICK f \in App!Save : App!Store(f)
  BY <1>2 DEF Next, vars, appVars, Interrupt, MainStep, ServeFails, ServeStep, Setup, SetupFails,
         OpenDB, OpenDBFails, WiringFails, BeginRun, RunFails, BeginShutdown, ShutdownDone,
         ShutdownTimesOut, CloseDB, Cleanup, ServeCloses, Report, AcceptRequest, App!Accept,
         App!AcceptBad, Handler, App!Handler, App!Refuse, App!HandleSave, App!HandleLookup,
         App!Reply, Background, App!Background, App!Fetch, App!SaveFails, RemoteChanges
<1>4. save[f].pc = "storing" /\ rows' = [rows EXCEPT ![<<save[f].user, save[f].key>>] = f]
  BY <1>0, <1>3, StoreChanges
<1>5. x = <<save[f].user, save[f].key>> /\ new = f
  BY <1>0, <1>2, <1>4 DEF App!TypeOK
<1>6. save[old].key = save[f].key
  <2>1. save[f].user \in User /\ save[f].key \in Key
    BY <1>0, SaveTyped DEF App!SaveState
  <2> QED
    BY <2>1, <1>0, <1>5 DEF App!RowsAreOwn, App!RowOf
<1>7. old \notin save[f].after
  <2> SUFFICES ASSUME old \in save[f].after PROVE FALSE
    OBVIOUS
  <2>1. save[old].body <= save[f].body
    BY <1>0, <1>4, <1>6 DEF Ordered
  <2>2. save[f].body \in Nat
    BY <1>0, SaveTyped DEF App!SaveState
  <2> QED
    BY <2>1, <2>2, <1>1, <1>5
<1>8. f \notin save[old].after
  BY <1>0, <1>1, <1>4 DEF Ordered
<1> QED
  BY <1>5, <1>7, <1>8

\* A row goes back to an older answer only under saves that overlapped.
THEOREM NothingStale == Spec => NoStaleOverwrite
<1> DEFINE Fresh ==
      \A x \in User \X Key :
        rows[x] # 0 /\ rows'[x] # 0 /\ save[rows'[x]].body < save[rows[x]].body
          => rows[x] \notin save[rows'[x]].after /\ rows'[x] \notin save[rows[x]].after
<1>1. AppInv /\ [Next]_vars => [Fresh]_(App!vars)
  BY FreshStep
<1>2. Spec => [][Fresh]_(App!vars)
  BY <1>1, AppInvHolds, PTL DEF Spec
<1> QED
  BY <1>2 DEF NoStaleOverwrite, App!NoStaleOverwrite

\* No request is handled before Run or after a clean return of it, and from the
\* wiring to the end of Run the database and the services are there.
Served ==
    /\ main \notin {"run", "shutdown", "fatal"} => \A r \in Request : req[r] = App!NoRequest
    /\ main \in {"open", "wire", "run", "shutdown"} => env = "up"
    /\ main \in {"wire", "run", "shutdown"} => dbOpen
    /\ HandlersAreServed

\* Only a request that is being handled has a next step.
LEMMA HandlerIsBusy ==
    ASSUME NEW r \in Request, App!Handler(r)
    PROVE  req[r] # App!NoRequest
BY DEF App!Handler, App!Refuse, App!HandleSave, App!HandleLookup, App!Reply, App!NoRequest

\* Every step keeps it so.
LEMMA ServedStep ==
    ASSUME Served, MainTyped, [Next]_vars
    PROVE  Served'
<1> USE DEF Served, HandlersAreServed, App!NoRequest
<1>1. CASE ShutdownDone
  BY <1>1 DEF ShutdownDone, Drained, GoTo, appVars
<1>2. CASE CloseDB \/ Cleanup \/ Setup \/ OpenDB
  BY <1>2 DEF CloseDB, Cleanup, Setup, OpenDB, GoTo, appVars
<1>3. CASE SetupFails \/ OpenDBFails \/ WiringFails \/ BeginRun \/ RunFails \/ BeginShutdown
           \/ ShutdownTimesOut
  BY <1>3 DEF SetupFails, OpenDBFails, WiringFails, BeginRun, RunFails, BeginShutdown,
              ShutdownTimesOut, GoTo, appVars
<1>4. CASE Interrupt \/ ServeFails \/ ServeStep \/ (\E k \in Key : RemoteChanges(k))
           \/ (\E f \in App!Save : Background(f)) \/ UNCHANGED vars
  <2>1. UNCHANGED <<main, env, req, dbOpen>>
    BY <1>4 DEF Interrupt, ServeFails, ServeStep, ServeCloses, Report, RemoteChanges, Background,
                App!Background, App!Fetch, App!Store, App!SaveFails, mainVars, appVars, vars
  <2> QED
    BY <2>1
<1>5. ASSUME NEW r \in Request, AcceptRequest(r) PROVE Served'
  <2>1. main \in {"run", "shutdown"} /\ UNCHANGED <<main, env, dbOpen>>
    BY <1>5 DEF AcceptRequest, mainVars, App!Accept, App!AcceptBad
  <2> QED
    BY <2>1
<1>6. ASSUME NEW r \in Request, Handler(r) PROVE Served'
  <2>1. App!Handler(r) /\ ~Over /\ UNCHANGED <<main, env>>
    BY <1>6 DEF Handler, mainVars
  <2>2. main \in {"run", "shutdown"}
    BY <2>1, HandlerIsBusy DEF Over
  <2>3. dbOpen' = dbOpen
    BY <2>1 DEF App!Handler, App!Refuse, App!HandleSave, App!HandleLookup, App!Reply
  <2> QED
    BY <2>1, <2>2, <2>3
<1> QED
  BY <1>1, <1>2, <1>3, <1>4, <1>5, <1>6 DEF Next, MainStep

\* As long as a request is handled, its database and the services are there,
\* whatever the handlers, the signal and Shutdown's deadline do.
THEOREM HandlersStayServed == Spec => []HandlersAreServed
<1>1. Init => Served
  BY DEF Init, App!Init, Served, HandlersAreServed
<1>2. Served /\ MainTyped /\ [Next]_vars => Served'
  BY ServedStep
<1>3. Served => HandlersAreServed
  BY DEF Served
<1> QED
  BY <1>1, <1>2, <1>3, AppInvHolds, PTL DEF Spec
=============================================================================
