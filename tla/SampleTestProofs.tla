-------------------------- MODULE SampleTestProofs --------------------------
(***************************************************************************)
(* A proof about SampleTest: however often the scenarios are run, and      *)
(* however late the background saves come, a test fails only by its own    *)
(* save being late, or that of an earlier round.                           *)
(***************************************************************************)
EXTENDS SampleTest, TLAPS, SequenceTheorems

-----------------------------------------------------------------------------
\* The scripts of the tests.

Saving == {HappyPath, PerUserIsolation}

\* Every test is one of the three.
LEMMA TestKind == \A n \in Nat \ {0} : Test(n) \in Saving \cup {BadToken}
<1> SUFFICES ASSUME NEW n \in Nat \ {0} PROVE Test(n) \in Saving \cup {BadToken}
  OBVIOUS
<1>1. Len(Tests) = 3 /\ \A i \in 1 .. 3 : Tests[i] \in Saving \cup {BadToken}
  BY DEF Tests, Saving
<1>2. ((n - 1) % 3) + 1 \in 1 .. 3
  OBVIOUS
<1> QED
  BY <1>1, <1>2 DEF Test

\* What the scripts have in common: they reset the remote first, bob is to
\* find nothing and alice her row.
LEMMA Script ==
    ASSUME NEW t \in Saving
    PROVE  /\ t.first = "reset" /\ t.key \in Key
           /\ Len(t.lookups) \in Nat /\ Len(t.lookups) >= 1
           /\ \A i \in 1 .. Len(t.lookups) :
                \/ t.lookups[i].user = "bob" /\ t.lookups[i].status = "notFound"
                     /\ t.lookups[i].exact = FALSE
                \/ t.lookups[i].user = "alice" /\ t.lookups[i].status = "ok"
           /\ t # BadToken
<1>1. CASE t = HappyPath
  BY <1>1 DEF HappyPath, BadToken, Key
<1>2. CASE t = PerUserIsolation
  BY <1>2 DEF PerUserIsolation, BadToken, Key
<1> QED
  BY <1>1, <1>2 DEF Saving

-----------------------------------------------------------------------------
\* The strengthening.  Of the server:

SaveT ==
    [pc : {"fetching", "storing", "stored"}, user : {"alice"}, key : Key,
     by : Request, body : {0, 1}, after : SUBSET Nat]

DataTyped ==
    /\ save \in Seq(SaveT)
    /\ rows \in [User \X Key -> 0 .. Len(save)]
    /\ remote \in [Key -> {0, 1}]
    /\ dbOpen = TRUE

\* What is noted as stored before a save was accepted is stored.
AfterStored ==
    \A f \in App!Save : \A g \in save[f].after : g \in App!Save /\ save[g].pc = "stored"

\* bob has no row, and alice's are written by saves of their key.
RowsOwn ==
    \A k \in Key :
        /\ rows[<<"bob", k>>] = 0
        /\ rows[<<"alice", k>>] # 0 =>
              /\ save[rows[<<"alice", k>>]].key = k
              /\ save[rows[<<"alice", k>>]].pc = "stored"

\* The row of a stored save is that of it or of a later one, but for a save
\* that met one still under way.
Latest ==
    \A f \in App!Save :
        save[f].pc = "stored" => Disturbed(f) \/ f <= rows[<<"alice", save[f].key>>]

Data == DataTyped /\ AfterStored /\ RowsOwn /\ Latest

\* Of the test goroutine:

\* The last save met one that was still under way.
Leftover == Disturbed(Len(save))

Control ==
    /\ at \in Nat \ {0} /\ asked \in Nat
    /\ step \in {"reset", "stub", "save", "accepted", "poll", "look", "told", "bad", "refused"}
    /\ step \in {"bad", "refused"} => Current = BadToken
    /\ step \notin {"bad", "refused"} => Current \in Saving
    /\ step \in {"reset", "stub", "save", "accepted", "poll"} => asked = 0
    /\ step = "look" => asked < Len(Current.lookups)
    /\ step = "told" => asked \in 1 .. Len(Current.lookups)

\* The last save is the one of the current test, and gets its stub's answer.
Mine ==
    LET m == Len(save) IN
    /\ m # 0
    /\ save[m].key = Current.key
    /\ save[m].pc # "fetching" => save[m].body = 1

Expected(a) ==
    /\ AsExpected(a, Current.lookups[asked])
    /\ a.status = "ok" => a.save \in App!Save /\ save[a.save].pc = "stored"

\* The one request there is, at each step.
Asking(q) ==
    \/ step = "accepted" /\ q = [pc |-> "save", user |-> "alice", key |-> Current.key]
    \/ step = "accepted" /\ q.pc = "answer" /\ q.status = "accepted" /\ Mine
    \/ step = "refused" /\ q = [pc |-> "refuse"]
    \/ step = "refused" /\ q.pc = "answer" /\ q.status = "refused"
    \/ step = "told" /\ q = [pc |-> "lookup", user |-> Current.lookups[asked].user,
                             key |-> Current.key]
    \/ step = "told" /\ q.pc = "answer" /\ (Leftover \/ Expected(q))

Requests ==
    /\ DOMAIN req = Request
    /\ \A r, s \in Request : req[r] # App!NoRequest /\ req[s] # App!NoRequest => r = s
    /\ \A r \in Request : req[r] # App!NoRequest => Asking(req[r])

Stubbed == step \in {"save", "accepted", "poll", "look", "told"} => remote[Current.key] = 1
Owned   == step \in {"poll", "look", "told"} => Mine
Seen    == step \in {"look", "told"} => Leftover \/ RowMatches

Course == Control /\ Requests /\ Stubbed /\ Owned /\ Seen

IInv == Data /\ Course

-----------------------------------------------------------------------------
\* What the steps of a save do to the sequence of saves.

\* A save of the sequence has its type, and its number is its position.
LEMMA Shape ==
    ASSUME DataTyped
    PROVE  /\ Len(save) \in Nat
           /\ App!Save = 1 .. Len(save)
           /\ \A f \in App!Save : save[f] \in SaveT
BY ElementOfSeq, LenProperties DEF DataTyped, App!Save

\* One save moves to another stage with some body; the others stay.
Moved(f, to, answer) ==
    /\ save' \in Seq(SaveT)
    /\ Len(save') = Len(save)
    /\ App!Save' = App!Save
    /\ save'[f].pc = to /\ save'[f].body = answer
    /\ save'[f].key = save[f].key /\ save'[f].after = save[f].after
    /\ \A g \in App!Save : g # f => save'[g] = save[g]

\* Replacing one save changes nothing else.
LEMMA Replacing ==
    ASSUME DataTyped, NEW f \in App!Save, NEW e \in SaveT, save' = [save EXCEPT ![f] = e]
    PROVE  /\ save' \in Seq(SaveT) /\ Len(save') = Len(save)
           /\ save'[f] = e
           /\ \A g \in App!Save : g # f => save'[g] = save[g]
<1>1. f \in 1 .. Len(save) /\ App!Save = 1 .. Len(save)
  BY Shape
<1>2. save \in Seq(SaveT)
  BY DEF DataTyped
<1> QED
  BY <1>1, <1>2, ExceptSeq

\* Replacing the stage and the body of a save.
LEMMA Moving ==
    ASSUME DataTyped, NEW f \in App!Save,
           NEW to \in {"storing", "stored"}, NEW answer \in {0, 1},
           save' = [save EXCEPT ![f] = [save[f] EXCEPT !.pc = to, !.body = answer]]
    PROVE  Moved(f, to, answer)
<1> DEFINE e == [save[f] EXCEPT !.pc = to, !.body = answer]
<1>1. f \in 1 .. Len(save) /\ App!Save = 1 .. Len(save) /\ save[f] \in SaveT
  BY Shape
<1>2. e \in SaveT
  BY <1>1 DEF SaveT
<1>3. save' = [save EXCEPT ![f] = e]
  OBVIOUS
<1>4. /\ save' \in Seq(SaveT) /\ Len(save') = Len(save)
      /\ save'[f] = e
      /\ \A g \in App!Save : g # f => save'[g] = save[g]
  <2> HIDE DEF e
  <2> QED
    BY <1>2, <1>3, Replacing
<1>5. DOMAIN save' = DOMAIN save
  BY <1>3
<1>6. e.pc = to /\ e.body = answer /\ e.key = save[f].key /\ e.after = save[f].after
  BY <1>1 DEF SaveT
<1> QED
  BY <1>1, <1>4, <1>5, <1>6 DEF Moved, App!Save

LEMMA FetchMoves ==
    ASSUME DataTyped, NEW f \in App!Save, App!Fetch(f)
    PROVE  /\ Moved(f, "storing", remote[save[f].key])
           /\ save[f].pc = "fetching"
           /\ UNCHANGED <<req, rows, remote, dbOpen>>
<1>1. save[f] \in SaveT
  BY Shape
<1>2. remote[save[f].key] \in {0, 1}
  BY <1>1 DEF DataTyped, SaveT
<1>3. save' = [save EXCEPT ![f] = [save[f] EXCEPT !.pc = "storing", !.body = remote[save[f].key]]]
  BY DEF App!Fetch
<1> QED
  BY <1>2, <1>3, Moving DEF App!Fetch

LEMMA StoreMoves ==
    ASSUME DataTyped, NEW f \in App!Save, App!Store(f)
    PROVE  /\ Moved(f, "stored", save[f].body)
           /\ save[f].pc = "storing"
           /\ rows' = [rows EXCEPT ![<<"alice", save[f].key>>] = f]
           /\ UNCHANGED <<req, remote, dbOpen>>
<1>1. save[f] \in SaveT
  BY Shape
<1>2. save[f].body \in {0, 1} /\ save[f].user = "alice"
  BY <1>1 DEF SaveT
<1>3. [save[f] EXCEPT !.pc = "stored"] = [save[f] EXCEPT !.pc = "stored", !.body = save[f].body]
  BY <1>1 DEF SaveT
<1>4. save' = [save EXCEPT ![f] = [save[f] EXCEPT !.pc = "stored", !.body = save[f].body]]
  BY <1>3 DEF App!Store
<1> QED
  BY <1>2, <1>4, Moving DEF App!Store, App!OneUpsert, App!RowOf

\* Nothing makes a save fail while the database is open.
LEMMA NoneFails ==
    ASSUME DataTyped, NEW f \in App!Save
    PROVE  ~App!SaveFails(f)
BY DEF App!SaveFails, App!CtxLive, App!BackgroundCtx, DataTyped

\* An accepted save is added at the end.
Added(k) ==
    LET n == Len(save) IN
    /\ save' \in Seq(SaveT)
    /\ Len(save') = n + 1
    /\ App!Save' = 1 .. n + 1
    /\ \A f \in 1 .. n : save'[f] = save[f]
    /\ save'[n + 1].pc = "fetching" /\ save'[n + 1].key = k
    /\ save'[n + 1].after = {f \in 1 .. n : save[f].pc = "stored"}

LEMMA HandleSaveAdds ==
    ASSUME DataTyped, NEW r \in Request, App!HandleSave(r),
           req[r].user = "alice", req[r].key \in Key
    PROVE  Added(req[r].key) /\ UNCHANGED <<rows, remote, dbOpen>>
<1> DEFINE n == Len(save)
           e == [pc |-> "fetching", user |-> req[r].user, key |-> req[r].key,
                 by |-> r, body |-> 0, after |-> {f \in App!Save : save[f].pc = "stored"}]
<1>1. n \in Nat /\ App!Save = 1 .. n /\ save \in Seq(SaveT)
  BY Shape DEF DataTyped
<1>2. e \in SaveT
  BY <1>1 DEF SaveT
<1>3. save' = Append(save, e)
  BY DEF App!HandleSave
<1>4. /\ save' \in Seq(SaveT) /\ Len(save') = n + 1
      /\ \A f \in 1 .. n : save'[f] = save[f]
      /\ save'[n + 1] = e
  <2> HIDE DEF e
  <2> QED
    BY <1>1, <1>2, <1>3, AppendProperties
<1>5. App!Save' = 1 .. n + 1
  BY <1>4, LenProperties DEF App!Save
<1> QED
  BY <1>1, <1>4, <1>5 DEF Added, App!HandleSave

-----------------------------------------------------------------------------
\* Leftovers.

\* A save that was disturbed stays so: what it met is kept.
LEMMA DisturbanceStays ==
    ASSUME App!Save \subseteq App!Save', NEW f, f \in App!Save, Disturbed(f),
           \A g \in App!Save : save'[g].key = save[g].key /\ save'[g].after = save[g].after
    PROVE  Disturbed(f)'
BY DEF Disturbed

LEMMA MovedDisturbed ==
    ASSUME NEW f \in App!Save, NEW to, NEW answer, Moved(f, to, answer),
           NEW h, h \in App!Save, Disturbed(h)
    PROVE  Disturbed(h)'
<1>1. \A g \in App!Save : save'[g].key = save[g].key /\ save'[g].after = save[g].after
  BY DEF Moved
<1>2. App!Save \subseteq App!Save'
  BY DEF Moved
<1> QED
  BY <1>1, <1>2, DisturbanceStays

LEMMA MovedLeftover ==
    ASSUME DataTyped, NEW f \in App!Save, NEW to, NEW answer, Moved(f, to, answer), Leftover
    PROVE  Leftover'
<1> DEFINE m == Len(save)
<1>1. m \in App!Save
  BY Shape
<1>2. Disturbed(m) /\ m' = m
  BY DEF Leftover, Moved
<1>3. Disturbed(m)'
  <2>1. PICK g \in App!Save : g < m /\ save[g].key = save[m].key /\ g \notin save[m].after
    BY <1>2 DEF Disturbed
  <2>2. /\ save'[g].key = save[g].key
        /\ save'[m].key = save[m].key /\ save'[m].after = save[m].after
        /\ g \in App!Save'
    BY <1>1 DEF Moved
  <2> QED
    BY <1>2, <2>1, <2>2 DEF Disturbed
<1> QED
  BY <1>3 DEF Leftover

\* If a save was not disturbed, the earlier ones of its key were stored before
\* it was accepted.
LEMMA InTurn ==
    ASSUME AfterStored, NEW f \in App!Save, ~Disturbed(f), NEW g \in App!Save,
           g < f, save[g].key = save[f].key
    PROVE  save[g].pc = "stored"
BY DEF Disturbed, AfterStored

-----------------------------------------------------------------------------
\* The server's part of the invariant.

\* A row that is not empty belongs to a save of its key, which is stored.
LEMMA RowIsSave ==
    ASSUME DataTyped, RowsOwn, NEW k \in Key, rows[<<"alice", k>>] # 0
    PROVE  /\ rows[<<"alice", k>>] \in App!Save
           /\ save[rows[<<"alice", k>>]].pc = "stored"
           /\ save[rows[<<"alice", k>>]].key = k
<1>1. <<"alice", k>> \in User \X Key
  BY DEF User
<1>2. rows[<<"alice", k>>] \in 0 .. Len(save)
  BY <1>1 DEF DataTyped
<1>3. rows[<<"alice", k>>] \in App!Save
  BY <1>2, Shape
<1> QED
  BY <1>3 DEF RowsOwn

LEMMA FetchData ==
    ASSUME Data, NEW f \in App!Save, App!Fetch(f)
    PROVE  Data'
<1>0. DataTyped /\ AfterStored /\ RowsOwn /\ Latest
  BY DEF Data
<1>1. /\ Moved(f, "storing", remote[save[f].key]) /\ save[f].pc = "fetching"
      /\ UNCHANGED <<req, rows, remote, dbOpen>>
  BY <1>0, FetchMoves
<1>2. DataTyped'
  BY <1>0, <1>1 DEF DataTyped, Moved
<1>3. AfterStored'
  <2> SUFFICES ASSUME NEW h \in App!Save, NEW g \in save'[h].after
               PROVE  g \in App!Save /\ save'[g].pc = "stored"
    BY <1>1 DEF AfterStored, Moved
  <2>1. g \in save[h].after
    BY <1>1 DEF Moved
  <2>2. g \in App!Save /\ save[g].pc = "stored"
    BY <2>1, <1>0 DEF AfterStored
  <2> QED
    BY <2>2, <1>1 DEF Moved
<1>4. RowsOwn'
  <2> SUFFICES ASSUME NEW k \in Key
               PROVE  /\ rows'[<<"bob", k>>] = 0
                      /\ rows'[<<"alice", k>>] # 0 =>
                            /\ save'[rows'[<<"alice", k>>]].key = k
                            /\ save'[rows'[<<"alice", k>>]].pc = "stored"
    BY DEF RowsOwn
  <2>1. rows' = rows /\ rows[<<"bob", k>>] = 0
    BY <1>0, <1>1 DEF RowsOwn
  <2> QED
    BY <2>1, <1>0, <1>1, RowIsSave DEF Moved
<1>5. Latest'
  <2> SUFFICES ASSUME NEW h \in App!Save, save'[h].pc = "stored"
               PROVE  Disturbed(h)' \/ h <= rows'[<<"alice", save'[h].key>>]
    BY <1>1 DEF Latest, Moved
  <2>1. save'[h] = save[h] /\ rows' = rows
    BY <1>1 DEF Moved
  <2>2. Disturbed(h) => Disturbed(h)'
    BY <1>1, MovedDisturbed
  <2> QED
    BY <2>1, <2>2, <1>0 DEF Latest
<1> QED
  BY <1>2, <1>3, <1>4, <1>5 DEF Data

LEMMA StoreData ==
    ASSUME Data, NEW f \in App!Save, App!Store(f)
    PROVE  Data'
<1> DEFINE c == save[f].key
<1>0. DataTyped /\ AfterStored /\ RowsOwn /\ Latest
  BY DEF Data
<1>1. /\ Moved(f, "stored", save[f].body) /\ save[f].pc = "storing"
      /\ rows' = [rows EXCEPT ![<<"alice", c>>] = f]
      /\ UNCHANGED <<req, remote, dbOpen>>
  BY <1>0, StoreMoves
<1>2. c \in Key /\ f \in 1 .. Len(save) /\ Len(save) \in Nat
  BY <1>0, Shape DEF SaveT
<1>3. /\ rows'[<<"alice", c>>] = f
      /\ \A k \in Key : k # c => rows'[<<"alice", k>>] = rows[<<"alice", k>>]
      /\ \A k \in Key : rows'[<<"bob", k>>] = rows[<<"bob", k>>]
  BY <1>0, <1>1, <1>2 DEF DataTyped, User
<1>4. DataTyped'
  <2>1. rows \in [User \X Key -> 0 .. Len(save)] /\ f \in 0 .. Len(save)
    BY <1>0, <1>2 DEF DataTyped
  <2>2. rows' \in [User \X Key -> 0 .. Len(save)]
    BY <2>1, <1>1
  <2> QED
    BY <2>2, <1>0, <1>1 DEF DataTyped, Moved
<1>5. AfterStored'
  <2> SUFFICES ASSUME NEW h \in App!Save, NEW g \in save'[h].after
               PROVE  g \in App!Save /\ save'[g].pc = "stored"
    BY <1>1 DEF AfterStored, Moved
  <2>1. g \in save[h].after
    BY <1>1 DEF Moved
  <2>2. g \in App!Save /\ save[g].pc = "stored"
    BY <2>1, <1>0 DEF AfterStored
  <2> QED
    BY <2>2, <1>1 DEF Moved
<1>6. RowsOwn'
  <2> SUFFICES ASSUME NEW k \in Key
               PROVE  /\ rows'[<<"bob", k>>] = 0
                      /\ rows'[<<"alice", k>>] # 0 =>
                            /\ save'[rows'[<<"alice", k>>]].key = k
                            /\ save'[rows'[<<"alice", k>>]].pc = "stored"
    BY DEF RowsOwn
  <2>1. rows'[<<"bob", k>>] = 0
    BY <1>0, <1>3 DEF RowsOwn
  <2>2. CASE k = c
    BY <2>1, <2>2, <1>1, <1>3 DEF Moved
  <2>3. CASE k # c
    BY <2>1, <2>3, <1>0, <1>1, <1>3, RowIsSave DEF Moved
  <2> QED
    BY <2>2, <2>3
<1>7. Latest'
  <2> SUFFICES ASSUME NEW h \in App!Save, save'[h].pc = "stored", ~Disturbed(h)'
               PROVE  h <= rows'[<<"alice", save'[h].key>>]
    BY <1>1 DEF Latest, Moved
  <2>0. h \in Nat /\ f \in Nat /\ save[h].key \in Key /\ save'[h].key = save[h].key
    BY <1>0, <1>1, <1>2, Shape DEF Moved, SaveT
  <2>1. ~Disturbed(h)
    BY <1>1, MovedDisturbed
  <2>2. CASE save[h].key = c
    <3>1. ~ f < h
      BY <2>1, <2>2, <1>0, <1>1, InTurn
    <3>2. rows'[<<"alice", save'[h].key>>] = f
      BY <2>0, <2>2, <1>3
    <3> QED
      BY <2>0, <3>1, <3>2
  <2>3. CASE save[h].key # c
    <3>1. save[h].pc = "stored"
      BY <2>3, <1>1 DEF Moved
    <3>2. h <= rows[<<"alice", save[h].key>>]
      BY <2>1, <3>1, <1>0 DEF Latest
    <3> QED
      BY <2>0, <2>3, <3>2, <1>3
  <2> QED
    BY <2>2, <2>3
<1> QED
  BY <1>4, <1>5, <1>6, <1>7 DEF Data

LEMMA AddedDisturbed ==
    ASSUME DataTyped, NEW k, Added(k), NEW h, h \in App!Save, Disturbed(h)
    PROVE  Disturbed(h)'
<1>1. App!Save = 1 .. Len(save) /\ Len(save) \in Nat
  BY Shape
<1>2. App!Save \subseteq App!Save'
  BY <1>1 DEF Added
<1>3. \A g \in App!Save : save'[g].key = save[g].key /\ save'[g].after = save[g].after
  BY <1>1 DEF Added
<1> QED
  BY <1>2, <1>3, DisturbanceStays

LEMMA HandleSaveData ==
    ASSUME Data, NEW r \in Request, App!HandleSave(r),
           req[r].user = "alice", req[r].key \in Key
    PROVE  Data'
<1> DEFINE n == Len(save)
<1>0. DataTyped /\ AfterStored /\ RowsOwn /\ Latest
  BY DEF Data
<1>1. Added(req[r].key) /\ UNCHANGED <<rows, remote, dbOpen>>
  BY <1>0, HandleSaveAdds
<1>2. n \in Nat /\ App!Save = 1 .. n /\ App!Save' = 1 .. n + 1
  BY <1>0, <1>1, Shape DEF Added
<1>3. DataTyped'
  BY <1>0, <1>1, <1>2 DEF DataTyped, Added
<1>4. AfterStored'
  <2> SUFFICES ASSUME NEW h \in 1 .. n + 1, NEW g \in save'[h].after
               PROVE  g \in 1 .. n /\ save'[g].pc = "stored"
    BY <1>2 DEF AfterStored
  <2>1. CASE h = n + 1
    BY <2>1, <1>1 DEF Added
  <2>2. CASE h # n + 1
    <3>1. h \in 1 .. n /\ g \in save[h].after
      BY <2>2, <1>1, <1>2 DEF Added
    <3> QED
      BY <3>1, <1>0, <1>1, <1>2 DEF AfterStored, Added
  <2> QED
    BY <2>1, <2>2
<1>5. RowsOwn'
  <2> SUFFICES ASSUME NEW k \in Key
               PROVE  /\ rows'[<<"bob", k>>] = 0
                      /\ rows'[<<"alice", k>>] # 0 =>
                            /\ save'[rows'[<<"alice", k>>]].key = k
                            /\ save'[rows'[<<"alice", k>>]].pc = "stored"
    BY DEF RowsOwn
  <2>1. rows' = rows /\ rows[<<"bob", k>>] = 0
    BY <1>0, <1>1 DEF RowsOwn
  <2> QED
    BY <2>1, <1>0, <1>1, <1>2, RowIsSave DEF Added
<1>6. Latest'
  <2> SUFFICES ASSUME NEW h \in 1 .. n + 1, save'[h].pc = "stored"
               PROVE  Disturbed(h)' \/ h <= rows'[<<"alice", save'[h].key>>]
    BY <1>2 DEF Latest
  <2>1. h \in App!Save /\ save'[h] = save[h] /\ rows' = rows
    BY <1>1, <1>2 DEF Added
  <2>2. Disturbed(h) => Disturbed(h)'
    BY <2>1, <1>0, <1>1, AddedDisturbed
  <2> QED
    BY <2>1, <2>2, <1>0 DEF Latest
<1> QED
  BY <1>3, <1>4, <1>5, <1>6 DEF Data

\* It depends on the saves, the rows and the remote alone.
LEMMA DataStands ==
    ASSUME Data, UNCHANGED <<save, rows, dbOpen>>, remote' \in [Key -> {0, 1}]
    PROVE  Data' /\ (Leftover' <=> Leftover)
<1>1. App!Save' = App!Save
  BY DEF App!Save
<1>2. Leftover' <=> Leftover
  BY <1>1 DEF Leftover, Disturbed
<1>3. Latest'
  BY <1>1 DEF Data, Latest, Disturbed
<1> QED
  BY <1>1, <1>2, <1>3 DEF Data, DataTyped, AfterStored, RowsOwn

-----------------------------------------------------------------------------
\* The test goroutine's part of the invariant, while the server works.

\* A current lookup asks as bob, who finds nothing, or as alice.
LEMMA Wanted ==
    ASSUME Control, step = "told"
    PROVE  LET want == Current.lookups[asked] IN
           \/ want.user = "bob" /\ want.status = "notFound" /\ want.exact = FALSE
           \/ want.user = "alice" /\ want.status = "ok"
BY Script DEF Control

LEMMA MovedMine ==
    ASSUME IInv, NEW f \in App!Save, NEW to, NEW answer, Moved(f, to, answer),
           UNCHANGED <<testVars, remote>>,
           \/ answer = remote[save[f].key]
           \/ answer = save[f].body /\ save[f].pc # "fetching",
           step \in {"accepted", "poll", "look", "told"}, Mine
    PROVE  Mine'
<1> DEFINE m == Len(save)
<1>1. m \in App!Save /\ Len(save') = m
  BY Shape DEF IInv, Data, Mine, Moved
<1>2. save'[m].key = save[m].key /\ Current' = Current
  BY <1>1 DEF Moved, testVars, Current
<1>3. save'[m].pc # "fetching" => save'[m].body = 1
  <2>1. CASE m = f
    <3>1. save[f].key = Current.key /\ remote[Current.key] = 1
      BY <2>1 DEF IInv, Course, Stubbed, Mine
    <3>2. save[f].pc # "fetching" => save[f].body = 1
      BY <2>1 DEF Mine
    <3> QED
      BY <2>1, <3>1, <3>2 DEF Moved
  <2>2. CASE m # f
    BY <2>2, <1>1 DEF Moved, Mine
  <2> QED
    BY <2>1, <2>2
<1> QED
  BY <1>1, <1>2, <1>3 DEF Mine

LEMMA MovedExpected ==
    ASSUME IInv, NEW f \in App!Save, NEW to, NEW answer, Moved(f, to, answer),
           UNCHANGED <<testVars, remote>>, save[f].pc # "stored",
           step = "told", NEW q, Expected(q)
    PROVE  Expected(q)'
<1>1. asked' = asked /\ Current' = Current
  BY DEF testVars, Current
<1>2. CASE q.status = "ok"
  <2>1. q.save \in App!Save /\ save'[q.save] = save[q.save]
    BY <1>2 DEF Expected, Moved
  <2> QED
    BY <2>1, <1>1 DEF Expected, AsExpected, Moved
<1>3. CASE q.status # "ok"
  <2>1. Current.lookups[asked].exact = FALSE
    BY <1>3, Wanted DEF IInv, Course, Expected, AsExpected
  <2> QED
    BY <2>1, <1>1, <1>3 DEF Expected, AsExpected
<1> QED
  BY <1>2, <1>3

LEMMA MovedCourse ==
    ASSUME IInv, NEW f \in App!Save, NEW to, NEW answer, Moved(f, to, answer),
           UNCHANGED <<testVars, remote, req>>, save[f].pc # "stored",
           \/ answer = remote[save[f].key]
           \/ answer = save[f].body /\ save[f].pc # "fetching",
           Seen'
    PROVE  Course'
<1>0. DataTyped /\ Control /\ Requests /\ Stubbed /\ Owned /\ Seen
  BY DEF IInv, Course, Data
<1>1. /\ at' = at /\ step' = step /\ asked' = asked
      /\ Current' = Current
  BY DEF testVars, Current
<1>2. Leftover => Leftover'
  BY <1>0, MovedLeftover
<1>3. Control'
  BY <1>0, <1>1 DEF Control
<1>4. step \in {"accepted", "poll", "look", "told"} /\ Mine => Mine'
  BY MovedMine
<1>5. Requests'
  <2>1. ASSUME NEW q, Asking(q)
        PROVE  Asking(q)'
    <3>1. step = "told" /\ Expected(q) => Expected(q)'
      BY MovedExpected
    <3> QED
      BY <2>1, <3>1, <1>1, <1>2, <1>4 DEF Asking
  <2> QED
    BY <2>1, <1>0 DEF Requests, App!NoRequest
<1>6. Stubbed'
  BY <1>0, <1>1 DEF Stubbed
<1>7. Owned'
  BY <1>0, <1>1, <1>4 DEF Owned
<1> QED
  BY <1>3, <1>5, <1>6, <1>7 DEF Course

LEMMA CurrentKey ==
    ASSUME Control, step \notin {"bad", "refused"}
    PROVE  Current.key \in Key
BY Script DEF Control

LEMMA FetchStep ==
    ASSUME IInv, NEW f \in App!Save, App!Fetch(f), UNCHANGED testVars
    PROVE  IInv'
<1>0. Data /\ Course /\ DataTyped /\ RowsOwn
  BY DEF IInv, Data
<1>1. /\ Moved(f, "storing", remote[save[f].key]) /\ save[f].pc = "fetching"
      /\ UNCHANGED <<req, rows, remote, dbOpen>>
  BY <1>0, FetchMoves
<1>2. Seen'
  <2> SUFFICES ASSUME step' \in {"look", "told"} PROVE Leftover' \/ RowMatches'
    BY DEF Seen
  <2>1. step \in {"look", "told"} /\ Current' = Current /\ rows' = rows
    BY <1>1 DEF testVars, Current
  <2>2. CASE Leftover
    BY <2>2, <1>0, <1>1, MovedLeftover
  <2>3. CASE RowMatches
    <3> DEFINE x == rows[<<"alice", Current.key>>]
    <3>1. Current.key \in Key
      BY <2>1, <1>0, CurrentKey DEF Course
    <3>2. x # 0 /\ save[x].body = 1
      BY <2>3 DEF RowMatches, App!RowOf
    <3>3. x \in App!Save /\ save[x].pc = "stored"
      BY <3>1, <3>2, <1>0, RowIsSave
    <3>4. save'[x] = save[x]
      BY <3>3, <1>1 DEF Moved
    <3> QED
      BY <3>2, <3>4, <2>1 DEF RowMatches, App!RowOf
  <2> QED
    BY <2>1, <2>2, <2>3, <1>0 DEF Course, Seen
<1>3. Course'
  BY <1>1, <1>2, MovedCourse
<1> QED
  BY <1>0, <1>3, FetchData DEF IInv

LEMMA StoreStep ==
    ASSUME IInv, NEW f \in App!Save, App!Store(f), UNCHANGED testVars
    PROVE  IInv'
<1> DEFINE c == save[f].key
           m == Len(save)
           x == rows[<<"alice", Current.key>>]
<1>0. Data /\ Course /\ DataTyped /\ RowsOwn /\ AfterStored
  BY DEF IInv, Data
<1>1. /\ Moved(f, "stored", save[f].body) /\ save[f].pc = "storing"
      /\ rows' = [rows EXCEPT ![<<"alice", c>>] = f]
      /\ UNCHANGED <<req, remote, dbOpen>>
  BY <1>0, StoreMoves
<1>2. f \in 1 .. m /\ m \in Nat /\ c \in Key
  BY <1>0, Shape DEF SaveT
<1>3. Seen'
  <2> SUFFICES ASSUME step' \in {"look", "told"}, ~Leftover PROVE RowMatches'
    BY <1>0, <1>1, MovedLeftover DEF Seen
  <2>1. step \in {"look", "told"} /\ Current' = Current
    BY DEF testVars, Current
  <2>2. RowMatches /\ Mine
    BY <2>1, <1>0 DEF Course, Seen, Owned
  <2>3. Current.key \in Key
    BY <2>1, <1>0, CurrentKey DEF Course
  <2>4. CASE Current.key = c
    <3>1. rows'[<<"alice", Current.key>>] = f
      BY <2>4, <1>0, <1>1, <1>2 DEF DataTyped, User
    <3>2. m \in App!Save /\ save[m].key = c
      BY <2>2, <2>4, <1>0, <1>2, Shape DEF Mine
    <3>3. ~ f < m
      BY <3>2, <1>0, <1>1, InTurn DEF Leftover
    <3>4. f = m
      BY <3>3, <1>2
    <3>5. save'[f].body = 1 /\ f # 0
      BY <3>4, <2>2, <1>1, <1>2 DEF Mine, Moved
    <3> QED
      BY <3>1, <3>5, <2>1 DEF RowMatches, App!RowOf
  <2>5. CASE Current.key # c
    <3>1. rows'[<<"alice", Current.key>>] = x
      BY <2>5, <2>3, <1>0, <1>1 DEF DataTyped, User
    <3>2. x # 0 /\ save[x].body = 1
      BY <2>2 DEF RowMatches, App!RowOf
    <3>3. x \in App!Save /\ save[x].pc = "stored"
      BY <2>3, <3>2, <1>0, RowIsSave
    <3>4. save'[x] = save[x]
      BY <3>3, <1>1 DEF Moved
    <3> QED
      BY <3>1, <3>2, <3>4, <2>1 DEF RowMatches, App!RowOf
  <2> QED
    BY <2>4, <2>5
<1>4. Course'
  BY <1>1, <1>3, MovedCourse
<1> QED
  BY <1>0, <1>4, StoreData DEF IInv

\* There is one request at a time, and it is the one the test waits for.
LEMMA TheRequest ==
    ASSUME Requests, NEW r \in Request, req[r] # App!NoRequest
    PROVE  /\ Asking(req[r])
           /\ \A s \in Request : s # r => req[s] = App!NoRequest
BY DEF Requests

LEMMA NoneAsked ==
    ASSUME Requests, step \notin {"accepted", "refused", "told"}, NEW r \in Request
    PROVE  req[r] = App!NoRequest
BY DEF Requests, Asking

\* It goes through its stages.
LEMMA Turn ==
    ASSUME Requests, NEW r \in Request, NEW e, req' = [req EXCEPT ![r] = e],
           \A s \in Request : s # r => req[s] = App!NoRequest,
           req'[r] = App!NoRequest \/ Asking(req[r])'
    PROVE  Requests'
<1>1. DOMAIN req' = Request /\ App!NoRequest' = App!NoRequest
  BY DEF Requests, App!NoRequest
<1>2. \A s \in Request : s # r => req'[s] = App!NoRequest
  BY DEF Requests
<1> QED
  BY <1>1, <1>2 DEF Requests

LEMMA RefuseStep ==
    ASSUME IInv, NEW r \in Request, App!Refuse(r), UNCHANGED testVars
    PROVE  IInv'
<1> DEFINE e == [pc |-> "answer", status |-> "refused", save |-> 0]
<1>0. Data /\ DataTyped /\ Control /\ Requests
  BY DEF IInv, Course, Data
<1>1. req[r].pc = "refuse" /\ req' = [req EXCEPT ![r] = e] /\ UNCHANGED <<save, rows, remote, dbOpen>>
  BY DEF App!Refuse, App!Answer
<1>2. req[r] # App!NoRequest
  BY <1>1 DEF App!NoRequest
<1>3. step = "refused"
  BY <1>0, <1>1, <1>2, TheRequest DEF Asking
<1>4. Data' /\ (Leftover' <=> Leftover)
  BY <1>0, <1>1, DataStands DEF DataTyped
<1>5. at' = at /\ step' = step /\ asked' = asked /\ Current' = Current
  BY DEF testVars, Current
<1>6. Requests'
  <2>1. req'[r] = e
    BY <1>0, <1>1 DEF Requests
  <2>2. Asking(req[r])'
    BY <2>1, <1>3, <1>5 DEF Asking
  <2> HIDE DEF e
  <2> QED
    BY <2>2, <1>0, <1>1, <1>2, TheRequest, Turn
<1>7. Control' /\ Stubbed' /\ Owned' /\ Seen'
  BY <1>0, <1>3, <1>4, <1>5 DEF Control, Stubbed, Owned, Seen
<1> QED
  BY <1>4, <1>6, <1>7 DEF IInv, Course

LEMMA HandleSaveStep ==
    ASSUME IInv, NEW r \in Request, App!HandleSave(r), UNCHANGED testVars
    PROVE  IInv'
<1> DEFINE e == [pc |-> "answer", status |-> "accepted", save |-> Len(save')]
<1>0. Data /\ DataTyped /\ Control /\ Requests /\ Stubbed
  BY DEF IInv, Course, Data
<1>1. req[r].pc = "save" /\ req' = [req EXCEPT ![r] = e]
  BY DEF App!HandleSave, App!Answer
<1>2. req[r] # App!NoRequest
  BY <1>1 DEF App!NoRequest
<1>3. /\ step = "accepted"
      /\ req[r].user = "alice" /\ req[r].key = Current.key
  BY <1>0, <1>1, <1>2, TheRequest DEF Asking
<1>4. Current.key \in Key
  BY <1>0, <1>3, CurrentKey
<1>5. Added(Current.key) /\ UNCHANGED <<rows, remote, dbOpen>>
  BY <1>0, <1>3, <1>4, HandleSaveAdds
<1>6. Data'
  BY <1>0, <1>3, <1>4, <1>5, HandleSaveData
<1>7. at' = at /\ step' = step /\ asked' = asked /\ Current' = Current
  BY DEF testVars, Current
<1>8. Mine'
  BY <1>0, <1>5, <1>7, Shape DEF Mine, Added
<1>9. Requests'
  <2>1. req'[r] = e
    BY <1>0, <1>1 DEF Requests
  <2>2. Asking(req[r])'
    BY <2>1, <1>3, <1>7, <1>8 DEF Asking
  <2> HIDE DEF e
  <2> QED
    BY <2>2, <1>0, <1>1, <1>2, TheRequest, Turn
<1>10. Control' /\ Stubbed' /\ Owned' /\ Seen'
  BY <1>0, <1>3, <1>5, <1>6, <1>7 DEF Control, Stubbed, Owned, Seen
<1> QED
  BY <1>6, <1>9, <1>10 DEF IInv, Course

LEMMA HandleLookupStep ==
    ASSUME IInv, NEW r \in Request, App!HandleLookup(r), UNCHANGED testVars
    PROVE  IInv'
<1> DEFINE x == rows[<<req[r].user, req[r].key>>]
           e == [pc |-> "answer", status |-> IF x = 0 THEN "notFound" ELSE "ok", save |-> x]
           want == Current.lookups[asked]
<1>0. /\ Data /\ DataTyped /\ RowsOwn /\ Control /\ Requests
      /\ Stubbed /\ Owned /\ Seen
  BY DEF IInv, Course, Data
<1>1. req[r].pc = "lookup" /\ req' = [req EXCEPT ![r] = e] /\ UNCHANGED <<save, rows, remote, dbOpen>>
  BY <1>0 DEF App!HandleLookup, App!Answer, App!RowOf, DataTyped
<1>2. req[r] # App!NoRequest
  BY <1>1 DEF App!NoRequest
<1>3. /\ step = "told"
      /\ req[r].user = want.user /\ req[r].key = Current.key
  BY <1>0, <1>1, <1>2, TheRequest DEF Asking
<1>4. Data' /\ (Leftover' <=> Leftover)
  BY <1>0, <1>1, DataStands DEF DataTyped
<1>5. /\ at' = at /\ step' = step /\ asked' = asked
      /\ Current' = Current /\ App!Save' = App!Save
  BY <1>1 DEF testVars, Current, App!Save
<1>6. Current.key \in Key
  BY <1>0, <1>3, CurrentKey
<1>7. Leftover \/ Expected(e)
  <2>1. CASE want.user = "bob"
    <3>1. x = 0
      BY <2>1, <1>0, <1>3, <1>6 DEF RowsOwn
    <3>2. e.status = "notFound"
      BY <3>1
    <3>3. want.status = "notFound" /\ want.exact = FALSE
      BY <2>1, <1>0, <1>3, Wanted
    <3> QED
      BY <3>2, <3>3 DEF Expected, AsExpected
  <2>2. CASE want.user # "bob" /\ ~Leftover
    <3>1. want.user = "alice" /\ want.status = "ok"
      BY <2>2, <1>0, <1>3, Wanted
    <3>2. x # 0 /\ save[x].body = 1
      BY <2>2, <3>1, <1>0, <1>3 DEF Seen, RowMatches, App!RowOf
    <3>3. x \in App!Save /\ save[x].pc = "stored"
      BY <3>1, <3>2, <1>0, <1>3, <1>6, RowIsSave
    <3>4. e.status = "ok" /\ e.save = x
      BY <3>2
    <3> HIDE DEF x, e
    <3> QED
      BY <3>1, <3>2, <3>3, <3>4 DEF Expected, AsExpected
  <2> QED
    BY <2>1, <2>2
<1>8. Requests'
  <2>1. req'[r] = e /\ e.pc = "answer"
    BY <1>0, <1>1 DEF Requests
  <2> HIDE DEF e
  <2>2. Leftover' \/ Expected(req[r])'
    BY <2>1, <1>1, <1>4, <1>5, <1>7 DEF Expected, AsExpected
  <2>3. Asking(req[r])'
    BY <2>1, <2>2, <1>3, <1>5 DEF Asking
  <2> QED
    BY <2>3, <1>0, <1>1, <1>2, TheRequest, Turn
<1>9. Control' /\ Stubbed'
  BY <1>0, <1>1, <1>4, <1>5 DEF Control, Stubbed
<1>10. Owned' /\ Seen'
  BY <1>0, <1>1, <1>4, <1>5 DEF Owned, Seen, Mine, RowMatches
<1> QED
  BY <1>4, <1>8, <1>9, <1>10 DEF IInv, Course

-----------------------------------------------------------------------------
\* The test goroutine's steps.

LEMMA Initial ==
    ASSUME Init
    PROVE  IInv
<1>1. save = <<>> /\ rows = [x \in User \X Key |-> 0] /\ remote = [k \in Key |-> 0]
      /\ req = [r \in Request |-> App!NoRequest] /\ dbOpen = TRUE
  BY DEF Init, App!Init, App!NoRequest
<1>2. Len(save) = 0 /\ save \in Seq(SaveT) /\ App!Save = {}
  BY <1>1, EmptySeq DEF App!Save
<1>3. DataTyped
  BY <1>1, <1>2 DEF DataTyped
<1>4. Data
  <2>1. AfterStored /\ Latest
    BY <1>2 DEF AfterStored, Latest
  <2>2. \A k \in Key : rows[<<"alice", k>>] = 0 /\ rows[<<"bob", k>>] = 0
    BY <1>1 DEF User
  <2> QED
    BY <2>1, <2>2, <1>3 DEF Data, RowsOwn
<1>5. Test(1) = HappyPath
  <2>1. Len(Tests) = 3 /\ Tests[1] = HappyPath
    BY DEF Tests
  <2>2. ((1 - 1) % 3) + 1 = 1
    OBVIOUS
  <2> QED
    BY <2>1, <2>2 DEF Test
<1>6. Current = HappyPath /\ at = 1 /\ step = "reset" /\ asked = 0
  <2>1. at = 1 /\ step = HappyPath.first /\ asked = 0
    BY <1>5 DEF Init
  <2> QED
    BY <2>1, <1>5 DEF Current, HappyPath
<1>7. Control
  <2>1. Current \in Saving
    BY <1>6 DEF Saving
  <2>2. at \in Nat \ {0} /\ asked \in Nat
    BY <1>6
  <2> QED
    BY <1>6, <2>1, <2>2 DEF Control
<1>8. Requests /\ Stubbed /\ Owned /\ Seen
  <2>1. DOMAIN req = Request /\ \A r \in Request : req[r] = App!NoRequest
    BY <1>1
  <2> QED
    BY <2>1, <1>6 DEF Requests, Stubbed, Owned, Seen
<1> QED
  BY <1>4, <1>7, <1>8 DEF IInv, Course

\* The next test starts from the beginning.
LEMMA NextControl ==
    ASSUME Control, NextTest
    PROVE  Control' /\ step' \in {"reset", "bad"}
<1>1. at' = at + 1 /\ at' \in Nat \ {0} /\ asked' = 0 /\ step' = Current'.first
  BY DEF NextTest, Control, Current
<1>2. Current' \in Saving \cup {BadToken}
  BY <1>1, TestKind DEF Current
<1>3. CASE Current' \in Saving
  BY <1>1, <1>3, Script DEF Control
<1>4. CASE Current' = BadToken
  <2>1. step' = "bad"
    BY <1>1, <1>4 DEF BadToken
  <2> QED
    BY <1>1, <1>4, <2>1 DEF Control
<1> QED
  BY <1>2, <1>3, <1>4

\* A test that ends leaves nothing to keep but the table.
LEMMA Ending ==
    ASSUME IInv, NextTest, UNCHANGED <<save, rows, remote, dbOpen>>,
           Requests'
    PROVE  IInv'
<1>0. Data /\ DataTyped /\ Control
  BY DEF IInv, Course, Data
<1>1. Control' /\ step' \in {"reset", "bad"}
  BY <1>0, NextControl
<1>2. Data'
  BY <1>0, DataStands DEF DataTyped
<1>3. Stubbed' /\ Owned' /\ Seen'
  BY <1>1 DEF Stubbed, Owned, Seen
<1> QED
  BY <1>1, <1>2, <1>3 DEF IInv, Course

\* Requests that do not change, while nobody waits for one.
LEMMA RequestsStand ==
    ASSUME Requests, step \notin {"accepted", "refused", "told"}, req' = req
    PROVE  Requests'
<1>1. \A r \in Request : req'[r] = App!NoRequest
  BY NoneAsked
<1> QED
  BY <1>1 DEF Requests, App!NoRequest

LEMMA ResetStep ==
    ASSUME IInv, Reset \/ StubLookup
    PROVE  IInv'
<1>0. Data /\ DataTyped /\ Control /\ Requests
  BY DEF IInv, Course, Data
<1>1. /\ step \in {"reset", "stub"} /\ at' = at /\ asked' = asked
      /\ UNCHANGED <<req, save, rows, dbOpen>> /\ Current' = Current
  BY DEF Reset, StubLookup, GoTo, Current
<1>2. Current.key \in Key
  BY <1>0, <1>1, CurrentKey
<1>3. remote' \in [Key -> {0, 1}] /\ (step' = "save" => remote'[Current.key] = 1)
      /\ step' \in {"stub", "save"}
  BY <1>0, <1>2 DEF Reset, StubLookup, GoTo, DataTyped
<1>4. Data' /\ (Leftover' <=> Leftover)
  BY <1>0, <1>1, <1>3, DataStands
<1>5. Control' /\ Stubbed' /\ Owned' /\ Seen'
  BY <1>0, <1>1, <1>3, <1>4 DEF Control, Stubbed, Owned, Seen
<1>6. Requests'
  BY <1>0, <1>1, RequestsStand
<1> QED
  BY <1>4, <1>5, <1>6 DEF IInv, Course

LEMMA PostStep ==
    ASSUME IInv, NEW r \in Request, PostSave(r) \/ PostBad(r)
    PROVE  IInv'
<1> DEFINE e == IF step = "save" THEN [pc |-> "save", user |-> "alice", key |-> Current.key]
                                 ELSE [pc |-> "refuse"]
<1>0. Data /\ DataTyped /\ Control /\ Requests /\ Stubbed
  BY DEF IInv, Course, Data
<1>1. /\ \/ step = "save" /\ step' = "accepted"
         \/ step = "bad" /\ step' = "refused"
      /\ at' = at /\ asked' = asked /\ Current' = Current
      /\ req' = [req EXCEPT ![r] = e]
      /\ UNCHANGED <<save, rows, remote, dbOpen>>
  BY DEF PostSave, PostBad, GoTo, App!Accept, App!AcceptBad, Current
<1>2. Data' /\ (Leftover' <=> Leftover)
  BY <1>0, <1>1, DataStands DEF DataTyped
<1>3. Control' /\ Stubbed' /\ Owned' /\ Seen'
  BY <1>0, <1>1, <1>2 DEF Control, Stubbed, Owned, Seen
<1>4. Requests'
  <2>1. req'[r] = e
    BY <1>0, <1>1 DEF Requests
  <2>2. Asking(req[r])'
    BY <2>1, <1>1 DEF Asking
  <2>3. \A s \in Request : req[s] = App!NoRequest
    BY <1>0, <1>1, NoneAsked
  <2> HIDE DEF e
  <2> QED
    BY <2>2, <2>3, <1>0, <1>1, Turn
<1> QED
  BY <1>2, <1>3, <1>4 DEF IInv, Course

LEMMA GetLookupStep ==
    ASSUME IInv, NEW r \in Request, GetLookup(r)
    PROVE  IInv'
<1> DEFINE e == [pc |-> "lookup", user |-> Current.lookups[asked + 1].user, key |-> Current.key]
<1>0. Data /\ DataTyped /\ Control /\ Requests /\ Stubbed /\ Owned /\ Seen
  BY DEF IInv, Course, Data
<1>1. /\ step = "look" /\ step' = "told"
      /\ at' = at /\ asked' = asked + 1 /\ Current' = Current
      /\ req' = [req EXCEPT ![r] = e]
      /\ UNCHANGED <<save, rows, remote, dbOpen>>
  BY DEF GetLookup, GoTo, App!Accept, Current
<1>2. Data' /\ (Leftover' <=> Leftover)
  BY <1>0, <1>1, DataStands DEF DataTyped
<1>3. Current \in Saving /\ asked \in Nat /\ asked < Len(Current.lookups)
      /\ Len(Current.lookups) \in Nat
  BY <1>0, <1>1, Script DEF Control
<1>4. Control'
  BY <1>0, <1>1, <1>3 DEF Control
<1>5. Stubbed' /\ Owned' /\ Seen'
  BY <1>0, <1>1, <1>2 DEF Stubbed, Owned, Seen, Mine, RowMatches
<1>6. Requests'
  <2>1. req'[r] = e
    BY <1>0, <1>1 DEF Requests
  <2>2. Asking(req[r])'
    BY <2>1, <1>1 DEF Asking
  <2>3. \A s \in Request : req[s] = App!NoRequest
    BY <1>0, <1>1, NoneAsked
  <2> HIDE DEF e
  <2> QED
    BY <2>2, <2>3, <1>0, <1>1, Turn
<1> QED
  BY <1>2, <1>4, <1>5, <1>6 DEF IInv, Course

LEMMA PollStep ==
    ASSUME IInv, Poll
    PROVE  IInv'
<1>0. Data /\ DataTyped /\ Control /\ Requests /\ Stubbed /\ Owned
  BY DEF IInv, Course, Data
<1>1. /\ step = "poll" /\ step' = "look" /\ RowMatches
      /\ at' = at /\ asked' = asked /\ Current' = Current
      /\ UNCHANGED <<req, save, rows, remote, dbOpen>>
  BY DEF Poll, GoTo, appVars, Current
<1>2. Data' /\ (Leftover' <=> Leftover)
  BY <1>0, <1>1, DataStands DEF DataTyped
<1>3. Control'
  <2>1. /\ Current \in Saving /\ asked = 0
        /\ Len(Current.lookups) \in Nat /\ Len(Current.lookups) >= 1
    BY <1>0, <1>1, Script DEF Control
  <2>2. asked < Len(Current.lookups)
    BY <2>1
  <2> QED
    BY <2>1, <2>2, <1>0, <1>1 DEF Control
<1>4. Stubbed' /\ Owned' /\ Seen'
  BY <1>0, <1>1, <1>2 DEF Stubbed, Owned, Seen, Mine, RowMatches
<1>5. Requests'
  BY <1>0, <1>1, RequestsStand
<1> QED
  BY <1>2, <1>3, <1>4, <1>5 DEF IInv, Course

LEMMA PollTimesOutStep ==
    ASSUME IInv, PollTimesOut
    PROVE  IInv'
<1>0. Requests
  BY DEF IInv, Course
<1>1. step = "poll" /\ NextTest /\ UNCHANGED <<req, save, rows, remote, dbOpen>>
  BY DEF PollTimesOut, appVars
<1>2. Requests'
  BY <1>0, <1>1, RequestsStand
<1> QED
  BY <1>1, <1>2, Ending

LEMMA CheckAcceptedStep ==
    ASSUME IInv, NEW r \in Request, CheckAccepted(r)
    PROVE  IInv' /\ failed' = FALSE
<1>0. Data /\ DataTyped /\ Control /\ Requests /\ Stubbed
  BY DEF IInv, Course, Data
<1>1. /\ step = "accepted" /\ req[r].pc = "answer" /\ Require(req[r].status = "accepted")
      /\ req' = [req EXCEPT ![r] = App!NoRequest]
      /\ UNCHANGED <<save, rows, remote, dbOpen>>
  BY DEF CheckAccepted, App!Reply
<1>2. req[r] # App!NoRequest
  BY <1>1 DEF App!NoRequest
<1>3. req[r].status = "accepted" /\ Mine
  BY <1>0, <1>1, <1>2, TheRequest DEF Asking
<1>4. /\ step' = "poll" /\ at' = at /\ asked' = asked /\ failed' = FALSE
      /\ Current' = Current
  BY <1>1, <1>3 DEF Require, Current
<1>5. Data' /\ (Leftover' <=> Leftover)
  BY <1>0, <1>1, DataStands DEF DataTyped
<1>6. Requests'
  <2>1. req'[r] = App!NoRequest
    BY <1>0, <1>1 DEF Requests
  <2> QED
    BY <2>1, <1>0, <1>1, <1>2, TheRequest, Turn
<1>7. Control' /\ Stubbed' /\ Owned' /\ Seen'
  BY <1>0, <1>1, <1>3, <1>4, <1>5 DEF Control, Stubbed, Owned, Mine, Seen
<1> QED
  BY <1>4, <1>5, <1>6, <1>7 DEF IInv, Course

LEMMA CheckRefusedStep ==
    ASSUME IInv, NEW r \in Request, CheckRefused(r)
    PROVE  IInv' /\ failed' = FALSE
<1>0. Requests /\ Control
  BY DEF IInv, Course
<1>1. /\ step = "refused" /\ req[r].pc = "answer"
      /\ failed' = (req[r].status # "refused") /\ NextTest
      /\ req' = [req EXCEPT ![r] = App!NoRequest]
      /\ UNCHANGED <<save, rows, remote, dbOpen>>
  BY DEF CheckRefused, App!Reply
<1>2. req[r] # App!NoRequest
  BY <1>1 DEF App!NoRequest
<1>3. req[r].status = "refused"
  BY <1>0, <1>1, <1>2, TheRequest DEF Asking
<1>4. Requests'
  <2>1. req'[r] = App!NoRequest
    BY <1>0, <1>1 DEF Requests
  <2> QED
    BY <2>1, <1>0, <1>1, <1>2, TheRequest, Turn
<1>5. IInv'
  BY <1>1, <1>4, Ending
<1> QED
  BY <1>1, <1>3, <1>5

LEMMA CheckLookupStep ==
    ASSUME IInv, NEW r \in Request, CheckLookup(r)
    PROVE  IInv' /\ (failed' => Leftover)
<1> DEFINE ok == AsExpected(req[r], Current.lookups[asked])
<1>0. Data /\ DataTyped /\ Control /\ Requests /\ Stubbed /\ Owned /\ Seen
  BY DEF IInv, Course, Data
<1>1. /\ step = "told" /\ req[r].pc = "answer" /\ failed' = ~ok
      /\ \/ asked < Len(Current.lookups) /\ step' = "look" /\ at' = at /\ asked' = asked
         \/ NextTest
      /\ req' = [req EXCEPT ![r] = App!NoRequest]
      /\ UNCHANGED <<save, rows, remote, dbOpen>>
  BY DEF CheckLookup, App!Reply
<1>2. req[r] # App!NoRequest
  BY <1>1 DEF App!NoRequest
<1>3. Leftover \/ ok
  BY <1>0, <1>1, <1>2, TheRequest DEF Asking, Expected
<1>4. failed' => Leftover
  BY <1>1, <1>3
<1>5. Requests'
  <2>1. req'[r] = App!NoRequest
    BY <1>0, <1>1 DEF Requests
  <2> QED
    BY <2>1, <1>0, <1>1, <1>2, TheRequest, Turn
<1>6. CASE NextTest
  BY <1>1, <1>4, <1>5, <1>6, Ending
<1>7. CASE asked < Len(Current.lookups) /\ step' = "look" /\ at' = at /\ asked' = asked
  <2>1. Current' = Current
    BY <1>7 DEF Current
  <2>2. Data' /\ (Leftover' <=> Leftover)
    BY <1>0, <1>1, DataStands DEF DataTyped
  <2>3. Control'
    BY <2>1, <1>0, <1>1, <1>7 DEF Control
  <2>4. Stubbed' /\ Owned' /\ Seen'
    BY <2>1, <2>2, <1>0, <1>1, <1>7 DEF Stubbed, Owned, Seen, Mine, RowMatches
  <2> QED
    BY <2>2, <2>3, <2>4, <1>4, <1>5 DEF IInv, Course
<1> QED
  BY <1>1, <1>6, <1>7

-----------------------------------------------------------------------------
\* The theorem.

LEMMA Stutter ==
    ASSUME IInv, UNCHANGED vars
    PROVE  IInv'
<1>0. Data /\ Course /\ DataTyped
  BY DEF IInv, Data
<1>1. /\ UNCHANGED <<at, step, asked, req, save, rows, remote, dbOpen>>
      /\ Current' = Current /\ App!Save' = App!Save /\ App!NoRequest' = App!NoRequest
  BY DEF vars, testVars, appVars, Current, App!Save, App!NoRequest
<1>2. Data' /\ (Leftover' <=> Leftover)
  BY <1>0, <1>1, DataStands DEF DataTyped
<1>3. Requests'
  <2>1. \A q : Asking(q) => Asking(q)'
    BY <1>1, <1>2 DEF Asking, Mine, Expected, AsExpected
  <2> QED
    BY <2>1, <1>0, <1>1 DEF Course, Requests
<1>4. Control' /\ Stubbed' /\ Owned' /\ Seen'
  BY <1>0, <1>1, <1>2
  DEF Course, Control, Stubbed, Owned, Mine, Seen, RowMatches
<1> QED
  BY <1>2, <1>3, <1>4 DEF IInv, Course

LEMMA NextStep ==
    ASSUME IInv, [Next]_vars
    PROVE  IInv'
<1>1. CASE Goroutine
  <2>1. CASE Reset \/ StubLookup
    BY <2>1, ResetStep
  <2>2. CASE Poll
    BY <2>2, PollStep
  <2>3. CASE PollTimesOut
    BY <2>3, PollTimesOutStep
  <2>4. ASSUME NEW r \in Request, PostSave(r) \/ PostBad(r) PROVE IInv'
    BY <2>4, PostStep
  <2>5. ASSUME NEW r \in Request, CheckAccepted(r) PROVE IInv'
    BY <2>5, CheckAcceptedStep
  <2>6. ASSUME NEW r \in Request, CheckRefused(r) PROVE IInv'
    BY <2>6, CheckRefusedStep
  <2>7. ASSUME NEW r \in Request, GetLookup(r) PROVE IInv'
    BY <2>7, GetLookupStep
  <2>8. ASSUME NEW r \in Request, CheckLookup(r) PROVE IInv'
    BY <2>8, CheckLookupStep
  <2> QED
    BY <1>1, <2>1, <2>2, <2>3, <2>4, <2>5, <2>6, <2>7, <2>8 DEF Goroutine
<1>2. ASSUME NEW r \in Request, Handler(r) PROVE IInv'
  BY <1>2, RefuseStep, HandleSaveStep, HandleLookupStep DEF Handler
<1>3. ASSUME NEW f \in App!Save, Background(f) PROVE IInv'
  <2>1. DataTyped /\ UNCHANGED testVars /\ App!Background(f)
    BY <1>3 DEF Background, IInv, Data
  <2>2. ~App!SaveFails(f)
    BY <2>1, NoneFails
  <2> QED
    BY <2>1, <2>2, FetchStep, StoreStep DEF App!Background
<1>4. CASE UNCHANGED vars
  BY <1>4, Stutter
<1> QED
  BY <1>1, <1>2, <1>3, <1>4 DEF Next

\* The poll is given up while the save of the test is under way, or after the
\* row of it was overwritten by an older one.
LEMMA LateSave ==
    ASSUME IInv, PollTimesOut
    PROVE  Leftover \/ UnderWay(Len(save))
<1> DEFINE m == Len(save)
           x == rows[<<"alice", Current.key>>]
<1> SUFFICES ASSUME ~Leftover, ~UnderWay(m) PROVE FALSE
  OBVIOUS
<1>0. Data /\ DataTyped /\ Latest /\ Control /\ Owned
  BY DEF IInv, Course, Data
<1>1. step = "poll" /\ ~RowMatches
  BY DEF PollTimesOut
<1>2. Mine /\ Current.key \in Key
  BY <1>0, <1>1, CurrentKey DEF Owned
<1>3. m \in App!Save /\ m \in Nat /\ save[m].key = Current.key
  BY <1>2, <1>0, Shape DEF Mine
<1>4. save[m].pc = "stored"
  BY <1>3, <1>0, Shape DEF UnderWay, SaveT
<1>5. m <= x
  BY <1>3, <1>4, <1>0 DEF Latest, Leftover
<1>6. m # 0 /\ save[m].body = 1
  BY <1>2, <1>4 DEF Mine
<1>7. <<"alice", Current.key>> \in User \X Key
  BY <1>2 DEF User
<1>8. x \in 0 .. m
  BY <1>7, <1>0 DEF DataTyped
<1>9. x = m
  BY <1>3, <1>5, <1>8
<1> QED
  BY <1>6, <1>9, <1>1 DEF RowMatches, App!RowOf

\* A step that fails a test is one that a late save can explain.
LEMMA LateStep ==
    ASSUME IInv, Next, failed', <<at, step>>' # <<at, step>>
    PROVE  /\ step \in {"poll", "told"}
           /\ Leftover \/ (step = "poll" /\ UnderWay(Len(save)))
<1>1. Goroutine
  BY DEF Next, Handler, Background, testVars
<1>2. CASE PollTimesOut
  BY <1>2, LateSave DEF PollTimesOut
<1>3. ~(Reset \/ StubLookup \/ Poll)
  BY DEF Reset, StubLookup, Poll, GoTo
<1>4. ASSUME NEW r \in Request, PostSave(r) \/ PostBad(r) \/ GetLookup(r)
      PROVE  FALSE
  BY <1>4 DEF PostSave, PostBad, GetLookup, GoTo
<1>5. ASSUME NEW r \in Request, CheckAccepted(r) \/ CheckRefused(r)
      PROVE  FALSE
  BY <1>5, CheckAcceptedStep, CheckRefusedStep
<1>6. ASSUME NEW r \in Request, CheckLookup(r)
      PROVE  step = "told" /\ Leftover
  BY <1>6, CheckLookupStep DEF CheckLookup
<1> QED
  BY <1>1, <1>2, <1>3, <1>4, <1>5, <1>6 DEF Goroutine

\* However often the scenarios are run and however late the background saves
\* come, a test fails only when the poll of harness.go gives up on the test's
\* own save, or when a save of an earlier round was still under way as the test
\* saved the same key: nothing else that the tests share can make one fail.
THEOREM FailsOnlyLate == Spec => FailsOnlyIfLate
<1>1. Init => IInv
  BY Initial
<1>2. IInv /\ [Next]_vars => IInv'
  BY NextStep
<1>3. IInv /\ [Next]_vars =>
        [failed' => /\ step \in {"poll", "told"}
                    /\ \/ Disturbed(Len(save))
                       \/ step = "poll" /\ UnderWay(Len(save))]_<<at, step>>
  <2> SUFFICES ASSUME IInv, [Next]_vars, failed', <<at, step>>' # <<at, step>>
               PROVE  /\ step \in {"poll", "told"}
                      /\ Leftover \/ (step = "poll" /\ UnderWay(Len(save)))
    BY DEF Leftover
  <2>1. Next
    BY DEF vars, testVars
  <2> QED
    BY <2>1, LateStep
<1> QED
  BY <1>1, <1>2, <1>3, PTL DEF Spec, FailsOnlyIfLate
=============================================================================
