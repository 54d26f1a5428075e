------------------------------ MODULE SampleApp ------------------------------
(***************************************************************************)
(* The HTTP server of the example apps (examples/internal/sampleapp): a    *)
(* save is accepted at once and carried out by a goroutine of its own,     *)
(* which asks the remote service and writes the answer to the database; a  *)
(* lookup reads what is stored for its user.                               *)
(*                                                                         *)
(* Accepted saves are numbered in their order.  The remote's answers for a *)
(* key are numbered too: 0 is its answer when it knows nothing of the key, *)
(* which the code stores like any other.  A row of the table holds the     *)
(* save it was written by, or 0.                                           *)
(*                                                                         *)
(* Who sends requests, when the server takes them and when the database is *)
(* open is up to the module that instantiates this one.                    *)
(***************************************************************************)
EXTENDS Naturals, Sequences

CONSTANTS
    User,       \* the subjects of the tokens
    Key,        \* the keys of saves and lookups
    Request,    \* goroutines of net/http, each serving one request at a time
    Unlucky,    \* the saves that the remote or the database may fail
    MaxSaves    \* bound: how many saves are accepted

VARIABLES
    req,       \* req[r]: the request r serves, and how far it is
    save,      \* save[f]: the goroutine of save f, in the order of acceptance
    rows,      \* the table of responses
    remote,    \* remote[k]: the remote's answer for k
    dbOpen     \* whether the database handle is open

vars == <<req, save, rows, remote, dbOpen>>

Save      == DOMAIN save
NoRequest == [pc |-> "none"]

\* The primary key of the table.  Mutant: it lacks the user.
KeyOnly(u, k) == <<CHOOSE v \in User : TRUE, k>>
RowOf(u, k)   == <<u, k>>

\* New.
Init ==
    /\ req = [r \in Request |-> NoRequest]
    /\ save = <<>>
    /\ rows = [x \in User \X Key |-> 0]
    /\ remote = [k \in Key |-> 0]

-----------------------------------------------------------------------------
\* Requests.

\* A request reaches authMiddleware, and is let through as its token's subject.
Accept(r, op, u, k) ==
    /\ req[r] = NoRequest
    /\ op \in {"save", "lookup"}
    /\ req' = [req EXCEPT ![r] = [pc |-> op, user |-> u, key |-> k]]
    /\ UNCHANGED <<save, rows, remote, dbOpen>>

\* One with no valid token, or with no key, is refused.
AcceptBad(r) ==
    /\ req[r] = NoRequest
    /\ req' = [req EXCEPT ![r] = [pc |-> "refuse"]]
    /\ UNCHANGED <<save, rows, remote, dbOpen>>

Answer(r, status, f) ==
    req' = [req EXCEPT ![r] = [pc |-> "answer", status |-> status, save |-> f]]

Refuse(r) ==
    /\ req[r].pc = "refuse"
    /\ Answer(r, "refused", 0)
    /\ UNCHANGED <<save, rows, remote, dbOpen>>

\* The goroutine gets the subject and the key, and none of the request's
\* context.  after, kept for the properties, is what was stored by then.
HandleSave(r) ==
    /\ req[r].pc = "save"
    /\ Len(save) < MaxSaves
    /\ save' = Append(save, [pc |-> "fetching", user |-> req[r].user,
                             key |-> req[r].key, by |-> r, body |-> 0,
                             after |-> {f \in Save : save[f].pc = "stored"}])
    /\ Answer(r, "accepted", Len(save'))
    /\ UNCHANGED <<rows, remote, dbOpen>>

HandleLookup(r) ==
    LET f == rows[RowOf(req[r].user, req[r].key)] IN
    /\ req[r].pc = "lookup"
    /\ Answer(r, IF ~dbOpen THEN "error" ELSE IF f = 0 THEN "notFound" ELSE "ok", f)
    /\ UNCHANGED <<save, rows, remote, dbOpen>>

Reply(r) ==
    /\ req[r].pc = "answer"
    /\ req' = [req EXCEPT ![r] = NoRequest]
    /\ UNCHANGED <<save, rows, remote, dbOpen>>

Handler(r) == Refuse(r) \/ HandleSave(r) \/ HandleLookup(r) \/ Reply(r)

-----------------------------------------------------------------------------
\* fetchAndStore.

\* Mutant: the goroutine is given the context of its request.
RequestCtx(f)    == req[save[f].by] # NoRequest
BackgroundCtx(f) == TRUE
CtxLive(f)       == BackgroundCtx(f)

\* The status of the response is not looked at.
Fetch(f) ==
    /\ save[f].pc = "fetching"
    /\ CtxLive(f)
    /\ save' = [save EXCEPT ![f].pc = "storing", ![f].body = remote[save[f].key]]
    /\ UNCHANGED <<req, rows, remote, dbOpen>>

\* Mutant: the upsert may be sent again.
AnyUpsert(f)  == save[f].pc \in {"storing", "stored"}
OneUpsert(f)  == save[f].pc = "storing"

Store(f) ==
    /\ OneUpsert(f)
    /\ dbOpen
    /\ CtxLive(f)
    /\ rows' = [rows EXCEPT ![RowOf(save[f].user, save[f].key)] = f]
    /\ save' = [save EXCEPT ![f].pc = "stored"]
    /\ UNCHANGED <<req, remote, dbOpen>>

\* The error is logged, and nobody else hears of it.
SaveFails(f) ==
    /\ save[f].pc \in {"fetching", "storing"}
    /\ \/ f \in Unlucky
       \/ save[f].pc = "storing" /\ ~dbOpen
       \/ ~CtxLive(f)
    /\ save' = [save EXCEPT ![f].pc = "failed"]
    /\ UNCHANGED <<req, rows, remote, dbOpen>>

Background(f) == Fetch(f) \/ Store(f) \/ SaveFails(f)

-----------------------------------------------------------------------------
\* Properties.

RequestState ==
    [pc : {"none", "refuse"}]
        \cup [pc : {"save", "lookup"}, user : User, key : Key]
        \cup [pc : {"answer"}, status : {"refused", "accepted", "ok", "notFound", "error"},
              save : 0 .. Len(save)]

SaveState ==
    [pc : {"fetching", "storing", "stored", "failed"}, user : User, key : Key,
     by : Request, body : Nat, after : SUBSET Save]

\* Every variable has its type.
TypeOK ==
    /\ req \in [Request -> RequestState]
    /\ save \in Seq(SaveState)
    /\ Len(save) <= MaxSaves
    /\ rows \in [User \X Key -> 0 .. Len(save)]
    /\ remote \in [Key -> Nat]
    /\ dbOpen \in BOOLEAN

\* What a user finds under a key is what the remote answered for that key to
\* a save of that very user, whoever else saves the same key meanwhile.
RowsAreOwn ==
    \A u \in User, k \in Key :
        LET f == rows[RowOf(u, k)] IN
        f # 0 => save[f].user = u /\ save[f].key = k /\ save[f].pc = "stored"

\* Accepted saves run side by side and may overtake each other, but a row goes
\* back to an older answer only if the two saves overlapped: if one was stored
\* before the other was accepted, their answers stand in that order.
NoStaleOverwrite ==
    [][\A x \in User \X Key :
        LET old == rows[x]
            new == rows'[x]
        IN  old # 0 /\ new # 0 /\ save[new].body < save[old].body
                => old \notin save[new].after /\ new \notin save[old].after]_vars
=============================================================================
