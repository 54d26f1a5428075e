-------------------------------- MODULE Issuer --------------------------------
(***************************************************************************)
(* The OIDC issuer (services/oidc): Start and Stop, and the requests that  *)
(* change the code store or the refresh store.  net/http serves every      *)
(* request in a goroutine of its own, and the handlers read the fields of  *)
(* Issuer without i.mu, so each read is a step of its own here.            *)
(*                                                                         *)
(* One successful entry into startServer is a run.  Runs are numbered, and *)
(* a field that holds what run n put there has the value n, or 0 for nil:  *)
(* base stands for i.server, i.listener and i.baseURL, which are set and   *)
(* cleared together, key for i.privKey, and stores for i.codeStore and     *)
(* i.refreshStore.                                                         *)
(*                                                                         *)
(* A grant is named by its authorization code.  Whoever may still turn the *)
(* grant into tokens bears it: the code while it is stored, a request      *)
(* between its consume and its next store, a stored refresh token.         *)
(*                                                                         *)
(* A request is known to match the redirect_uri of its code or not; the    *)
(* rest of what it says is chosen when it matters: whether its             *)
(* code_verifier fits, its scope had offline_access, its grant has an      *)
(* audience.                                                               *)
(***************************************************************************)
EXTENDS Integers

CONSTANTS
    Request,         \* goroutines of net/http, each serving one request at a time
    CodeTTL,         \* i.codeTTL, in ticks of the clock
    RefreshTTL,      \* i.refreshTokenTTL, in ticks
    Second,          \* how many ticks make one second
    ShutdownMayEnd,  \* whether the context of Stop may end before the requests
    MaxRuns,         \* bound: how many times Start gets as far as a keypair
    MaxCodes,        \* bound: codes issued
    MaxTokens,       \* bound: refresh tokens minted
    MaxTime          \* bound: the clock

\* validate refuses a lifetime that is not positive.
ASSUME IssuerAssumptions ==
    /\ CodeTTL \in Nat \ {0}
    /\ RefreshTTL \in Nat \ {0}
    /\ Second \in Nat \ {0}
    /\ ShutdownMayEnd \in BOOLEAN
    /\ MaxRuns \in Nat
    /\ MaxCodes \in Nat
    /\ MaxTokens \in Nat
    /\ MaxTime \in Nat

Run   == 1 .. MaxRuns
Code  == 1 .. MaxCodes
Token == 1 .. MaxTokens

VARIABLES
    now,        \* the clock
    mu,         \* "free", or the step that Start or Stop is at, holding i.mu
    runs,       \* how many runs have begun
    base,       \* the run whose address the issuer has, or 0
    key,        \* the run that generated i.privKey, or 0
    stores,     \* the run that made i.codeStore and i.refreshStore, or 0
    accepting,  \* the run whose http.Server takes new requests, or 0
    issued,     \* how many codes were issued
    code,       \* code[c]: the store that c was issued into, and its expiry
    codes,      \* the codes whose record is still in its store
    minted,     \* how many refresh tokens were begun
    token,      \* token[t]: the grant it continues and the claims it carries
    held,       \* held[t]: the run whose store has the record of t, or 0
    given,      \* the refresh tokens a client received
    locked,     \* the runs whose refresh store has its mutex locked
    req         \* req[r]: where r is in its handler

server    == <<runs, base, key, stores, accepting>>
lifecycle == <<mu, server>>
codeVars  == <<issued, code, codes>>
tokenVars == <<minted, token, held, given>>
vars      == <<now, lifecycle, codeVars, tokenVars, locked, req>>

\* store is the run of the refresh store whose mutex the request waits for or
\* is to unlock.
NoRequest == [pc |-> "idle", run |-> 0, flow |-> "none", grant |-> 0, token |-> 0,
              matches |-> FALSE, store |-> 0]

Init ==
    /\ now = 0
    /\ mu = "free"
    /\ runs = 0 /\ base = 0 /\ key = 0 /\ stores = 0 /\ accepting = 0
    /\ issued = 0
    /\ code = [c \in Code |-> [home |-> 0, expires |-> 0]]
    /\ codes = {}
    /\ minted = 0
    /\ token = [t \in Token |-> [grant |-> 0, aud |-> 0, key |-> 0, expires |-> 0]]
    /\ held = [t \in Token |-> 0]
    /\ given = {}
    /\ locked = {}
    /\ req = [r \in Request |-> NoRequest]

Tick ==
    /\ now < MaxTime
    /\ now' = now + 1
    /\ UNCHANGED <<lifecycle, codeVars, tokenVars, locked, req>>

-----------------------------------------------------------------------------
\* Start and Stop.

\* startServer makes a keypair and two empty stores.
FreshRun == runs + 1

\* Start is refused while there is a server.  The keypair and the stores are
\* in place before the listener is bound.
BeginStart ==
    /\ mu = "free"
    /\ base = 0
    /\ runs < MaxRuns
    /\ mu' = "starting"
    /\ runs' = FreshRun
    /\ key' = FreshRun
    /\ stores' = FreshRun
    /\ UNCHANGED <<now, base, accepting, codeVars, tokenVars, locked, req>>

Bind ==
    /\ mu = "starting"
    /\ mu' = "free"
    /\ base' = runs
    /\ accepting' = runs
    /\ UNCHANGED <<now, runs, key, stores, codeVars, tokenVars, locked, req>>

\* Only the key is taken back; the new stores stay.
BindFails ==
    /\ mu = "starting"
    /\ mu' = "free"
    /\ key' = 0
    /\ UNCHANGED <<now, runs, base, stores, accepting, codeVars, tokenVars, locked, req>>

\* stopServer clears the fields one after the other, and only then calls
\* Shutdown.
BeginStop ==
    /\ mu = "free"
    /\ base # 0
    /\ mu' = "clearing"
    /\ base' = 0
    /\ UNCHANGED <<now, runs, key, stores, accepting, codeVars, tokenVars, locked, req>>

ClearSecrets ==
    /\ mu = "clearing"
    /\ mu' = "closing"
    /\ key' = 0
    /\ stores' = 0
    /\ UNCHANGED <<now, runs, base, accepting, codeVars, tokenVars, locked, req>>

\* Shutdown closes the listener ...
CloseListener ==
    /\ mu = "closing"
    /\ mu' = "draining"
    /\ accepting' = 0
    /\ UNCHANGED <<now, runs, base, key, stores, codeVars, tokenVars, locked, req>>

\* Mutant: Close in place of Shutdown.
DrainedAtOnce == TRUE

\* ... and waits for the requests its server is serving.
Drained == \A r \in Request : req[r].pc = "idle" \/ req[r].run # runs

StopReturns ==
    /\ mu = "draining"
    /\ Drained \/ ShutdownMayEnd
    /\ mu' = "free"
    /\ UNCHANGED <<now, runs, base, key, stores, accepting, codeVars, tokenVars, locked, req>>

-----------------------------------------------------------------------------
\* The life of a request.

Accept(r, pc, flow, c, t, matches) ==
    /\ mu # "dead"
    /\ accepting # 0
    /\ req[r].pc = "idle"
    /\ req' = [req EXCEPT ![r] = [pc |-> pc, run |-> accepting, flow |-> flow, grant |-> c,
                                  token |-> t, matches |-> matches, store |-> 0]]
    /\ UNCHANGED <<now, lifecycle, codeVars, tokenVars, locked>>

\* Clients present the codes and tokens they were given, used ones too.
AcceptAuthorize(r) == Accept(r, "authorize", "none", 0, 0, FALSE)
AcceptCode(r) ==
    \E c \in 1 .. issued, matches \in BOOLEAN : Accept(r, "redeem", "code", c, 0, matches)
AcceptRefresh(r) == \E t \in given : Accept(r, "parse", "refresh", 0, t, FALSE)

At(r, pc)   == req[r].pc = pc
GoTo(r, pc) == req' = [req EXCEPT ![r].pc = pc]

\* The handler returns, with a response that grants nothing.
Finish(r) == req' = [req EXCEPT ![r] = NoRequest]

\* sync kills the process if the mutex is not locked.
Unlock(s) ==
    IF s \in locked
    THEN locked' = locked \ {s} /\ UNCHANGED mu
    ELSE mu' = "dead" /\ UNCHANGED locked

\* Where a handler is about to read the field of a store.
Reads == {"authorize", "redeem", "store", "put", "unlock", "claim", "defer", "lookup",
          "take", "drop"}

\* consumeRefreshToken has deferred its Unlock.
Deferred(r) == req[r].pc \in {"lookup", "take", "drop"}

\* A nil store is dereferenced: net/http recovers the panic and drops the
\* connection.  A mutex that was locked stays so, unless its Unlock was
\* deferred.
Panic(r) ==
    /\ req[r].pc \in Reads
    /\ stores = 0
    /\ Finish(r)
    /\ IF Deferred(r) THEN Unlock(req[r].store) ELSE UNCHANGED <<mu, locked>>
    /\ UNCHANGED <<now, server, codeVars, tokenVars>>

\* The random source fails, or the handler finds no key to sign with.
HandlerFails(r) ==
    /\ \/ At(r, "authorize") \/ At(r, "sign") \/ At(r, "address") \/ At(r, "access")
       \/ At(r, "mint") /\ key = 0
    /\ Finish(r)
    /\ UNCHANGED <<now, lifecycle, codeVars, tokenVars, locked>>

-----------------------------------------------------------------------------
\* handleAuthorize, once its checks have passed.

\* Mutant: the record is stored under another key than the code handed out.
OtherCode == issued + 2
NewCode   == issued + 1

Issue(r) ==
    /\ At(r, "authorize")
    /\ stores # 0
    /\ issued < MaxCodes
    /\ issued' = issued + 1
    /\ code' = [code EXCEPT ![NewCode] = [home |-> stores, expires |-> now + CodeTTL]]
    /\ codes' = codes \cup {NewCode}
    /\ Finish(r)
    /\ UNCHANGED <<now, lifecycle, tokenVars, locked>>

-----------------------------------------------------------------------------
\* handleAuthCodeGrant.

\* Mutants: the record stays; it is gone before the redirect_uri is compared.
CodeStays(c)  == codes
CodeBurned(c) == codes \ {c}

CodeTaken(c)      == codes \ {c}
CodeMismatched(c) == codes

\* validatePKCEVerifier, once the code is consumed: a request that fails the
\* check has used the code up all the same.
CheckVerifier(r) == GoTo(r, "sign") \/ Finish(r)

ConsumeCode(r) ==
    LET c == req[r].grant IN
    /\ At(r, "redeem")
    /\ stores # 0
    /\ IF c \notin codes \/ code[c].home # stores
       THEN Finish(r) /\ UNCHANGED codes
       ELSE IF now > code[c].expires
       THEN Finish(r) /\ codes' = codes \ {c}
       ELSE IF ~req[r].matches
       THEN Finish(r) /\ codes' = CodeMismatched(c)
       ELSE codes' = CodeTaken(c) /\ CheckVerifier(r)
    /\ UNCHANGED <<now, lifecycle, issued, code, tokenVars, locked>>

\* The id token and the access token; without offline_access that is all.
SignTokens(r) ==
    /\ At(r, "sign")
    /\ key # 0
    /\ GoTo(r, "address") \/ Finish(r)
    /\ UNCHANGED <<now, lifecycle, codeVars, tokenVars, locked>>

-----------------------------------------------------------------------------
\* issueRefreshToken, called by both grants.

\* The identity and the expiry of the token are fixed, and i.baseURL is read.
ReadAddress(r) ==
    /\ At(r, "address")
    /\ minted < MaxTokens
    /\ minted' = minted + 1
    /\ token' = [token EXCEPT ![minted'] = [grant |-> req[r].grant, aud |-> base,
                                            key |-> 0, expires |-> now + RefreshTTL]]
    /\ req' = [req EXCEPT ![r].pc = "mint", ![r].token = minted']
    /\ UNCHANGED <<now, lifecycle, codeVars, held, given, locked>>

Mint(r) ==
    /\ At(r, "mint")
    /\ key # 0
    /\ token' = [token EXCEPT ![req[r].token].key = key]
    /\ GoTo(r, "store")
    /\ UNCHANGED <<now, lifecycle, codeVars, minted, held, given, locked>>

\* The next three actions are lines 59, 60 and 61 of refresh.go, each of which
\* reads i.refreshStore anew.  Line 59 finds the mutex ...
ReadStore(r) ==
    /\ At(r, "store") \/ At(r, "claim")
    /\ stores # 0
    /\ req' = [req EXCEPT ![r].pc = IF @ = "store" THEN "enter" ELSE "wait",
                          ![r].store = stores]
    /\ UNCHANGED <<now, lifecycle, codeVars, tokenVars, locked>>

\* Mutant: the mutex does not exclude anyone.
AnyTime(s) == TRUE
Free(s)    == s \notin locked

\* ... and waits for it, whatever the field says by then.
LockStore(r) ==
    /\ At(r, "enter") \/ At(r, "wait")
    /\ Free(req[r].store)
    /\ locked' = locked \cup {req[r].store}
    /\ GoTo(r, IF At(r, "enter") THEN "put" ELSE "defer")
    /\ UNCHANGED <<now, lifecycle, codeVars, tokenVars>>

PutRecord(r) ==
    /\ At(r, "put")
    /\ stores # 0
    /\ held' = [held EXCEPT ![req[r].token] = stores]
    /\ GoTo(r, "unlock")
    /\ UNCHANGED <<now, lifecycle, codeVars, minted, token, given, locked>>

\* The code grant then answers; the refresh grant may have an access token to
\* sign.
UnlockStore(r) ==
    /\ At(r, "unlock")
    /\ stores # 0
    /\ Unlock(stores)
    /\ \/ /\ Finish(r)
          /\ given' = given \cup {req[r].token}
       \/ /\ req[r].flow = "refresh"
          /\ GoTo(r, "access")
          /\ UNCHANGED given
    /\ UNCHANGED <<now, server, codeVars, minted, token, held>>

-----------------------------------------------------------------------------
\* handleRefreshGrant.

\* The exp claim is in whole seconds.
Exp(t) == (token[t].expires \div Second) * Second

\* jwt.Parse checks the signature and exp, consumeRefreshToken the audience.
\* A Stop between the reads of key and base can only make the check fail.
ParseToken(r) ==
    LET t == req[r].token IN
    /\ At(r, "parse")
    /\ IF token[t].key = key /\ now < Exp(t) /\ token[t].aud = base
       THEN GoTo(r, "claim")
       ELSE Finish(r)
    /\ UNCHANGED <<now, lifecycle, codeVars, tokenVars, locked>>

RecordMissing(t) == held[t] # stores
RecordExpired(t) == now > token[t].expires

\* The mutex is locked as above; lines 90, 91 and 96 or 99 read i.refreshStore
\* again.  The mutex to unlock in the end is the one that line 90 finds.
DeferUnlock(r) ==
    /\ At(r, "defer")
    /\ stores # 0
    /\ req' = [req EXCEPT ![r].pc = "lookup", ![r].store = stores]
    /\ UNCHANGED <<now, lifecycle, codeVars, tokenVars, locked>>

LookUp(r) ==
    LET t == req[r].token IN
    /\ At(r, "lookup")
    /\ stores # 0
    /\ IF RecordMissing(t)
       THEN Finish(r) /\ Unlock(req[r].store)
       ELSE /\ GoTo(r, IF RecordExpired(t) THEN "drop" ELSE "take")
            /\ UNCHANGED <<mu, locked>>
    /\ UNCHANGED <<now, server, codeVars, tokenVars>>

ClaimToken(r) ==
    LET t == req[r].token IN
    /\ At(r, "take") \/ At(r, "drop")
    /\ stores # 0
    /\ held' = [held EXCEPT ![t] = IF @ = stores THEN 0 ELSE @]
    /\ Unlock(req[r].store)
    /\ IF At(r, "drop")
       THEN Finish(r)
       ELSE req' = [req EXCEPT ![r].pc = "address", ![r].grant = token[t].grant]
    /\ UNCHANGED <<now, server, codeVars, minted, token, given>>

SignAccess(r) ==
    /\ At(r, "access")
    /\ key # 0
    /\ given' = given \cup {req[r].token}
    /\ Finish(r)
    /\ UNCHANGED <<now, lifecycle, codeVars, minted, token, held, locked>>

-----------------------------------------------------------------------------
\* Mutant: the accessors that the handlers call take i.mu.
AccessorsLock    == mu = "free"
AccessorsAreFree == TRUE

HandlerStep(r) ==
    \/ Panic(r)
    \/ HandlerFails(r)
    \/ Issue(r)
    \/ ConsumeCode(r)
    \/ SignTokens(r)
    \/ ReadAddress(r)
    \/ Mint(r)
    \/ ReadStore(r)
    \/ LockStore(r)
    \/ PutRecord(r)
    \/ UnlockStore(r)
    \/ ParseToken(r)
    \/ DeferUnlock(r)
    \/ LookUp(r)
    \/ ClaimToken(r)
    \/ SignAccess(r)

Handler(r) == mu # "dead" /\ AccessorsAreFree /\ HandlerStep(r)

Stopping == ClearSecrets \/ CloseListener \/ StopReturns

Next ==
    \/ Tick
    \/ BeginStart \/ Bind \/ BindFails
    \/ BeginStop \/ Stopping
    \/ \E r \in Request :
        AcceptAuthorize(r) \/ AcceptCode(r) \/ AcceptRefresh(r) \/ Handler(r)

Spec == Init /\ [][Next]_vars

\* Goroutines that can run do run, and a sync.Mutex does not starve those that
\* wait for it; nobody is obliged to send a request or to call Start or Stop.
Fairness ==
    /\ WF_vars(Bind \/ BindFails)
    /\ WF_vars(Stopping)
    /\ \A r \in Request : SF_vars(Handler(r))

FairSpec == Spec /\ Fairness

-----------------------------------------------------------------------------
\* Properties.

RequestState ==
    [pc : {"idle", "authorize", "redeem", "sign", "address", "mint", "store", "enter",
           "put", "unlock", "parse", "claim", "wait", "defer", "lookup", "take", "drop",
           "access"},
     run : 0 .. MaxRuns, flow : {"none", "code", "refresh"},
     grant : 0 .. MaxCodes, token : 0 .. MaxTokens, matches : BOOLEAN,
     store : 0 .. MaxRuns]

\* Every variable has its type.
TypeOK ==
    /\ now \in 0 .. MaxTime
    /\ mu \in {"free", "starting", "clearing", "closing", "draining", "dead"}
    /\ runs \in 0 .. MaxRuns
    /\ base \in 0 .. MaxRuns
    /\ key \in 0 .. MaxRuns
    /\ stores \in 0 .. MaxRuns
    /\ accepting \in 0 .. MaxRuns
    /\ issued \in 0 .. MaxCodes
    /\ code \in [Code -> [home : 0 .. MaxRuns, expires : Nat]]
    /\ codes \subseteq 1 .. issued
    /\ minted \in 0 .. MaxTokens
    /\ token \in [Token -> [grant : 0 .. MaxCodes, aud : 0 .. MaxRuns,
                            key : 0 .. MaxRuns, expires : Nat]]
    /\ held \in [Token -> 0 .. MaxRuns]
    /\ given \subseteq 1 .. minted
    /\ locked \subseteq 0 .. MaxRuns
    /\ req \in [Request -> RequestState]

Carries(r, g) ==
    /\ req[r].grant = g
    /\ req[r].pc \in {"sign", "address", "mint", "store", "enter", "put"}

Bearers(g) ==
    {<<"code", c>> : c \in codes \cap {g}}
        \cup {<<"request", r>> : r \in {s \in Request : Carries(s, g)}}
        \cup {<<"token", t>> : t \in {u \in Token : held[u] # 0 /\ token[u].grant = g}}

\* A code is redeemed once and a refresh token is exchanged once, however
\* many requests present them at the same time: a grant never forks.
OneBearer == \A g \in Code : \A x, y \in Bearers(g) : x = y

\* What has been used up, or has failed halfway, never comes back.
SpentStaysSpent ==
    [][\A g \in 1 .. issued : Bearers(g) = {} => Bearers(g)' = {}]_vars

\* A client that presents the wrong redirect_uri leaves the code to the one
\* that has the right one: until it expires, a code leaves its store only by
\* a request that matches it.
CodeSurvivesMismatch ==
    [][\A c \in codes : c \notin codes' =>
        \/ now > code[c].expires
        \/ \E r \in Request : req[r].matches /\ req[r].grant = c /\ req'[r] # req[r]]_vars

\* The store of a run has tokens of that run's grants only: what was granted
\* before a Stop is worth nothing after the next Start.
GrantsStayInRun ==
    \A t \in Token : held[t] # 0 => code[token[t].grant].home = held[t]

\* While the server is up, every token it has a record of is one that its
\* own key and address verify.
StoredTokensVerify ==
    base # 0 =>
        \A t \in Token : held[t] = stores => token[t].key = key /\ token[t].aud = base

\* A request waits for the mutex of a store that Stop took from the issuer,
\* which a request that panicked has left locked.
Jammed(r) ==
    LET s == req[r].store IN
    /\ At(r, "enter") \/ At(r, "wait")
    /\ s \in locked /\ s # stores
    /\ \A q \in Request : req[q].store = s => At(q, "enter") \/ At(q, "wait")

\* Stop and the requests it waits for never wait for each other: Stop returns,
\* with no help from its context, and every request is answered or dropped,
\* unless Stop itself made a request panic that had the mutex of the refresh
\* store.  The mutex of the store in use is never left locked.
EverythingEnds ==
    /\ []<>(mu = "free" \/ \E r \in Request : Jammed(r))
    /\ \A r \in Request : []<>(req[r].pc = "idle" \/ Jammed(r))
=============================================================================
