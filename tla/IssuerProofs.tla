----------------------------- MODULE IssuerProofs -----------------------------
(***************************************************************************)
(* Proofs about Issuer, for any number of requests, runs, codes, tokens    *)
(* and ticks of the clock.                                                 *)
(***************************************************************************)
EXTENDS Issuer, TLAPS

Phases == {"free", "starting", "clearing", "closing", "draining", "dead"}

\* Where a request makes a token, where it bears its grant, and where it has
\* the name of a token that was made.
Makings  == {"mint", "store", "enter", "put"}
Bearings == {"sign", "address"} \cup Makings
Namings  == {"unlock", "parse", "claim", "wait", "defer", "lookup", "take", "drop", "access"}

Makes(r) == req[r].pc \in Makings
Bears(r) == req[r].pc \in Bearings
Names(r) == req[r].pc \in Namings

\* Every reference to a code or to a token is to one that exists, and the
\* token a request is making continues the grant the request bears.
LinksInv ==
    /\ \A r \in Request :
        /\ Bears(r) \/ At(r, "redeem") => req[r].grant \in 1 .. issued
        /\ Makes(r) =>
            /\ req[r].token \in 1 .. minted
            /\ token[req[r].token].grant = req[r].grant
            /\ held[req[r].token] = 0
        /\ Names(r) => req[r].token \in 1 .. minted
    /\ \A r, s \in Request : Makes(r) /\ Makes(s) /\ req[r].token = req[s].token => r = s
    /\ \A t \in 1 .. minted : token[t].grant \in 1 .. issued
    /\ \A t \in Token : held[t] # 0 => t \in 1 .. minted

IInv ==
    /\ TypeOK
    /\ LinksInv

\* An issuer that was never started satisfies the invariant.
LEMMA InitInv == Init => IInv
<1> SUFFICES ASSUME Init PROVE IInv
  OBVIOUS
<1>1. TypeOK
  BY IssuerAssumptions DEF Init, TypeOK, RequestState, NoRequest
<1>2. \A r \in Request : req[r].pc = "idle"
  BY DEF Init, NoRequest
<1>3. LinksInv
  BY <1>2 DEF Init, LinksInv, Makes, Bears, Names, Makings, Bearings, Namings, At
<1> QED
  BY <1>1, <1>3 DEF IInv

\* Unlocking a mutex keeps the types, and can only kill the process.
LEMMA UnlockTypes ==
  ASSUME IInv, NEW s, Unlock(s)
  PROVE  mu' \in Phases /\ locked' \subseteq 0 .. MaxRuns
BY DEF Unlock, IInv, TypeOK, Phases

\* A step that leaves codes, tokens and requests alone keeps the invariant.
LEMMA DataUnchanged ==
  ASSUME IInv, UNCHANGED <<codeVars, tokenVars, locked, req>>,
         now' \in 0 .. MaxTime, mu' \in Phases, runs' \in 0 .. MaxRuns,
         base' \in 0 .. MaxRuns, key' \in 0 .. MaxRuns, stores' \in 0 .. MaxRuns,
         accepting' \in 0 .. MaxRuns
  PROVE  IInv'
<1>1. TypeOK'
  BY DEF IInv, TypeOK, codeVars, tokenVars, Phases
<1>2. LinksInv'
  BY DEF IInv, LinksInv, Makes, Bears, Names, At, codeVars, tokenVars
<1> QED
  BY <1>1, <1>2 DEF IInv

\* Start, Stop and the clock.
LEMMA LifecycleKeeps ==
  ASSUME IInv, UNCHANGED vars \/ Tick \/ BeginStart \/ Bind \/ BindFails \/ BeginStop \/ Stopping
  PROVE  IInv'
<1>1. UNCHANGED <<codeVars, tokenVars, locked, req>>
  BY DEF Tick, BeginStart, Bind, BindFails, BeginStop, Stopping, ClearSecrets, CloseListener,
         StopReturns, vars
<1>2. /\ now' \in 0 .. MaxTime /\ mu' \in Phases /\ runs' \in 0 .. MaxRuns
      /\ base' \in 0 .. MaxRuns /\ key' \in 0 .. MaxRuns /\ stores' \in 0 .. MaxRuns
      /\ accepting' \in 0 .. MaxRuns
  BY IssuerAssumptions
     DEF Tick, BeginStart, FreshRun, Bind, BindFails, BeginStop, Stopping, ClearSecrets,
         CloseListener, StopReturns, vars, lifecycle, server, IInv, TypeOK, Phases
<1> QED
  BY <1>1, <1>2, DataUnchanged

\* What one request does to itself keeps the invariant, if it takes up no
\* grant and makes no token that it did not have before.
LEMMA OneRequest ==
  ASSUME IInv, NEW r \in Request, NEW q \in RequestState,
         UNCHANGED <<now, server, codeVars, minted, token, held>>,
         mu' \in Phases, locked' \subseteq 0 .. MaxRuns, given' \subseteq 1 .. minted,
         req' = [req EXCEPT ![r] = q],
         q.pc \in Bearings => Bears(r) /\ q.grant = req[r].grant,
         q.pc \in Makings => Makes(r) /\ q.token = req[r].token,
         q.pc = "redeem" => q.grant \in 1 .. issued,
         q.pc \in Namings => q.token \in 1 .. minted
  PROVE  IInv'
<1>0. req'[r] = q /\ \A s \in Request \ {r} : req'[s] = req[s]
  BY DEF IInv, TypeOK
<1>1. TypeOK'
  BY DEF IInv, TypeOK, server, codeVars, Phases
<1>2. LinksInv'
  <2>1. \A s \in Request : Bears(s)' => Bears(s) /\ req'[s].grant = req[s].grant
    BY <1>0 DEF Bears
  <2>2. \A s \in Request : Makes(s)' =>
          Makes(s) /\ req'[s].token = req[s].token /\ req'[s].grant = req[s].grant
    BY <1>0 DEF Makes, Bearings
  <2>3. \A s \in Request : At(s, "redeem")' => req'[s].grant \in 1 .. issued
    BY <1>0 DEF At, IInv, LinksInv
  <2>4. \A s \in Request : Names(s)' => req'[s].token \in 1 .. minted
    BY <1>0 DEF Names, IInv, LinksInv
  <2> QED
    BY <2>1, <2>2, <2>3, <2>4 DEF IInv, LinksInv, codeVars
<1> QED
  BY <1>1, <1>2 DEF IInv

\* A handler that returns.
LEMMA Finishing ==
  ASSUME IInv, NEW r \in Request, Finish(r),
         UNCHANGED <<now, server, codeVars, minted, token, held>>,
         mu' \in Phases, locked' \subseteq 0 .. MaxRuns, given' \subseteq 1 .. minted
  PROVE  IInv'
<1>1. NoRequest \in RequestState
  BY IssuerAssumptions DEF NoRequest, RequestState
<1>2. NoRequest.pc = "idle"
  BY DEF NoRequest
<1>3. /\ NoRequest.pc \notin Bearings /\ NoRequest.pc \notin Makings
      /\ NoRequest.pc \notin Namings /\ NoRequest.pc # "redeem"
  BY <1>2 DEF Bearings, Makings, Namings
<1> QED
  BY <1>1, <1>3, OneRequest DEF Finish

\* Where a handler gets to once it has begun.
Further == {"sign", "address", "store", "enter", "put", "unlock", "claim", "wait", "defer",
            "lookup", "take", "drop", "access"}

\* A handler that goes on with the same grant and the same token.
LEMMA Moving ==
  ASSUME IInv, NEW r \in Request, NEW q \in RequestState, q.pc \in Further,
         q.grant = req[r].grant, q.token = req[r].token,
         req' = [req EXCEPT ![r] = q],
         UNCHANGED <<now, server, codeVars, minted, token, held>>,
         mu' \in Phases, locked' \subseteq 0 .. MaxRuns, given' \subseteq 1 .. minted,
         q.pc \in Bearings => Bears(r),
         q.pc \in Makings => Makes(r),
         q.pc \in Namings => req[r].token \in 1 .. minted
  PROVE  IInv'
<1>1. q.pc # "redeem"
  BY DEF Further
<1> QED
  BY <1>1, OneRequest

LEMMA GoingOn ==
  ASSUME IInv, NEW r \in Request, NEW pc \in Further, GoTo(r, pc),
         UNCHANGED <<now, server, codeVars, minted, token, held>>,
         mu' \in Phases, locked' \subseteq 0 .. MaxRuns, given' \subseteq 1 .. minted,
         pc \in Bearings => Bears(r),
         pc \in Makings => Makes(r),
         pc \in Namings => req[r].token \in 1 .. minted
  PROVE  IInv'
<1> DEFINE q == [req[r] EXCEPT !.pc = pc]
<1>1. q \in RequestState /\ q.pc = pc /\ q.grant = req[r].grant /\ q.token = req[r].token
  <2>1. req[r] \in RequestState
    BY DEF IInv, TypeOK
  <2> QED
    BY SMTT(30), <2>1 DEF RequestState, Further
<1>2. req' = [req EXCEPT ![r] = q]
  BY DEF GoTo
<1> HIDE DEF q
<1> QED
  BY <1>1, <1>2, Moving

\* A handler that reads which store there is.
LEMMA Reading ==
  ASSUME IInv, NEW r \in Request, NEW pc \in {"enter", "wait", "lookup"},
         req' = [req EXCEPT ![r] = [req[r] EXCEPT !.pc = pc, !.store = stores]],
         UNCHANGED <<now, lifecycle, codeVars, tokenVars, locked>>,
         pc = "enter" => Makes(r),
         pc # "enter" => req[r].token \in 1 .. minted
  PROVE  IInv'
<1> DEFINE q == [req[r] EXCEPT !.pc = pc, !.store = stores]
<1>1. q \in RequestState /\ q.pc = pc /\ q.grant = req[r].grant /\ q.token = req[r].token
  <2>1. req[r] \in RequestState /\ stores \in 0 .. MaxRuns
    BY DEF IInv, TypeOK
  <2> QED
    BY ZenonT(30), <2>1 DEF RequestState
<1>2. req' = [req EXCEPT ![r] = q]
  OBVIOUS
<1>3. /\ UNCHANGED <<now, server, codeVars, minted, token, held>>
      /\ mu' \in Phases /\ locked' \subseteq 0 .. MaxRuns /\ given' \subseteq 1 .. minted
  BY DEF lifecycle, tokenVars, IInv, TypeOK, Phases
<1> HIDE DEF q
<1>4. /\ q.pc \in Further
      /\ q.pc \in Bearings => Bears(r)
      /\ q.pc \in Makings => Makes(r)
      /\ q.pc \in Namings => req[r].token \in 1 .. minted
  BY <1>1 DEF Further, Bearings, Makings, Namings, Bears, Makes
<1> QED
  BY <1>1, <1>2, <1>3, <1>4, Moving

\* A new request bears nothing yet.
LEMMA AcceptInv ==
  ASSUME IInv, NEW r \in Request, NEW pc \in {"authorize", "redeem", "parse"},
         NEW flow \in {"none", "code", "refresh"}, NEW c \in 0 .. issued,
         NEW t \in 0 .. minted, NEW matches \in BOOLEAN,
         Accept(r, pc, flow, c, t, matches),
         pc = "redeem" => c # 0,
         pc = "parse" => t # 0
  PROVE  IInv'
<1> DEFINE q == [pc |-> pc, run |-> accepting, flow |-> flow, grant |-> c, token |-> t,
                 matches |-> matches, store |-> 0]
<1>1. q \in RequestState /\ q.pc = pc /\ q.grant = c /\ q.token = t
  BY IssuerAssumptions DEF IInv, TypeOK, RequestState
<1>2. /\ req' = [req EXCEPT ![r] = q]
      /\ UNCHANGED <<now, server, codeVars, minted, token, held, given, mu, locked>>
  BY DEF Accept, tokenVars, lifecycle
<1> HIDE DEF q
<1>3. given' \subseteq 1 .. minted /\ mu' \in Phases /\ locked' \subseteq 0 .. MaxRuns
  BY <1>2 DEF IInv, TypeOK, Phases
<1>4. (pc = "redeem" => c \in 1 .. issued) /\ (pc = "parse" => t \in 1 .. minted)
  BY IssuerAssumptions DEF IInv, TypeOK
<1>5. /\ q.pc \notin Bearings /\ q.pc \notin Makings
      /\ q.pc = "redeem" => q.grant \in 1 .. issued
      /\ q.pc \in Namings => q.token \in 1 .. minted
  BY <1>1, <1>4 DEF Bearings, Makings, Namings
<1> QED
  BY <1>1, <1>2, <1>3, <1>5, OneRequest

LEMMA AcceptingInv ==
  ASSUME IInv, NEW r \in Request, AcceptAuthorize(r) \/ AcceptCode(r) \/ AcceptRefresh(r)
  PROVE  IInv'
<1> USE IssuerAssumptions DEF IInv, TypeOK
<1>1. CASE AcceptAuthorize(r)
  <2>1. Accept(r, "authorize", "none", 0, 0, FALSE)
    BY <1>1 DEF AcceptAuthorize
  <2>2. 0 \in 0 .. issued /\ 0 \in 0 .. minted
    OBVIOUS
  <2> HIDE DEF IInv, TypeOK
  <2> QED
    BY <2>1, <2>2, AcceptInv
<1>2. CASE AcceptCode(r)
  <2>1. PICK c \in 1 .. issued, matches \in BOOLEAN :
          Accept(r, "redeem", "code", c, 0, matches)
    BY <1>2 DEF AcceptCode
  <2>2. c \in 0 .. issued /\ 0 \in 0 .. minted
    OBVIOUS
  <2> HIDE DEF IInv, TypeOK
  <2> QED
    BY <2>1, <2>2, AcceptInv
<1>3. CASE AcceptRefresh(r)
  <2>1. PICK t \in given : Accept(r, "parse", "refresh", 0, t, FALSE)
    BY <1>3 DEF AcceptRefresh
  <2>2. t \in 0 .. minted /\ t # 0 /\ 0 \in 0 .. issued
    OBVIOUS
  <2> HIDE DEF IInv, TypeOK
  <2> QED
    BY <2>1, <2>2, AcceptInv
<1> QED
  BY <1>1, <1>2, <1>3

\* GoTo moves one request.
LEMMA Gone ==
  ASSUME IInv, NEW r \in Request, NEW pc \in Further, GoTo(r, pc)
  PROVE  /\ req'[r].pc = pc /\ req'[r].grant = req[r].grant /\ req'[r].token = req[r].token
         /\ \A s \in Request \ {r} : req'[s] = req[s]
         /\ req' \in [Request -> RequestState]
<1> DEFINE q == [req[r] EXCEPT !.pc = pc]
<1>1. q \in RequestState /\ q.pc = pc /\ q.grant = req[r].grant /\ q.token = req[r].token
  <2>1. req[r] \in RequestState
    BY DEF IInv, TypeOK
  <2> QED
    BY SMTT(30), <2>1 DEF RequestState, Further
<1>2. req' = [req EXCEPT ![r] = q] /\ req \in [Request -> RequestState]
  BY DEF GoTo, IInv, TypeOK
<1> HIDE DEF q
<1> QED
  BY <1>1, <1>2

\* A code is new to everyone.
LEMMA IssueInv ==
  ASSUME IInv, NEW r \in Request, Issue(r)
  PROVE  IInv'
<1>1. /\ issued \in 0 .. MaxCodes /\ issued' = issued + 1 /\ issued' \in Code
      /\ code' = [code EXCEPT ![issued'] = [home |-> stores, expires |-> now + CodeTTL]]
      /\ codes' = codes \cup {issued'}
      /\ UNCHANGED <<now, lifecycle, minted, token, held, given, locked>>
  BY IssuerAssumptions DEF Issue, NewCode, IInv, TypeOK, Code, tokenVars
<1>2. /\ req'[r].pc = "idle"
      /\ \A s \in Request \ {r} : req'[s] = req[s]
      /\ req' \in [Request -> RequestState]
  BY IssuerAssumptions DEF Issue, Finish, NoRequest, RequestState, IInv, TypeOK
<1>3. TypeOK'
  <2>1. code' \in [Code -> [home : 0 .. MaxRuns, expires : Nat]]
    <3>1. [home |-> stores, expires |-> now + CodeTTL] \in [home : 0 .. MaxRuns, expires : Nat]
      BY IssuerAssumptions DEF IInv, TypeOK
    <3> QED
      BY <1>1, <3>1 DEF IInv, TypeOK
  <2>2. codes' \subseteq 1 .. issued'
    BY <1>1 DEF IInv, TypeOK
  <2>3. issued' \in 0 .. MaxCodes
    BY <1>1, IssuerAssumptions DEF Code
  <2> QED
    BY <1>1, <1>2, <2>1, <2>2, <2>3 DEF IInv, TypeOK, lifecycle, server
<1>4. LinksInv'
  <2>1. \A s \in Request : (Bears(s)' => Bears(s)) /\ (Makes(s)' => Makes(s))
                           /\ (Names(s)' => Names(s)) /\ (At(s, "redeem")' => At(s, "redeem"))
    BY <1>2 DEF Bears, Makes, Names, Bearings, Makings, Namings, At
  <2>2. \A s \in Request : Bears(s)' \/ Makes(s)' \/ Names(s)' \/ At(s, "redeem")' => s # r
    BY <1>2 DEF Bears, Makes, Names, Bearings, Makings, Namings, At
  <2> QED
    BY <1>1, <1>2, <2>1, <2>2 DEF IInv, TypeOK, LinksInv
<1> QED
  BY <1>3, <1>4 DEF IInv

\* The code passes to the request that consumed it, or is lost.
LEMMA ConsumeInv ==
  ASSUME IInv, NEW r \in Request, ConsumeCode(r)
  PROVE  IInv'
<1> DEFINE c == req[r].grant
<1>1. /\ At(r, "redeem")
      /\ UNCHANGED <<now, lifecycle, issued, code, minted, token, held, given, locked>>
      /\ codes' \subseteq codes
  BY DEF ConsumeCode, tokenVars, CodeTaken, CodeMismatched
<1>2. CASE Finish(r)
  <2>1. /\ req'[r].pc = "idle"
        /\ \A s \in Request \ {r} : req'[s] = req[s]
        /\ req' \in [Request -> RequestState]
    BY <1>2, IssuerAssumptions DEF Finish, NoRequest, RequestState, IInv, TypeOK
  <2>2. TypeOK'
    BY <1>1, <2>1 DEF IInv, TypeOK, lifecycle, server
  <2>3. LinksInv'
    BY <1>1, <2>1 DEF IInv, LinksInv, Makes, Bears, Names, Makings, Bearings, Namings, At
  <2> QED
    BY <2>2, <2>3 DEF IInv
<1>3. CASE GoTo(r, "sign")
  <2>1. /\ req'[r].pc = "sign" /\ req'[r].grant = c
        /\ \A s \in Request \ {r} : req'[s] = req[s]
        /\ req' \in [Request -> RequestState]
    <3> "sign" \in Further
      BY DEF Further
    <3> QED
      BY <1>3, Gone
  <2>2. TypeOK'
    BY <1>1, <2>1 DEF IInv, TypeOK, lifecycle, server
  <2>3. LinksInv'
    BY <1>1, <2>1 DEF IInv, LinksInv, Makes, Bears, Names, Makings, Bearings, Namings, At
  <2> QED
    BY <2>2, <2>3 DEF IInv
<1> QED
  BY <1>2, <1>3 DEF ConsumeCode, CheckVerifier

\* The token being made is new to everyone.
LEMMA ReadAddressInv ==
  ASSUME IInv, NEW r \in Request, ReadAddress(r)
  PROVE  IInv'
<1> DEFINE t == minted + 1
           q == [req[r] EXCEPT !.pc = "mint", !.token = t]
           n == [grant |-> req[r].grant, aud |-> base, key |-> 0,
                 expires |-> now + RefreshTTL]
<1>1. /\ At(r, "address")
      /\ minted \in 0 .. MaxTokens /\ t \in Token /\ minted' = t
      /\ token' = [token EXCEPT ![t] = n]
      /\ UNCHANGED <<now, lifecycle, codeVars, held, given, locked>>
  BY SMTT(30), IssuerAssumptions DEF ReadAddress, IInv, TypeOK, Token
<1>2. /\ q \in RequestState
      /\ q.pc = "mint" /\ q.token = t /\ q.grant = req[r].grant
  <2>1. t \in 0 .. MaxTokens
    BY <1>1, IssuerAssumptions DEF Token
  <2>2. req[r] \in RequestState
    BY DEF IInv, TypeOK
  <2> HIDE DEF t
  <2> QED
    BY ZenonT(30), <2>1, <2>2 DEF RequestState
<1>3. req' = [req EXCEPT ![r] = q]
  BY <1>1 DEF ReadAddress, IInv, TypeOK, RequestState
<1>4. Bears(r) /\ req[r].grant \in 1 .. issued
  BY <1>1 DEF IInv, LinksInv, Bears, Bearings, At
<1>5. n \in [grant : 0 .. MaxCodes, aud : 0 .. MaxRuns, key : 0 .. MaxRuns, expires : Nat]
  BY <1>4, IssuerAssumptions DEF IInv, TypeOK
<1>6. n.grant = req[r].grant
  OBVIOUS
<1> HIDE DEF q, n
<1>7. /\ req'[r] = q
      /\ \A s \in Request \ {r} : req'[s] = req[s]
      /\ token'[t] = n
      /\ \A u \in Token \ {t} : token'[u] = token[u]
  BY <1>1, <1>3 DEF IInv, TypeOK
<1>8. held[t] = 0
  BY <1>1 DEF IInv, LinksInv
<1>9. TypeOK'
  <2>1. token' \in [Token -> [grant : 0 .. MaxCodes, aud : 0 .. MaxRuns, key : 0 .. MaxRuns,
                              expires : Nat]]
    BY <1>1, <1>5 DEF IInv, TypeOK
  <2>2. req' \in [Request -> RequestState]
    BY <1>2, <1>3 DEF IInv, TypeOK
  <2>3. minted' \in 0 .. MaxTokens /\ given' \subseteq 1 .. minted'
    BY <1>1, IssuerAssumptions DEF IInv, TypeOK, Token
  <2> QED
    BY <1>1, <2>1, <2>2, <2>3 DEF IInv, TypeOK, lifecycle, server, codeVars
<1>10. LinksInv'
  <2>1. \A u \in 1 .. minted : u \in Token \ {t} /\ u \in 1 .. minted' /\ u # t
    BY <1>1, IssuerAssumptions DEF Token
  <2>2. \A u \in 1 .. minted' : u \in 1 .. minted \/ u = t
    BY <1>1
  <2>3. t \in 1 .. minted'
    BY <1>1
  <2> HIDE DEF t
  <2>4. \A s \in Request : Bears(s)' => Bears(s) /\ req'[s].grant = req[s].grant
    BY <1>2, <1>4, <1>7 DEF Bears
  <2>5. \A s \in Request : Makes(s)' /\ s # r => Makes(s) /\ req'[s] = req[s]
    BY <1>7 DEF Makes
  <2>6. \A s \in Request : Names(s)' => Names(s) /\ req'[s] = req[s]
    BY <1>2, <1>7 DEF Names, Namings
  <2>7. \A s \in Request : At(s, "redeem")' => At(s, "redeem") /\ req'[s] = req[s]
    BY <1>2, <1>7 DEF At
  <2> QED
    BY <1>1, <1>2, <1>4, <1>6, <1>7, <1>8, <2>1, <2>2, <2>3, <2>4, <2>5, <2>6, <2>7
       DEF IInv, LinksInv, codeVars
<1> QED
  BY <1>9, <1>10 DEF IInv

\* Signing changes nothing but the key of the token in the making.
LEMMA MintInv ==
  ASSUME IInv, NEW r \in Request, Mint(r)
  PROVE  IInv'
<1> DEFINE t == req[r].token
<1>1. /\ At(r, "mint") /\ key # 0
      /\ token' = [token EXCEPT ![t].key = key]
      /\ UNCHANGED <<now, lifecycle, codeVars, minted, held, given, locked>>
  BY DEF Mint
<1>2. t \in 1 .. minted /\ t \in Token /\ Makes(r) /\ Bears(r)
  <2>1. Makes(r) /\ Bears(r)
    BY <1>1 DEF Makes, Bears, Makings, Bearings, At
  <2> QED
    BY SMTT(30), <2>1, IssuerAssumptions DEF IInv, TypeOK, LinksInv, Token
<1>3. /\ req'[r].pc = "store" /\ req'[r].grant = req[r].grant /\ req'[r].token = t
      /\ \A s \in Request \ {r} : req'[s] = req[s]
      /\ req' \in [Request -> RequestState]
  <2> "store" \in Further
    BY DEF Further
  <2> QED
    BY Gone DEF Mint
<1>4. /\ \A u \in Token : token'[u].grant = token[u].grant
      /\ token' \in [Token -> [grant : 0 .. MaxCodes, aud : 0 .. MaxRuns, key : 0 .. MaxRuns,
                              expires : Nat]]
  BY <1>1, <1>2 DEF IInv, TypeOK
<1>5. TypeOK'
  BY <1>1, <1>3, <1>4 DEF IInv, TypeOK, lifecycle, server, codeVars
<1>6. LinksInv'
  <2>1. \A u \in 1 .. minted : u \in Token
    BY IssuerAssumptions DEF IInv, TypeOK, Token
  <2>2. \A s \in Request : /\ Bears(s)' => Bears(s)
                           /\ Makes(s)' => Makes(s)
                           /\ Names(s)' => Names(s)
                           /\ At(s, "redeem")' => At(s, "redeem")
                           /\ req'[s].grant = req[s].grant /\ req'[s].token = req[s].token
    BY <1>2, <1>3 DEF Bears, Makes, Names, Namings, At
  <2> QED
    BY <1>1, <1>4, <2>1, <2>2 DEF IInv, LinksInv, codeVars
<1> QED
  BY <1>5, <1>6 DEF IInv

\* The grant passes from the request to the token.
LEMMA PutInv ==
  ASSUME IInv, NEW r \in Request, PutRecord(r)
  PROVE  IInv'
<1> DEFINE t == req[r].token
<1>1. /\ At(r, "put") /\ stores # 0
      /\ held' = [held EXCEPT ![t] = stores]
      /\ UNCHANGED <<now, lifecycle, codeVars, minted, token, given, locked>>
  BY DEF PutRecord
<1>2. t \in 1 .. minted /\ t \in Token /\ Makes(r)
  <2>1. Makes(r)
    BY <1>1 DEF Makes, Makings, At
  <2> QED
    BY SMTT(30), <2>1, IssuerAssumptions DEF IInv, TypeOK, LinksInv, Token
<1>3. /\ req'[r].pc = "unlock" /\ req'[r].token = t
      /\ \A s \in Request \ {r} : req'[s] = req[s]
      /\ req' \in [Request -> RequestState]
  <2> "unlock" \in Further
    BY DEF Further
  <2> QED
    BY Gone DEF PutRecord
<1>4. /\ held'[t] = stores
      /\ \A u \in Token \ {t} : held'[u] = held[u]
      /\ held' \in [Token -> 0 .. MaxRuns]
  BY <1>1, <1>2 DEF IInv, TypeOK
<1>5. TypeOK'
  BY <1>1, <1>3, <1>4 DEF IInv, TypeOK, lifecycle, server, codeVars
<1>6. LinksInv'
  <2>1. ASSUME NEW s \in Request, Makes(s)'
        PROVE  s # r /\ Makes(s) /\ req'[s] = req[s] /\ req[s].token # t
    <3>1. s # r
      BY <1>3, <2>1 DEF Makes, Makings
    <3>2. Makes(s) /\ req'[s] = req[s]
      BY <1>3, <2>1, <3>1 DEF Makes
    <3> QED
      BY <1>2, <3>1, <3>2 DEF IInv, LinksInv
  <2>2. \A u \in 1 .. minted : u \in Token
    BY IssuerAssumptions DEF IInv, TypeOK, Token
  <2>3. \A s \in Request : Bears(s)' \/ At(s, "redeem")' =>
          (Bears(s) \/ At(s, "redeem")) /\ req'[s] = req[s]
    BY <1>3 DEF Bears, Bearings, Makings, At
  <2>4. \A s \in Request : Names(s)' => req'[s].token \in 1 .. minted
    BY <1>2, <1>3 DEF Names, IInv, LinksInv
  <2> QED
    BY <1>1, <1>2, <1>4, <2>1, <2>2, <2>3, <2>4 DEF IInv, LinksInv, codeVars
<1> QED
  BY <1>5, <1>6 DEF IInv

\* The grant passes from the token to the request, or is lost.
LEMMA ClaimInv ==
  ASSUME IInv, NEW r \in Request, ClaimToken(r)
  PROVE  IInv'
<1> DEFINE t == req[r].token
<1>1. /\ At(r, "take") \/ At(r, "drop")
      /\ Unlock(req[r].store)
      /\ held' = [held EXCEPT ![t] = IF @ = stores THEN 0 ELSE @]
      /\ UNCHANGED <<now, server, codeVars, minted, token, given>>
  BY DEF ClaimToken
<1>2. t \in 1 .. minted /\ t \in Token /\ token[t].grant \in 1 .. issued
      /\ mu' \in Phases /\ locked' \subseteq 0 .. MaxRuns
  <2>1. Names(r)
    BY <1>1 DEF Names, Namings, At
  <2>2. t \in 1 .. minted /\ t \in Token
    BY SMTT(30), <2>1, IssuerAssumptions DEF IInv, TypeOK, LinksInv, Token
  <2> QED
    BY <1>1, <2>2, UnlockTypes DEF IInv, LinksInv
<1>3. /\ \A u \in Token : held'[u] = held[u] \/ held'[u] = 0
      /\ held' \in [Token -> 0 .. MaxRuns]
  BY <1>1, <1>2, IssuerAssumptions DEF IInv, TypeOK
<1>4. /\ req'[r].pc = "idle" \/ (req'[r].pc = "address" /\ req'[r].grant = token[t].grant)
      /\ \A s \in Request \ {r} : req'[s] = req[s]
      /\ req' \in [Request -> RequestState]
  <2>1. CASE Finish(r)
    BY <2>1, IssuerAssumptions DEF Finish, NoRequest, RequestState, IInv, TypeOK
  <2>2. CASE req' = [req EXCEPT ![r].pc = "address", ![r].grant = token[t].grant]
    <3> DEFINE q == [req[r] EXCEPT !.pc = "address", !.grant = token[t].grant]
    <3>1. q \in RequestState /\ q.pc = "address" /\ q.grant = token[t].grant
      <4>1. req[r] \in RequestState /\ token[t].grant \in 0 .. MaxCodes
        BY <1>2, IssuerAssumptions DEF IInv, TypeOK
      <4> QED
        BY ZenonT(30), <4>1 DEF RequestState
    <3>2. req' = [req EXCEPT ![r] = q]
      BY <2>2 DEF IInv, TypeOK, RequestState
    <3> HIDE DEF q
    <3> QED
      BY <3>1, <3>2 DEF IInv, TypeOK
  <2> QED
    BY <2>1, <2>2 DEF ClaimToken
<1>5. TypeOK'
  BY <1>1, <1>2, <1>3, <1>4 DEF IInv, TypeOK, server, codeVars, Phases
<1>6. LinksInv'
  <2>1. \A u \in 1 .. minted : u \in Token
    BY IssuerAssumptions DEF IInv, TypeOK, Token
  <2>2. \A s \in Request : Makes(s)' \/ Names(s)' \/ At(s, "redeem")' =>
          s # r /\ req'[s] = req[s]
    BY <1>4 DEF Makes, Names, Makings, Namings, At
  <2>3. \A s \in Request : Bears(s)' => req'[s].grant \in 1 .. issued
    BY <1>2, <1>4 DEF Bears, Bearings, Makings, IInv, LinksInv
  <2>4. \A s \in Request : Makes(s)' => req[s].token \in Token
    BY <2>1, <2>2 DEF Makes, IInv, LinksInv
  <2> QED
    BY <1>1, <1>3, <2>1, <2>2, <2>3, <2>4 DEF IInv, LinksInv, Makes, Names, At, codeVars
<1> QED
  BY <1>5, <1>6 DEF IInv

\* The steps that only move a request.
LEMMA MoveInv ==
  ASSUME IInv, NEW r \in Request,
         \/ Panic(r) \/ HandlerFails(r) \/ SignTokens(r) \/ ParseToken(r) \/ SignAccess(r)
         \/ ReadStore(r) \/ LockStore(r) \/ UnlockStore(r) \/ DeferUnlock(r) \/ LookUp(r)
  PROVE  IInv'
<1>0. /\ given \subseteq 1 .. minted /\ mu \in Phases /\ locked \subseteq 0 .. MaxRuns
      /\ At(r, "sign") => Bears(r)
      /\ At(r, "store") \/ At(r, "enter") => Makes(r) /\ Bears(r)
      /\ Names(r) => req[r].token \in 1 .. minted
      /\ Makes(r) => Bears(r)
  BY DEF IInv, TypeOK, LinksInv, At, Bears, Makes, Bearings, Makings, Phases
<1>n. \A pc \in Namings : At(r, pc) => req[r].token \in 1 .. minted
  BY <1>0 DEF Names, At
<1>a. UNCHANGED <<now, lifecycle, codeVars, tokenVars>> =>
        UNCHANGED <<now, server, codeVars, minted, token, held, given, mu>>
  BY DEF lifecycle, tokenVars
<1>1. CASE Panic(r)
  <2>1. mu' \in Phases /\ locked' \subseteq 0 .. MaxRuns
    BY <1>1, <1>0, UnlockTypes DEF Panic
  <2> QED
    BY <1>1, <1>0, <2>1, Finishing DEF Panic, tokenVars
<1>2. CASE HandlerFails(r)
  BY <1>2, <1>0, <1>a, Finishing DEF HandlerFails
<1>3. CASE SignTokens(r)
  <2>1. "address" \in Further /\ "address" \notin Makings /\ "address" \notin Namings
    BY DEF Further, Makings, Namings
  <2> QED
    BY <1>3, <1>0, <1>a, <2>1, Finishing, GoingOn DEF SignTokens
<1>4. CASE ParseToken(r)
  <2>1. /\ "claim" \in Further /\ "claim" \notin Makings /\ "claim" \notin Bearings
        /\ "parse" \in Namings
    BY DEF Further, Makings, Bearings, Namings
  <2> QED
    BY <1>4, <1>0, <1>a, <1>n, <2>1, Finishing, GoingOn DEF ParseToken
<1>5. CASE SignAccess(r)
  <2>1. "access" \in Namings
    BY DEF Namings
  <2> QED
    BY <1>5, <1>0, <1>n, <2>1, Finishing DEF SignAccess, lifecycle
<1>6. CASE ReadStore(r)
  <2> DEFINE pc == IF req[r].pc = "store" THEN "enter" ELSE "wait"
  <2>1. /\ req' = [req EXCEPT ![r] = [req[r] EXCEPT !.pc = pc, !.store = stores]]
        /\ UNCHANGED <<now, lifecycle, codeVars, tokenVars, locked>>
    BY <1>6 DEF ReadStore, IInv, TypeOK, RequestState
  <2>2. /\ pc \in {"enter", "wait"}
        /\ pc = "enter" => Makes(r)
        /\ pc # "enter" => req[r].token \in 1 .. minted
    BY <1>6, <1>0, <1>n DEF ReadStore, At, Namings
  <2> HIDE DEF pc
  <2> QED
    BY <2>1, <2>2, Reading
<1>7. CASE LockStore(r)
  <2> DEFINE pc == IF At(r, "enter") THEN "put" ELSE "defer"
  <2>1. /\ GoTo(r, pc)
        /\ UNCHANGED <<now, lifecycle, codeVars, tokenVars>>
        /\ locked' = locked \cup {req[r].store}
        /\ At(r, "enter") \/ At(r, "wait")
    BY <1>7 DEF LockStore
  <2>2. locked' \subseteq 0 .. MaxRuns
    <3>1. req[r].store \in 0 .. MaxRuns
      BY DEF IInv, TypeOK, RequestState
    <3> QED
      BY <1>0, <2>1, <3>1
  <2>3. /\ pc \in Further
        /\ pc \in Bearings => Bears(r)
        /\ pc \in Makings => Makes(r)
        /\ pc \in Namings => req[r].token \in 1 .. minted
    BY <2>1, <1>0, <1>n DEF At, Further, Bearings, Makings, Namings
  <2> HIDE DEF pc
  <2> QED
    BY <1>0, <1>a, <2>1, <2>2, <2>3, GoingOn
<1>8. CASE UnlockStore(r)
  <2>1. mu' \in Phases /\ locked' \subseteq 0 .. MaxRuns
    BY <1>8, UnlockTypes DEF UnlockStore
  <2>2. /\ "access" \in Further /\ "access" \notin Makings /\ "access" \notin Bearings
        /\ req[r].token \in 1 .. minted
    BY <1>8, <1>n DEF UnlockStore, Further, Makings, Bearings, Namings
  <2>3. /\ UNCHANGED <<now, server, codeVars, minted, token, held>>
        /\ given' \subseteq 1 .. minted
        /\ Finish(r) \/ GoTo(r, "access")
    BY <1>8, <1>0, <2>2 DEF UnlockStore
  <2> QED
    BY <2>1, <2>2, <2>3, Finishing, GoingOn
<1>9. CASE DeferUnlock(r)
  <2>1. /\ req' = [req EXCEPT ![r] = [req[r] EXCEPT !.pc = "lookup", !.store = stores]]
        /\ UNCHANGED <<now, lifecycle, codeVars, tokenVars, locked>>
    BY <1>9 DEF DeferUnlock, IInv, TypeOK, RequestState
  <2>2. req[r].token \in 1 .. minted
    BY <1>9, <1>n DEF DeferUnlock, Namings
  <2> QED
    BY <2>1, <2>2, Reading
<1>10. CASE LookUp(r)
  <2>1. mu' \in Phases /\ locked' \subseteq 0 .. MaxRuns
    BY <1>10, <1>0, UnlockTypes DEF LookUp
  <2>2. req[r].token \in 1 .. minted
    BY <1>10, <1>n DEF LookUp, Namings
  <2>3. /\ UNCHANGED <<now, server, codeVars, minted, token, held, given>>
        /\ Finish(r) \/ GoTo(r, "drop") \/ GoTo(r, "take")
    BY <1>10 DEF LookUp, tokenVars
  <2>4. \A pc \in {"drop", "take"} : pc \in Further /\ pc \notin Makings /\ pc \notin Bearings
    BY DEF Further, Makings, Bearings
  <2> QED
    BY <1>0, <2>1, <2>2, <2>3, <2>4, Finishing, GoingOn
<1> QED
  BY <1>1, <1>2, <1>3, <1>4, <1>5, <1>6, <1>7, <1>8, <1>9, <1>10

LEMMA HandlerInv ==
  ASSUME IInv, NEW r \in Request, HandlerStep(r)
  PROVE  IInv'
BY IssueInv, ConsumeInv, ReadAddressInv, MintInv, PutInv, ClaimInv, MoveInv DEF HandlerStep

\* The invariant is inductive.
LEMMA StepInv ==
  ASSUME IInv, [Next]_vars
  PROVE  IInv'
BY LifecycleKeeps, AcceptingInv, HandlerInv DEF Next, Handler

LEMMA Invariance == Spec => []IInv
BY InitInv, StepInv, PTL DEF Spec

\* Every variable of the issuer keeps its type.
THEOREM TypeCorrect == Spec => []TypeOK
BY Invariance, PTL DEF IInv

\* A request that does not match a code leaves it to the one that does.
THEOREM CodesSurvive == Spec => CodeSurvivesMismatch
<1> DEFINE Survives == \A c \in codes : c \notin codes' =>
             \/ now > code[c].expires
             \/ \E r \in Request : req[r].matches /\ req[r].grant = c /\ req'[r] # req[r]
<1>1. ASSUME IInv, [Next]_vars PROVE Survives
  <2> SUFFICES ASSUME NEW c \in codes, c \notin codes', ~(now > code[c].expires)
               PROVE  \E r \in Request : req[r].matches /\ req[r].grant = c /\ req'[r] # req[r]
    OBVIOUS
  <2>1. PICK r \in Request : ConsumeCode(r)
    BY <1>1
       DEF Next, Handler, HandlerStep, Tick, BeginStart, Bind, BindFails, BeginStop, Stopping,
           ClearSecrets, CloseListener, StopReturns, AcceptAuthorize, AcceptCode,
           AcceptRefresh, Accept, Panic, HandlerFails, Issue, SignTokens, ReadAddress, Mint,
           ReadStore, LockStore, PutRecord, UnlockStore, ParseToken, DeferUnlock, LookUp,
           ClaimToken, SignAccess, codeVars, vars
  <2>2. /\ c = req[r].grant
        /\ req[r].matches
        /\ CheckVerifier(r)
    <3>1. codes' \in {codes, codes \ {req[r].grant}}
      BY <2>1 DEF ConsumeCode, CodeTaken, CodeMismatched
    <3>2. c = req[r].grant
      BY <3>1
    <3> QED
      BY <2>1, <3>2 DEF ConsumeCode, CodeTaken, CodeMismatched
  <2>3. At(r, "redeem")
    BY <2>1 DEF ConsumeCode
  <2>4. req'[r].pc # "redeem"
    <3>1. CASE GoTo(r, "sign")
      BY <1>1, <3>1 DEF GoTo, IInv, TypeOK, RequestState
    <3>2. CASE Finish(r)
      BY <1>1, <3>2 DEF Finish, NoRequest, IInv, TypeOK
    <3> QED
      BY <2>2, <3>1, <3>2 DEF CheckVerifier
  <2> QED
    BY <2>2, <2>3, <2>4 DEF At
<1> QED
  BY <1>1, Invariance, PTL DEF Spec, CodeSurvivesMismatch

-----------------------------------------------------------------------------
\* The rest assumes that Stop waits for the requests in flight.  Otherwise a
\* late request unlocks the mutex of the next run's store, if it does not kill
\* the process.

\* What Start and Stop leave behind at each of their steps.
LifecycleInv ==
    /\ base \in {0, runs} /\ key \in {0, runs} /\ stores \in {0, runs}
    /\ accepting \in {0, runs}
    /\ mu # "dead"
    /\ mu = "starting" => base = 0 /\ key = runs /\ stores = runs /\ accepting = 0 /\ runs # 0
    /\ mu \notin {"free", "starting"} => base = 0 /\ runs # 0
    /\ mu = "draining" => accepting = 0
    /\ mu = "free" /\ base = 0 => accepting = 0
    /\ base # 0 => key = base /\ stores = base
    /\ \A t \in Token : held[t] <= runs
    /\ mu = "starting" => \A t \in Token : held[t] # runs

\* A request in flight is served by the last run, whose server is up or
\* waits for it.
ServedInv ==
    \A r \in Request : req[r].pc # "idle" =>
        /\ req[r].run = runs
        /\ base # 0 \/ mu \in {"clearing", "closing", "draining"}

\* A request that waits for the mutex of the refresh store, and one that has it.
Waits(r)  == req[r].pc \in {"enter", "wait"}
Inside(r) == req[r].pc \in {"put", "unlock", "defer", "lookup", "take", "drop"}

\* One request at a time is inside the store of the last run, and what it
\* looked up stays there for it.
MutexInv ==
    /\ \A r \in Request :
        /\ Waits(r) \/ Inside(r) => req[r].store = runs
        /\ Inside(r) => runs \in locked
        /\ At(r, "take") \/ At(r, "drop") => held[req[r].token] = runs /\ runs # 0
    /\ \A r, s \in Request : Inside(r) /\ Inside(s) => r = s

\* A grant that is borne belongs to the run of whoever bears it, and a token
\* in the making will verify if the server is still up.
RunInv ==
    /\ GrantsStayInRun
    /\ StoredTokensVerify
    /\ \A r \in Request : Bears(r) => code[req[r].grant].home = runs
    /\ base # 0 =>
        \A r \in Request :
            /\ Makes(r) => token[req[r].token].aud = base
            /\ Makes(r) /\ ~At(r, "mint") => token[req[r].token].key = base

\* OneBearer, pair of kinds by pair of kinds.
Unforked ==
    /\ \A r, s \in Request : Bears(r) /\ Bears(s) /\ req[r].grant = req[s].grant => r = s
    /\ \A t, u \in Token :
        held[t] # 0 /\ held[u] # 0 /\ token[t].grant = token[u].grant => t = u
    /\ \A r \in Request : Bears(r) => req[r].grant \notin codes
    /\ \A t \in Token : held[t] # 0 => token[t].grant \notin codes
    /\ \A r \in Request, t \in Token :
        Bears(r) /\ held[t] # 0 => req[r].grant # token[t].grant

DrainInv ==
    /\ IInv
    /\ LifecycleInv
    /\ ServedInv
    /\ MutexInv
    /\ RunInv
    /\ Unforked

LEMMA InitDrain == Init => DrainInv
<1> SUFFICES ASSUME Init PROVE DrainInv
  OBVIOUS
<1>1. \A r \in Request : req[r].pc = "idle"
  BY DEF Init, NoRequest
<1>2. LifecycleInv
  BY DEF Init, LifecycleInv
<1>3. ServedInv /\ MutexInv
  BY <1>1 DEF ServedInv, MutexInv, Waits, Inside, At
<1>4. \A r \in Request : ~Bears(r) /\ ~Makes(r)
  BY <1>1 DEF Bears, Makes, Bearings, Makings
<1>5. RunInv /\ Unforked
  BY <1>4 DEF Init, RunInv, GrantsStayInRun, StoredTokensVerify, Unforked
<1> QED
  BY <1>2, <1>3, <1>5, InitInv DEF DrainInv

\* With no server and none on its way up or down, no request is in flight.
LEMMA QuietInv ==
  ASSUME DrainInv, base = 0, mu \in {"free", "starting"}
  PROVE  \A r \in Request : req[r].pc = "idle" /\ ~Bears(r) /\ ~Makes(r)
BY DEF DrainInv, ServedInv, Bears, Makes, Bearings, Makings

\* Start and Stop.
LEMMA LifecycleStep ==
  ASSUME DrainInv, ~ShutdownMayEnd,
         BeginStart \/ Bind \/ BindFails \/ BeginStop \/ Stopping
  PROVE  LifecycleInv' /\ ServedInv' /\ RunInv'
<1> USE IssuerAssumptions
<1>0. /\ runs \in Nat /\ \A t \in Token : held[t] \in Nat
      /\ UNCHANGED <<codeVars, tokenVars, locked, req>>
  BY DEF DrainInv, IInv, TypeOK, BeginStart, Bind, BindFails, BeginStop, Stopping,
         ClearSecrets, CloseListener, StopReturns
<1>1. CASE BeginStart
  <2>1. \A r \in Request : req[r].pc = "idle" /\ ~Bears(r) /\ ~Makes(r)
    BY <1>1, QuietInv DEF BeginStart
  <2>2. LifecycleInv'
    BY <1>0, <1>1 DEF BeginStart, FreshRun, DrainInv, LifecycleInv, tokenVars
  <2>3. ServedInv'
    BY <1>0, <2>1 DEF ServedInv
  <2>4. RunInv'
    BY <1>0, <1>1, <2>1 DEF BeginStart, FreshRun, DrainInv, RunInv, GrantsStayInRun,
                            StoredTokensVerify, Bears, Makes, At, codeVars, tokenVars
  <2> QED
    BY <2>2, <2>3, <2>4
<1>2. CASE Bind
  <2>1. \A r \in Request : req[r].pc = "idle" /\ ~Bears(r) /\ ~Makes(r)
    BY <1>2, QuietInv DEF Bind, DrainInv, LifecycleInv
  <2>2. LifecycleInv'
    BY <1>0, <1>2 DEF Bind, DrainInv, LifecycleInv, tokenVars
  <2>3. ServedInv'
    BY <1>0, <2>1 DEF ServedInv
  <2>4. RunInv'
    BY <1>0, <1>2, <2>1 DEF Bind, DrainInv, LifecycleInv, RunInv, GrantsStayInRun,
                            StoredTokensVerify, Bears, Makes, At, codeVars, tokenVars
  <2> QED
    BY <2>2, <2>3, <2>4
<1>3. CASE BindFails
  <2>1. LifecycleInv'
    BY <1>0, <1>3 DEF BindFails, DrainInv, LifecycleInv, tokenVars
  <2>2. ServedInv'
    BY <1>0, <1>3, QuietInv DEF BindFails, DrainInv, LifecycleInv, ServedInv
  <2>3. RunInv'
    BY <1>0, <1>3 DEF BindFails, DrainInv, LifecycleInv, RunInv, GrantsStayInRun,
                      StoredTokensVerify, Bears, Makes, At, codeVars, tokenVars
  <2> QED
    BY <2>1, <2>2, <2>3
<1>4. CASE BeginStop \/ ClearSecrets \/ CloseListener
  <2>1. /\ base' = 0 /\ UNCHANGED runs
        /\ mu' \in {"clearing", "closing", "draining"}
    BY <1>4 DEF BeginStop, ClearSecrets, CloseListener, DrainInv, LifecycleInv
  <2>2. LifecycleInv'
    BY <1>0, <1>4 DEF BeginStop, ClearSecrets, CloseListener, DrainInv,
                      LifecycleInv, tokenVars
  <2>3. ServedInv'
    BY <1>0, <2>1 DEF DrainInv, ServedInv
  <2>4. RunInv'
    BY <1>0, <2>1 DEF DrainInv, RunInv, GrantsStayInRun, StoredTokensVerify, Bears, Makes, At,
                      codeVars, tokenVars
  <2> QED
    BY <2>2, <2>3, <2>4
<1>5. CASE StopReturns
  <2>1. \A r \in Request : req[r].pc = "idle" /\ ~Bears(r) /\ ~Makes(r)
    BY <1>5 DEF StopReturns, Drained, DrainInv, ServedInv, Bears, Makes, Bearings, Makings
  <2>2. LifecycleInv'
    BY <1>0, <1>5 DEF StopReturns, DrainInv, LifecycleInv, tokenVars
  <2>3. ServedInv'
    BY <1>0, <2>1 DEF ServedInv
  <2>4. RunInv'
    BY <1>0, <1>5, <2>1 DEF StopReturns, DrainInv, LifecycleInv, RunInv, GrantsStayInRun,
                            StoredTokensVerify, Bears, Makes, At, codeVars, tokenVars
  <2> QED
    BY <2>2, <2>3, <2>4
<1> QED
  BY <1>1, <1>2, <1>3, <1>4, <1>5 DEF Stopping

\* A run begins with no request waiting for a store or inside one.
LEMMA LifecycleMutex ==
  ASSUME DrainInv, BeginStart \/ Bind \/ BindFails \/ BeginStop \/ Stopping
  PROVE  MutexInv' /\ Unforked'
<1>1. UNCHANGED <<codeVars, tokenVars, locked, req>>
  BY DEF BeginStart, Bind, BindFails, BeginStop, Stopping, ClearSecrets, CloseListener,
         StopReturns
<1>2. Unforked'
  BY <1>1 DEF DrainInv, Unforked, Bears, codeVars, tokenVars
<1>3. CASE UNCHANGED runs
  BY <1>1, <1>2, <1>3 DEF DrainInv, MutexInv, Waits, Inside, At, tokenVars
<1>4. CASE BeginStart
  <2>1. \A r \in Request : req[r].pc = "idle"
    BY <1>4, QuietInv DEF BeginStart
  <2>2. MutexInv'
    BY <1>1, <2>1 DEF MutexInv, Waits, Inside, At
  <2> QED
    BY <1>2, <2>2
<1> QED
  BY <1>3, <1>4 DEF Bind, BindFails, BeginStop, Stopping, ClearSecrets, CloseListener,
                    StopReturns

\* A new request is served by the server that is up, or about to close.
LEMMA AcceptingDrain ==
  ASSUME DrainInv, NEW r \in Request, AcceptAuthorize(r) \/ AcceptCode(r) \/ AcceptRefresh(r)
  PROVE  LifecycleInv' /\ ServedInv' /\ RunInv' /\ MutexInv' /\ Unforked'
<1>1. /\ UNCHANGED <<now, lifecycle, codeVars, tokenVars, locked>>
      /\ accepting # 0
      /\ req'[r].pc \in {"authorize", "redeem", "parse"} /\ req'[r].run = accepting
      /\ \A s \in Request \ {r} : req'[s] = req[s]
  BY DEF AcceptAuthorize, AcceptCode, AcceptRefresh, Accept, DrainInv, IInv, TypeOK
<1>2. accepting = runs /\ (base # 0 \/ mu \in {"clearing", "closing", "draining"})
  BY <1>1 DEF DrainInv, LifecycleInv, IInv, TypeOK
<1>3. LifecycleInv'
  BY <1>1 DEF DrainInv, LifecycleInv, lifecycle, server, tokenVars
<1>4. ServedInv'
  BY <1>1, <1>2 DEF DrainInv, ServedInv, lifecycle, server
<1>5. \A s \in Request : (Bears(s)' => Bears(s) /\ s # r) /\ (Makes(s)' => Makes(s) /\ s # r)
  BY <1>1 DEF Bears, Makes, Bearings, Makings
<1>6. RunInv'
  BY <1>1, <1>5 DEF DrainInv, RunInv, GrantsStayInRun, StoredTokensVerify, At, lifecycle,
                    server, codeVars, tokenVars
<1>7. MutexInv'
  BY <1>1 DEF DrainInv, MutexInv, Waits, Inside, At, lifecycle, server, tokenVars
<1>8. Unforked'
  BY <1>1, <1>5 DEF DrainInv, Unforked, codeVars, tokenVars
<1> QED
  BY <1>3, <1>4, <1>6, <1>7, <1>8

\* A handler moves its own request only.
LEMMA Alone ==
  ASSUME IInv, NEW r \in Request
  PROVE  /\ Finish(r) => req'[r].pc = "idle" /\ \A s \in Request \ {r} : req'[s] = req[s]
         /\ \A pc : GoTo(r, pc) =>
              /\ req'[r].pc = pc /\ req'[r].grant = req[r].grant
              /\ req'[r].token = req[r].token /\ req'[r].run = req[r].run
              /\ req'[r].store = req[r].store
              /\ \A s \in Request \ {r} : req'[s] = req[s]
<1>1. Finish(r) => req'[r].pc = "idle" /\ \A s \in Request \ {r} : req'[s] = req[s]
  BY DEF Finish, NoRequest, IInv, TypeOK
<1>2. ASSUME NEW pc, GoTo(r, pc)
      PROVE  /\ req'[r].pc = pc /\ req'[r].grant = req[r].grant
             /\ req'[r].token = req[r].token /\ req'[r].run = req[r].run
             /\ req'[r].store = req[r].store
             /\ \A s \in Request \ {r} : req'[s] = req[s]
  BY <1>2 DEF GoTo, IInv, TypeOK, RequestState
<1> QED
  BY <1>1, <1>2

\* The mutex that a request is to unlock is locked, so nobody is killed.
LEMMA UnlockWorks ==
  ASSUME DrainInv, NEW r \in Request, Inside(r),
         Unlock(req[r].store) \/ (Unlock(stores) /\ stores # 0)
  PROVE  UNCHANGED mu /\ locked' = locked \ {runs}
<1>1. req[r].store = runs /\ runs \in locked /\ (stores # 0 => stores = runs)
  BY DEF DrainInv, MutexInv, LifecycleInv
<1> QED
  BY <1>1 DEF Unlock

\* Where a request is, before and after a step of its handler, with respect
\* to the mutex.
LeavesMutex(r) ==
    /\ ~Waits(r)' /\ ~Inside(r)'
    /\ locked' = locked \/ (Inside(r) /\ locked' = locked \ {runs})
FindsMutex(r) ==
    /\ Waits(r)' /\ req'[r].store = runs
    /\ UNCHANGED locked
TakesMutex(r) ==
    /\ Waits(r) /\ req[r].store \notin locked /\ req'[r].store = req[r].store
    /\ req'[r].pc \in {"put", "defer"}
    /\ locked' = locked \cup {req[r].store}
KeepsMutex(r) ==
    /\ Inside(r) /\ req'[r].pc \in {"unlock", "lookup", "take", "drop"}
    /\ req'[r].store = runs /\ req'[r].token = req[r].token
    /\ req'[r].pc \in {"take", "drop"} => held[req[r].token] = runs /\ runs # 0
    /\ UNCHANGED locked

LEMMA MutexSteps ==
  ASSUME DrainInv, NEW r \in Request, HandlerStep(r)
  PROVE  /\ LeavesMutex(r) \/ FindsMutex(r) \/ TakesMutex(r) \/ KeepsMutex(r)
         /\ UNCHANGED mu
<1> USE DEF LeavesMutex, FindsMutex, TakesMutex, KeepsMutex
<1>a. IInv
  BY DEF DrainInv
<1>s. stores # 0 => stores = runs /\ runs # 0
  BY DEF DrainInv, LifecycleInv
<1>f. Finish(r) => ~Waits(r)' /\ ~Inside(r)'
  BY <1>a, Alone DEF Waits, Inside
<1>1. CASE Panic(r)
  <2>1. CASE Deferred(r)
    <3>1. Inside(r) /\ Unlock(req[r].store) /\ Finish(r)
      BY <1>1, <2>1 DEF Panic, Deferred, Inside
    <3> QED
      BY <1>f, <3>1, UnlockWorks
  <2>2. CASE ~Deferred(r)
    BY <1>1, <1>f, <2>2 DEF Panic
  <2> QED
    BY <2>1, <2>2
<1>2. CASE \/ HandlerFails(r) \/ Issue(r) \/ ConsumeCode(r) \/ SignTokens(r) \/ ReadAddress(r)
           \/ Mint(r) \/ ParseToken(r) \/ SignAccess(r)
  <2>1. UNCHANGED <<mu, locked>>
    BY <1>2 DEF HandlerFails, Issue, ConsumeCode, SignTokens, ReadAddress, Mint, ParseToken,
                SignAccess, lifecycle
  <2>2. \/ Finish(r)
        \/ \E pc \in {"sign", "address", "store", "claim"} : GoTo(r, pc)
        \/ ReadAddress(r)
    BY <1>2 DEF HandlerFails, Issue, ConsumeCode, CheckVerifier, SignTokens, Mint, ParseToken,
                SignAccess
  <2>3. CASE \E pc \in {"sign", "address", "store", "claim"} : GoTo(r, pc)
    <3>1. req'[r].pc \in {"sign", "address", "store", "claim"}
      BY <1>a, <2>3, Alone
    <3> QED
      BY <2>1, <3>1 DEF Waits, Inside
  <2>4. CASE ReadAddress(r)
    <3>1. req'[r].pc = "mint"
      BY <1>a, <2>4 DEF ReadAddress, IInv, TypeOK
    <3> QED
      BY <2>1, <3>1 DEF Waits, Inside
  <2> QED
    BY <1>f, <2>1, <2>2, <2>3, <2>4
<1>3. CASE ReadStore(r)
  <2>1. req'[r].pc \in {"enter", "wait"} /\ req'[r].store = stores
    BY <1>a, <1>3 DEF ReadStore, IInv, TypeOK, RequestState
  <2> QED
    BY <1>s, <1>3, <2>1 DEF ReadStore, Waits, lifecycle
<1>4. CASE LockStore(r)
  <2>1. /\ req'[r].pc \in {"put", "defer"} /\ req'[r].store = req[r].store
        /\ Waits(r)
    BY <1>a, <1>4, Alone DEF LockStore, Waits, At
  <2> QED
    BY <1>4, <2>1 DEF LockStore, Free, lifecycle
<1>5. CASE PutRecord(r)
  <2>1. /\ req'[r].pc = "unlock" /\ req'[r].store = req[r].store /\ Inside(r)
        /\ req'[r].token = req[r].token
    BY <1>a, <1>5, Alone DEF PutRecord, Inside, At
  <2>2. req[r].store = runs
    BY <2>1 DEF DrainInv, MutexInv
  <2> QED
    BY <1>5, <2>1, <2>2 DEF PutRecord, lifecycle
<1>6. CASE UnlockStore(r)
  <2>1. Inside(r) /\ Unlock(stores) /\ stores # 0
    BY <1>6 DEF UnlockStore, Inside, At
  <2>2. UNCHANGED mu /\ locked' = locked \ {runs}
    BY <2>1, UnlockWorks
  <2>3. CASE GoTo(r, "access")
    <3>1. req'[r].pc = "access"
      BY <1>a, <2>3, Alone
    <3> QED
      BY <2>1, <2>2, <3>1 DEF Waits, Inside
  <2> QED
    BY <1>6, <1>f, <2>1, <2>2, <2>3 DEF UnlockStore
<1>7. CASE DeferUnlock(r)
  <2>1. /\ req'[r].pc = "lookup" /\ req'[r].store = stores /\ Inside(r)
        /\ req'[r].token = req[r].token
    BY <1>a, <1>7 DEF DeferUnlock, Inside, At, IInv, TypeOK, RequestState
  <2> QED
    BY <1>s, <1>7, <2>1 DEF DeferUnlock, lifecycle
<1>8. CASE LookUp(r)
  <2>1. Inside(r) /\ stores # 0
    BY <1>8 DEF LookUp, Inside, At
  <2>2. CASE Finish(r) /\ Unlock(req[r].store)
    BY <1>f, <2>1, <2>2, UnlockWorks
  <2>3. CASE /\ ~RecordMissing(req[r].token)
             /\ GoTo(r, IF RecordExpired(req[r].token) THEN "drop" ELSE "take")
             /\ UNCHANGED <<mu, locked>>
    <3>1. /\ req'[r].pc \in {"drop", "take"} /\ req'[r].store = req[r].store
          /\ req'[r].token = req[r].token
      BY <1>a, <2>3, Alone
    <3>2. req[r].store = runs
      BY <2>1 DEF DrainInv, MutexInv
    <3> QED
      BY <1>s, <2>1, <2>3, <3>1, <3>2 DEF RecordMissing
  <2> QED
    BY <1>8, <2>2, <2>3 DEF LookUp
<1>9. CASE ClaimToken(r)
  <2>1. Inside(r) /\ Unlock(req[r].store)
    BY <1>9 DEF ClaimToken, Inside, At
  <2>2. UNCHANGED mu /\ locked' = locked \ {runs}
    BY <2>1, UnlockWorks
  <2>3. CASE req' = [req EXCEPT ![r].pc = "address", ![r].grant = token[req[r].token].grant]
    <3>1. req'[r].pc = "address"
      BY <1>a, <2>3 DEF IInv, TypeOK
    <3> QED
      BY <2>1, <2>2, <3>1 DEF Waits, Inside
  <2> QED
    BY <1>9, <1>f, <2>1, <2>2, <2>3 DEF ClaimToken
<1> QED
  BY <1>1, <1>2, <1>3, <1>4, <1>5, <1>6, <1>7, <1>8, <1>9 DEF HandlerStep

\* What else every step of a handler leaves alone.
LEMMA HandlerFrame ==
  ASSUME DrainInv, NEW r \in Request, HandlerStep(r)
  PROVE  /\ UNCHANGED <<now, lifecycle>>
         /\ req[r].pc # "idle"
         /\ \A s \in Request \ {r} : req'[s] = req[s]
         /\ req'[r].pc = "idle" \/ req'[r].run = req[r].run
         /\ \A t \in Token : held'[t] \in {held[t], 0, stores}
<1>a. IInv
  BY DEF DrainInv
<1>1. UNCHANGED <<now, server>>
  BY DEF HandlerStep, Panic, HandlerFails, Issue, ConsumeCode, CheckVerifier, SignTokens,
         ReadAddress, Mint, ReadStore, LockStore, PutRecord, UnlockStore, ParseToken,
         DeferUnlock, LookUp, ClaimToken, SignAccess, lifecycle
<1>2. req[r].pc # "idle"
  BY DEF HandlerStep, Panic, Reads, HandlerFails, Issue, ConsumeCode, CheckVerifier,
         SignTokens, ReadAddress, Mint, ReadStore, LockStore, PutRecord, UnlockStore,
         ParseToken, DeferUnlock, LookUp, ClaimToken, SignAccess, At
<1>3. \A t \in Token : held'[t] \in {held[t], 0, stores}
  <2>1. \/ held' = held
        \/ held' = [held EXCEPT ![req[r].token] = stores]
        \/ held' = [held EXCEPT ![req[r].token] = IF @ = stores THEN 0 ELSE @]
    BY DEF HandlerStep, Panic, HandlerFails, Issue, ConsumeCode, SignTokens, ReadAddress, Mint,
           ReadStore, LockStore, PutRecord, UnlockStore, ParseToken, DeferUnlock, LookUp,
           ClaimToken, SignAccess, tokenVars
  <2> QED
    BY <1>a, <2>1 DEF IInv, TypeOK
<1>4. /\ \A s \in Request \ {r} : req'[s] = req[s]
      /\ req'[r].pc = "idle" \/ req'[r].run = req[r].run
  <2>1. \/ Finish(r) \/ \E pc : GoTo(r, pc)
        \/ ReadAddress(r) \/ ReadStore(r) \/ DeferUnlock(r)
        \/ req' = [req EXCEPT ![r].pc = "address", ![r].grant = token[req[r].token].grant]
    BY DEF HandlerStep, Panic, HandlerFails, Issue, ConsumeCode, CheckVerifier, SignTokens, Mint,
           LockStore, PutRecord, UnlockStore, ParseToken, LookUp, ClaimToken, SignAccess
  <2>2. CASE Finish(r) \/ \E pc : GoTo(r, pc)
    BY <1>a, <2>2, Alone
  <2>3. CASE ReadAddress(r) \/ ReadStore(r) \/ DeferUnlock(r)
    BY <1>a, <2>3 DEF ReadAddress, ReadStore, DeferUnlock, IInv, TypeOK, RequestState
  <2>4. CASE req' = [req EXCEPT ![r].pc = "address", ![r].grant = token[req[r].token].grant]
    BY <1>a, <2>4 DEF IInv, TypeOK, RequestState
  <2> QED
    BY <2>1, <2>2, <2>3, <2>4
<1> QED
  BY <1>1, <1>2, <1>3, <1>4, MutexSteps DEF lifecycle

\* A handler leaves Start and Stop alone, and is served as before.
LEMMA HandlerServed ==
  ASSUME DrainInv, NEW r \in Request, HandlerStep(r)
  PROVE  LifecycleInv' /\ ServedInv'
<1>1. LifecycleInv'
  <2>1. mu # "starting"
    BY HandlerFrame, QuietInv DEF DrainInv, LifecycleInv
  <2>2. \A t \in Token : held'[t] <= runs
    BY HandlerFrame, IssuerAssumptions DEF DrainInv, LifecycleInv, IInv, TypeOK
  <2> QED
    BY <2>1, <2>2, HandlerFrame DEF DrainInv, LifecycleInv, lifecycle, server
<1>2. ServedInv'
  BY HandlerFrame DEF DrainInv, ServedInv, lifecycle, server
<1> QED
  BY <1>1, <1>2

\* What a step does to those who bear a grant: nobody gets one ...
NobodyNew ==
    /\ codes' \subseteq codes
    /\ \A t \in Token : held'[t] # 0 => held[t] # 0 /\ token'[t].grant = token[t].grant
    /\ \A s \in Request : Bears(s)' => Bears(s) /\ req'[s].grant = req[s].grant

\* ... or a new code has one, or one passes from a code to a request, from a
\* request to a token, or from a token to a request.
NewGrant ==
    /\ codes' = codes \cup {issued + 1}
    /\ UNCHANGED <<token, held>>
    /\ \A s \in Request : Bears(s)' => Bears(s) /\ req'[s].grant = req[s].grant
FromCode(r) ==
    /\ req[r].grant \in codes /\ codes' = codes \ {req[r].grant}
    /\ req'[r].grant = req[r].grant
    /\ UNCHANGED <<token, held>>
    /\ \A s \in Request \ {r} : req'[s] = req[s]
ToToken(r) ==
    LET t == req[r].token IN
    /\ Bears(r) /\ ~Bears(r)' /\ t \in Token /\ token[t].grant = req[r].grant
    /\ \A u \in Token \ {t} : held'[u] = held[u]
    /\ UNCHANGED <<codes, token>>
    /\ \A s \in Request \ {r} : req'[s] = req[s]
FromToken(r) ==
    LET t == req[r].token IN
    /\ ~Bears(r) /\ req'[r].grant = token[t].grant /\ t \in Token
    /\ held[t] # 0 /\ held[t] = runs /\ held'[t] = 0
    /\ \A u \in Token \ {t} : held'[u] = held[u]
    /\ UNCHANGED <<codes, token>>
    /\ \A s \in Request \ {r} : req'[s] = req[s]

LEMMA BearerSteps ==
  ASSUME DrainInv, NEW r \in Request, HandlerStep(r)
  PROVE  NobodyNew \/ NewGrant \/ FromCode(r) \/ ToToken(r) \/ FromToken(r)
<1> USE DEF NobodyNew, NewGrant, FromCode, ToToken, FromToken
<1>a. IInv
  BY DEF DrainInv
<1>t. /\ held \in [Token -> 0 .. MaxRuns]
      /\ token \in [Token -> [grant : 0 .. MaxCodes, aud : 0 .. MaxRuns, key : 0 .. MaxRuns,
                              expires : Nat]]
  BY <1>a DEF IInv, TypeOK
<1>o. \A s \in Request \ {r} : req'[s] = req[s]
  BY HandlerFrame
<1>b. ~Bears(r)' => \A s \in Request : Bears(s)' => Bears(s) /\ req'[s].grant = req[s].grant
  BY <1>o DEF Bears
<1>f. Finish(r) => ~Bears(r)'
  BY <1>a, Alone DEF Bears, Bearings, Makings
<1>m. /\ At(r, "address") \/ At(r, "sign") \/ At(r, "mint") \/ At(r, "store") \/ At(r, "enter")
           \/ At(r, "put") => Bears(r)
      /\ At(r, "take") \/ At(r, "drop") \/ At(r, "wait") => ~Bears(r)
  BY DEF Bears, Bearings, Makings, At
<1>g. \A pc : GoTo(r, pc) /\ (Bears(r) \/ pc \notin Bearings) =>
        \A s \in Request : Bears(s)' => Bears(s) /\ req'[s].grant = req[s].grant
  BY <1>a, <1>o, Alone DEF Bears
<1>1. CASE \/ Panic(r) \/ HandlerFails(r) \/ SignTokens(r) \/ ParseToken(r) \/ LockStore(r)
           \/ UnlockStore(r) \/ LookUp(r) \/ SignAccess(r)
  <2>1. UNCHANGED <<codes, token, held>>
    BY <1>1 DEF Panic, HandlerFails, SignTokens, ParseToken, LockStore, UnlockStore, LookUp,
                SignAccess, codeVars, tokenVars
  <2>2. \/ Finish(r)
        \/ GoTo(r, "address") /\ Bears(r)
        \/ \E pc \in {"claim", "defer", "access", "drop", "take"} : GoTo(r, pc)
        \/ GoTo(r, "put") /\ Bears(r)
    BY <1>1, <1>m DEF Panic, HandlerFails, SignTokens, ParseToken, LockStore, UnlockStore,
                      LookUp, SignAccess
  <2>3. \A pc \in {"claim", "defer", "access", "drop", "take"} : pc \notin Bearings
    BY DEF Bearings, Makings
  <2> QED
    BY <1>b, <1>f, <1>g, <2>1, <2>2, <2>3
<1>2. CASE ReadStore(r) \/ DeferUnlock(r)
  <2>1. UNCHANGED <<codes, token, held>>
    BY <1>2 DEF ReadStore, DeferUnlock, codeVars, tokenVars
  <2>2. /\ req'[r].grant = req[r].grant
        /\ \/ req'[r].pc \in {"wait", "lookup"}
           \/ req'[r].pc = "enter" /\ Bears(r)
    BY <1>a, <1>m, <1>2 DEF ReadStore, DeferUnlock, At, IInv, TypeOK, RequestState
  <2>3. \A s \in Request : Bears(s)' => Bears(s) /\ req'[s].grant = req[s].grant
    BY <1>o, <2>2 DEF Bears, Bearings, Makings
  <2> QED
    BY <2>1, <2>3
<1>3. CASE Issue(r)
  <2>1. codes' = codes \cup {issued + 1} /\ UNCHANGED <<token, held>> /\ Finish(r)
    BY <1>3 DEF Issue, NewCode, tokenVars
  <2> QED
    BY <1>b, <1>f, <2>1
<1>4. CASE ConsumeCode(r)
  <2>1. UNCHANGED <<token, held>> /\ codes' \subseteq codes
    BY <1>4 DEF ConsumeCode, tokenVars, CodeTaken, CodeMismatched
  <2>2. CASE Finish(r)
    BY <1>b, <1>f, <2>1, <2>2
  <2>3. CASE /\ GoTo(r, "sign") /\ req[r].grant \in codes
             /\ codes' = codes \ {req[r].grant}
    BY <1>a, <1>o, <2>1, <2>3, Alone
  <2> QED
    BY <1>4, <2>2, <2>3 DEF ConsumeCode, CheckVerifier, CodeTaken
<1>5. CASE ReadAddress(r)
  <2> DEFINE t == minted + 1
  <2>1. /\ UNCHANGED <<codes, held>> /\ Bears(r) /\ t \in Token
        /\ \A u \in Token : u # t => token'[u] = token[u]
    BY SMTT(30), <1>a, <1>m, <1>5, IssuerAssumptions
       DEF ReadAddress, codeVars, IInv, TypeOK, Token
  <2>2. held[t] = 0
    BY <1>a, <2>1, IssuerAssumptions DEF IInv, TypeOK, LinksInv
  <2>3. req'[r].grant = req[r].grant
    BY <1>a, <1>5 DEF ReadAddress, IInv, TypeOK, RequestState
  <2>4. \A s \in Request : Bears(s)' => Bears(s) /\ req'[s].grant = req[s].grant
    BY <1>o, <2>1, <2>3 DEF Bears
  <2> HIDE DEF t
  <2>5. \A u \in Token : held'[u] # 0 => held[u] # 0 /\ token'[u].grant = token[u].grant
    BY <2>1, <2>2
  <2> QED
    BY <2>1, <2>4, <2>5
<1>6. CASE Mint(r)
  <2>1. /\ UNCHANGED <<codes, held>> /\ Bears(r) /\ GoTo(r, "store")
        /\ \A t \in Token : token'[t].grant = token[t].grant
    BY <1>m, <1>t, <1>6 DEF Mint, codeVars
  <2> QED
    BY <1>g, <2>1
<1>7. CASE PutRecord(r)
  <2> DEFINE t == req[r].token
  <2>1. /\ UNCHANGED <<codes, token>> /\ GoTo(r, "unlock") /\ Bears(r) /\ Makes(r)
        /\ held' = [held EXCEPT ![t] = stores]
    BY <1>m, <1>7 DEF PutRecord, codeVars, Makes, Makings, At
  <2>2. t \in Token /\ token[t].grant = req[r].grant
    <3>1. t \in 1 .. minted /\ token[t].grant = req[r].grant
      BY <1>a, <2>1 DEF IInv, LinksInv
    <3>2. minted \in 0 .. MaxTokens /\ MaxTokens \in Nat
      BY <1>a, IssuerAssumptions DEF IInv, TypeOK
    <3> QED
      BY <3>1, <3>2 DEF Token
  <2>3. ~Bears(r)'
    BY <1>a, <2>1, Alone DEF Bears, Bearings, Makings
  <2> QED
    BY <1>o, <1>t, <2>1, <2>2, <2>3
<1>8. CASE ClaimToken(r)
  <2> DEFINE t == req[r].token
  <2>1. /\ UNCHANGED <<codes, token>> /\ ~Bears(r) /\ stores # 0
        /\ held' = [held EXCEPT ![t] = IF @ = stores THEN 0 ELSE @]
        /\ At(r, "take") \/ At(r, "drop")
    BY <1>m, <1>8 DEF ClaimToken, codeVars
  <2>2. t \in Token
    BY SMTT(30), <1>a, <2>1, IssuerAssumptions
       DEF IInv, TypeOK, LinksInv, Names, Namings, At, Token
  <2>3. /\ held[t] = stores /\ held[t] = runs /\ held'[t] = 0
        /\ \A u \in Token \ {t} : held'[u] = held[u]
    <3>1. held[t] = stores /\ held[t] = runs
      BY <2>1 DEF DrainInv, MutexInv, LifecycleInv
    <3> QED
      BY <1>t, <2>1, <2>2, <3>1
  <2>4. CASE Finish(r)
    <3>1. \A u \in Token : held'[u] # 0 => held[u] # 0 /\ token'[u].grant = token[u].grant
      BY <2>1, <2>3
    <3> QED
      BY <1>b, <1>f, <2>1, <2>4, <3>1
  <2>5. CASE req' = [req EXCEPT ![r].pc = "address", ![r].grant = token[t].grant]
    <3>1. req'[r].grant = token[t].grant
      BY <1>a, <2>5 DEF IInv, TypeOK, RequestState
    <3> QED
      BY <1>o, <2>1, <2>2, <2>3, <3>1
  <2> QED
    BY <1>8, <2>4, <2>5 DEF ClaimToken
<1> QED
  BY <1>1, <1>2, <1>3, <1>4, <1>5, <1>6, <1>7, <1>8 DEF HandlerStep

\* A handler does not fork a grant.
LEMMA HandlerUnforked ==
  ASSUME DrainInv, NEW r \in Request, HandlerStep(r)
  PROVE  Unforked'
<1>0. /\ \A s \in Request : Bears(s) => req[s].grant \in 1 .. issued
      /\ \A t \in Token : held[t] # 0 => token[t].grant \in 1 .. issued
      /\ issued \in Nat
  BY IssuerAssumptions DEF DrainInv, IInv, LinksInv, TypeOK
<1>u. Unforked
  BY DEF DrainInv
<1>1. CASE NobodyNew
  BY <1>u, <1>1 DEF NobodyNew, Unforked
<1>2. CASE NewGrant
  BY <1>0, <1>u, <1>2 DEF NewGrant, Unforked
<1>3. CASE FromCode(r)
  BY <1>u, <1>3 DEF FromCode, Unforked, Bears
<1>4. CASE ToToken(r)
  BY <1>u, <1>4 DEF ToToken, Unforked, Bears
<1>5. CASE FromToken(r)
  BY <1>u, <1>5 DEF FromToken, Unforked, Bears
<1> QED
  BY <1>1, <1>2, <1>3, <1>4, <1>5, BearerSteps

\* A handler enters the store of the last run alone.
LEMMA HandlerMutex ==
  ASSUME DrainInv, NEW r \in Request, HandlerStep(r)
  PROVE  MutexInv'
<1>1. /\ UNCHANGED runs /\ \A s \in Request \ {r} : req'[s] = req[s]
      /\ LeavesMutex(r) \/ FindsMutex(r) \/ TakesMutex(r) \/ KeepsMutex(r)
  BY HandlerFrame, MutexSteps DEF lifecycle, server
<1>2. \A s \in Request \ {r} : At(s, "take") \/ At(s, "drop") => held'[req[s].token] = runs
  <2> SUFFICES ASSUME NEW s \in Request \ {r}, At(s, "take") \/ At(s, "drop")
               PROVE  held'[req[s].token] = runs
    OBVIOUS
  <2> DEFINE t == req[s].token
  <2>1. held[t] = runs /\ runs # 0 /\ Inside(s) /\ Names(s)
    BY DEF DrainInv, MutexInv, Inside, Names, Namings, At
  <2>2. ~Inside(r)
    BY <2>1 DEF DrainInv, MutexInv
  <2>3. UNCHANGED held
    BY <2>2 DEF HandlerStep, Panic, HandlerFails, Issue, ConsumeCode, SignTokens, ReadAddress,
                Mint, ReadStore, LockStore, PutRecord, UnlockStore, ParseToken, DeferUnlock,
                LookUp, ClaimToken, SignAccess, tokenVars, Inside, At
  <2> QED
    BY <2>1, <2>3
<1>m. MutexInv
  BY DEF DrainInv
<1>3. CASE LeavesMutex(r)
  BY <1>1, <1>2, <1>3, <1>m DEF LeavesMutex, MutexInv, Waits, Inside, At
<1>4. CASE FindsMutex(r)
  BY <1>1, <1>2, <1>4, <1>m DEF FindsMutex, MutexInv, Waits, Inside, At
<1>5. CASE TakesMutex(r)
  BY <1>1, <1>2, <1>5, <1>m DEF TakesMutex, MutexInv, Waits, Inside, At
<1>6. CASE KeepsMutex(r)
  <2>1. held'[req[r].token] = held[req[r].token] \/ req'[r].pc \notin {"take", "drop"}
    <3>1. CASE req'[r].pc \in {"take", "drop"}
      <4>a. IInv
        BY DEF DrainInv
      <4>1. CASE PutRecord(r)
        <5>1. req'[r].pc = "unlock"
          BY <4>a, <4>1, Alone DEF PutRecord
        <5> QED
          BY <3>1, <5>1
      <4>2. CASE ClaimToken(r)
        <5>1. CASE Finish(r)
          BY <4>a, <3>1, <5>1, Alone
        <5>2. CASE req' = [req EXCEPT ![r].pc = "address",
                                      ![r].grant = token[req[r].token].grant]
          <6>1. req'[r].pc = "address"
            BY <4>a, <5>2 DEF IInv, TypeOK
          <6> QED
            BY <3>1, <6>1
        <5> QED
          BY <4>2, <5>1, <5>2 DEF ClaimToken
      <4>3. CASE ~PutRecord(r) /\ ~ClaimToken(r)
        BY <4>3 DEF HandlerStep, Panic, HandlerFails, Issue, ConsumeCode, SignTokens, ReadAddress,
                    Mint, ReadStore, LockStore, UnlockStore, ParseToken, DeferUnlock, LookUp,
                    SignAccess, tokenVars
      <4> QED
        BY <4>1, <4>2, <4>3
    <3> QED
      BY <3>1
  <2> QED
    BY <1>1, <1>2, <1>6, <1>m, <2>1 DEF KeepsMutex, MutexInv, Waits, Inside, At
<1> QED
  BY <1>1, <1>3, <1>4, <1>5, <1>6

\* A handler keeps every grant in its run.
LEMMA HandlerRun ==
  ASSUME DrainInv, NEW r \in Request, HandlerStep(r)
  PROVE  RunInv'
<1>a. IInv
  BY DEF DrainInv
<1>r. RunInv
  BY DEF DrainInv
<1>l. UNCHANGED lifecycle /\ \A s \in Request \ {r} : req'[s] = req[s]
  BY HandlerFrame
<1>s. (stores # 0 => stores = runs) /\ (base # 0 => key = base /\ base = runs /\ stores = base)
  BY DEF DrainInv, LifecycleInv
<1>h. \A t \in Token : held[t] # 0 => token[t].grant \in 1 .. issued /\ t \in 1 .. minted
  BY <1>a DEF IInv, LinksInv
<1>b. \A s \in Request : Bears(s) => req[s].grant \in 1 .. issued
  BY <1>a DEF IInv, LinksInv
<1>m. \A s \in Request : Makes(s) => /\ req[s].token \in 1 .. minted /\ req[s].token \in Token
                                     /\ token[req[s].token].grant = req[s].grant
                                     /\ held[req[s].token] = 0 /\ Bears(s)
  BY <1>a, IssuerAssumptions DEF IInv, TypeOK, LinksInv, Token, Bears, Makes, Bearings
<1>n. minted \in Nat /\ issued \in Nat
  BY <1>a, IssuerAssumptions DEF IInv, TypeOK
<1>c. \A c \in 1 .. issued : code'[c] = code[c]
  <2>1. CASE Issue(r)
    <3>1. code' = [code EXCEPT ![issued + 1] = [home |-> stores, expires |-> now + CodeTTL]]
      BY <2>1 DEF Issue, NewCode
    <3>2. issued + 1 \notin 1 .. issued /\ 1 .. issued \subseteq Code
      BY <1>a, <1>n, IssuerAssumptions DEF IInv, TypeOK, Code
    <3> QED
      BY <1>a, <3>1, <3>2 DEF IInv, TypeOK
  <2>2. CASE ~Issue(r)
    BY <2>2 DEF HandlerStep, Panic, HandlerFails, ConsumeCode, SignTokens, ReadAddress, Mint,
                ReadStore, LockStore, PutRecord, UnlockStore, ParseToken, DeferUnlock, LookUp,
                ClaimToken, SignAccess, codeVars
  <2> QED
    BY <2>1, <2>2
\* The grants that are borne.
<1>1. \A s \in Request : Bears(s)' => code'[req'[s].grant].home = runs
  <2>1. CASE NobodyNew \/ NewGrant
    BY <1>b, <1>r, <1>c, <2>1 DEF NobodyNew, NewGrant, RunInv
  <2>2. CASE FromCode(r)
    <3>1. CASE ConsumeCode(r) /\ ~Finish(r)
      <4>1. /\ req'[r].grant = req[r].grant /\ req[r].grant \in 1 .. issued
            /\ code[req[r].grant].home = runs
        BY <1>a, <1>s, <2>2, <3>1 DEF ConsumeCode, FromCode, IInv, TypeOK
      <4> QED
        BY <1>b, <1>l, <1>r, <1>c, <4>1 DEF RunInv, Bears
    <3>2. CASE Finish(r)
      <4>1. ~Bears(r)'
        BY <1>a, <3>2, Alone DEF Bears, Bearings, Makings
      <4> QED
        BY <1>b, <1>l, <1>r, <1>c, <4>1 DEF RunInv, Bears
    <3>3. CASE ~ConsumeCode(r)
      <4>1. req[r].grant \in codes /\ codes' = codes \ {req[r].grant}
        BY <2>2 DEF FromCode
      <4>2. codes' = codes \/ codes' = codes \cup {issued + 1}
        BY <3>3 DEF HandlerStep, Panic, HandlerFails, Issue, NewCode, SignTokens, ReadAddress,
                    Mint, ReadStore, LockStore, PutRecord, UnlockStore, ParseToken, DeferUnlock,
                    LookUp, ClaimToken, SignAccess, codeVars
      <4> QED
        BY <4>1, <4>2
    <3> QED
      BY <3>1, <3>2, <3>3
  <2>3. CASE ToToken(r)
    BY <1>b, <1>r, <1>c, <2>3 DEF ToToken, RunInv, Bears
  <2>4. CASE FromToken(r)
    <3>1. /\ req[r].token \in Token /\ held[req[r].token] # 0
          /\ held[req[r].token] = runs
          /\ req'[r].grant = token[req[r].token].grant
      BY <2>4 DEF FromToken
    <3>2. code[req'[r].grant].home = runs /\ req'[r].grant \in 1 .. issued
      BY <1>h, <1>r, <3>1 DEF RunInv, GrantsStayInRun
    <3> QED
      BY <1>b, <1>l, <1>r, <1>c, <3>2 DEF RunInv, Bears
  <2> QED
    BY <2>1, <2>2, <2>3, <2>4, BearerSteps
\* The tokens on record: one is new at most.
<1>2. \A t \in Token : held'[t] # 0 =>
        \/ held'[t] = held[t] /\ token'[t] = token[t]
        \/ /\ Makes(r) /\ ~At(r, "mint") /\ t = req[r].token
           /\ held'[t] = stores /\ stores # 0 /\ token'[t] = token[t]
  <2>t. /\ held \in [Token -> 0 .. MaxRuns]
        /\ token \in [Token -> [grant : 0 .. MaxCodes, aud : 0 .. MaxRuns, key : 0 .. MaxRuns,
                                expires : Nat]]
    BY <1>a DEF IInv, TypeOK
  <2>1. CASE ReadAddress(r)
    <3>1. UNCHANGED held /\ \A t \in Token : t # minted + 1 => token'[t] = token[t]
      BY <2>t, <2>1 DEF ReadAddress
    <3>2. \A t \in Token : held[t] # 0 => t # minted + 1
      BY <1>h, <1>n
    <3> QED
      BY <3>1, <3>2
  <2>2. CASE Mint(r)
    <3>1. Makes(r)
      BY <2>2 DEF Mint, Makes, Makings, At
    <3>2. UNCHANGED held /\ \A t \in Token : t # req[r].token => token'[t] = token[t]
      BY <2>t, <2>2 DEF Mint
    <3>3. held[req[r].token] = 0
      BY <1>m, <3>1
    <3> QED
      BY <3>2, <3>3
  <2>3. CASE PutRecord(r)
    <3>1. Makes(r) /\ ~At(r, "mint")
      BY <2>3 DEF PutRecord, Makes, Makings, At
    <3>2. UNCHANGED token /\ held' = [held EXCEPT ![req[r].token] = stores] /\ stores # 0
      BY <2>3 DEF PutRecord
    <3> QED
      BY <2>t, <3>1, <3>2
  <2>4. CASE ClaimToken(r)
    BY <2>t, <2>4 DEF ClaimToken
  <2>5. CASE ~ReadAddress(r) /\ ~Mint(r) /\ ~PutRecord(r) /\ ~ClaimToken(r)
    BY <2>5 DEF HandlerStep, Panic, HandlerFails, Issue, ConsumeCode, SignTokens, ReadStore,
                LockStore, UnlockStore, ParseToken, DeferUnlock, LookUp, SignAccess, tokenVars
  <2> QED
    BY <2>1, <2>2, <2>3, <2>4, <2>5
<1>3. GrantsStayInRun'
  <2> SUFFICES ASSUME NEW t \in Token, held'[t] # 0
               PROVE  code'[token'[t].grant].home = held'[t]
    BY DEF GrantsStayInRun
  <2>1. CASE held'[t] = held[t] /\ token'[t] = token[t]
    BY <1>c, <1>h, <1>r, <2>1 DEF RunInv, GrantsStayInRun
  <2>2. CASE /\ Makes(r) /\ t = req[r].token /\ held'[t] = stores /\ stores # 0
             /\ token'[t] = token[t]
    <3>1. /\ token[t].grant = req[r].grant /\ req[r].grant \in 1 .. issued
          /\ code[req[r].grant].home = runs
      BY <1>b, <1>m, <1>r, <2>2 DEF RunInv
    <3> QED
      BY <1>c, <1>s, <2>2, <3>1
  <2> QED
    BY <1>2, <2>1, <2>2
<1>4. StoredTokensVerify'
  <2> SUFFICES ASSUME base # 0, NEW t \in Token, held'[t] = stores
               PROVE  token'[t].key = key /\ token'[t].aud = base
    BY <1>l DEF StoredTokensVerify, lifecycle, server
  <2>1. held'[t] # 0
    BY <1>s
  <2> QED
    BY <1>2, <1>r, <1>s, <2>1 DEF RunInv, StoredTokensVerify
\* The tokens in the making.
<1>5. ASSUME NEW s \in Request, Makes(s)'
      PROVE  \/ /\ Makes(s) /\ req'[s].token = req[s].token
                /\ token'[req[s].token] = token[req[s].token]
                /\ At(s, "mint") => At(s, "mint")'
             \/ At(s, "mint")' /\ token'[req'[s].token].aud = base
             \/ /\ Makes(s) /\ req'[s].token = req[s].token
                /\ token'[req[s].token].aud = token[req[s].token].aud
                /\ token'[req[s].token].key = key
  <2>t. token \in [Token -> [grant : 0 .. MaxCodes, aud : 0 .. MaxRuns, key : 0 .. MaxRuns,
                             expires : Nat]]
    BY <1>a DEF IInv, TypeOK
  <2>1. CASE ReadAddress(r)
    <3>1. /\ minted + 1 \in Token /\ token'[minted + 1].aud = base
          /\ \A t \in Token : t # minted + 1 => token'[t] = token[t]
      BY SMTT(30), <1>n, <2>t, <2>1, IssuerAssumptions DEF ReadAddress, Token
    <3>2. req'[r].pc = "mint" /\ req'[r].token = minted + 1
      BY <1>a, <2>1 DEF ReadAddress, IInv, TypeOK, RequestState
    <3>3. CASE s # r
      <4>1. Makes(s) /\ req'[s] = req[s]
        BY <1>l, <1>5, <3>3 DEF Makes
      <4>2. req[s].token # minted + 1
        BY <1>m, <1>n, <4>1
      <4> QED
        BY <1>m, <3>1, <4>1, <4>2 DEF At
    <3> QED
      BY <3>1, <3>2, <3>3 DEF At
  <2>2. CASE Mint(r)
    <3>1. Makes(r) /\ req[r].token \in Token
      <4>1. Makes(r)
        BY <2>2 DEF Mint, Makes, Makings, At
      <4> QED
        BY <1>m, <4>1
    <3>2. /\ req'[r].pc = "store" /\ req'[r].token = req[r].token
      BY <1>a, <2>2, Alone DEF Mint
    <3>3. /\ token'[req[r].token].key = key
          /\ token'[req[r].token].aud = token[req[r].token].aud
          /\ \A t \in Token : t # req[r].token => token'[t] = token[t]
      BY <2>t, <2>2, <3>1 DEF Mint
    <3>4. CASE s # r
      <4>1. Makes(s) /\ req'[s] = req[s]
        BY <1>l, <1>5, <3>4 DEF Makes
      <4>2. req[s].token # req[r].token
        BY <1>a, <3>1, <3>4, <4>1 DEF IInv, LinksInv
      <4> QED
        BY <1>m, <3>3, <4>1, <4>2 DEF At
    <3> QED
      BY <3>1, <3>2, <3>3, <3>4
  <2>3. CASE ~ReadAddress(r) /\ ~Mint(r)
    <3>1. UNCHANGED token
      BY <2>3 DEF HandlerStep, Panic, HandlerFails, Issue, ConsumeCode, SignTokens, ReadStore,
                  LockStore, PutRecord, UnlockStore, ParseToken, DeferUnlock, LookUp, ClaimToken,
                  SignAccess, tokenVars
    <3>2. CASE s # r
      BY <1>l, <1>5, <3>1, <3>2 DEF Makes, At
    <3>3. CASE s = r
      <4>1. CASE ReadStore(r)
        BY <1>a, <1>5, <3>1, <3>3, <4>1
           DEF ReadStore, Makes, Makings, At, IInv, TypeOK, RequestState
      <4>2. CASE LockStore(r)
        <5>1. /\ req'[r].pc = (IF At(r, "enter") THEN "put" ELSE "defer")
              /\ req'[r].token = req[r].token
          BY <1>a, <4>2, Alone DEF LockStore
        <5> QED
          BY <1>5, <3>1, <3>3, <5>1 DEF Makes, Makings, At
      <4>3. CASE ~ReadStore(r) /\ ~LockStore(r)
        <5>1. \/ Finish(r)
              \/ \E pc \in {"sign", "address", "unlock", "claim", "drop", "take", "access"} :
                    GoTo(r, pc)
              \/ DeferUnlock(r)
              \/ req' = [req EXCEPT ![r].pc = "address",
                                    ![r].grant = token[req[r].token].grant]
          BY <2>3, <4>3
             DEF HandlerStep, Panic, HandlerFails, Issue, ConsumeCode, CheckVerifier, SignTokens,
                 PutRecord, UnlockStore, ParseToken, LookUp, ClaimToken, SignAccess
        <5>2. CASE \/ Finish(r)
                   \/ \E pc \in {"sign", "address", "unlock", "claim", "drop", "take",
                                  "access"} : GoTo(r, pc)
          <6>1. req'[r].pc \notin Makings
            BY <1>a, <5>2, Alone DEF Makings
          <6> QED
            BY <1>5, <3>3, <6>1 DEF Makes
        <5>3. CASE DeferUnlock(r)
          <6>1. req'[r].pc = "lookup"
            BY <1>a, <5>3 DEF DeferUnlock, IInv, TypeOK
          <6> QED
            BY <1>5, <3>3, <6>1 DEF Makes, Makings
        <5>4. CASE req' = [req EXCEPT ![r].pc = "address",
                                      ![r].grant = token[req[r].token].grant]
          <6>1. req'[r].pc = "address"
            BY <1>a, <5>4 DEF IInv, TypeOK
          <6> QED
            BY <1>5, <3>3, <6>1 DEF Makes, Makings
        <5> QED
          BY <5>1, <5>2, <5>3, <5>4
      <4> QED
        BY <4>1, <4>2, <4>3
    <3> QED
      BY <3>2, <3>3
  <2> QED
    BY <2>1, <2>2, <2>3
<1>6. base # 0 => \A s \in Request :
            /\ Makes(s)' => token'[req'[s].token].aud = base
            /\ Makes(s)' /\ ~At(s, "mint")' => token'[req'[s].token].key = base
  BY <1>5, <1>r, <1>s DEF RunInv
<1> QED
  BY <1>1, <1>3, <1>4, <1>6, <1>l DEF RunInv, lifecycle, server

LEMMA DrainStep ==
  ASSUME DrainInv, ~ShutdownMayEnd, [Next]_vars
  PROVE  DrainInv'
<1>1. IInv'
  BY StepInv DEF DrainInv
<1>2. CASE Tick \/ UNCHANGED vars
  <2>1. UNCHANGED <<lifecycle, codeVars, tokenVars, locked, req>>
    BY <1>2 DEF Tick, vars
  <2> QED
    BY <1>1, <2>1
       DEF DrainInv, LifecycleInv, ServedInv, MutexInv, RunInv, Unforked, GrantsStayInRun,
           StoredTokensVerify, Bears, Makes, Waits, Inside, At, lifecycle, server, codeVars,
           tokenVars
<1>3. ASSUME NEW r \in Request,
             AcceptAuthorize(r) \/ AcceptCode(r) \/ AcceptRefresh(r) \/ HandlerStep(r)
      PROVE  DrainInv'
  BY <1>1, <1>3, AcceptingDrain, HandlerServed, HandlerRun, HandlerMutex, HandlerUnforked
     DEF DrainInv
<1>4. CASE BeginStart \/ Bind \/ BindFails \/ BeginStop \/ Stopping
  BY <1>1, <1>4, LifecycleStep, LifecycleMutex DEF DrainInv
<1> QED
  BY <1>2, <1>3, <1>4 DEF Next, Handler

LEMMA DrainInvariance ==
  ASSUME ~ShutdownMayEnd
  PROVE  Spec => []DrainInv
BY InitDrain, DrainStep, PTL DEF Spec

\* If Stop waits for the requests in flight, nothing granted in one run can
\* be exchanged in a later one.
THEOREM RunsAreIsolated ==
  ASSUME ~ShutdownMayEnd
  PROVE  Spec => []GrantsStayInRun
BY DrainInvariance, PTL DEF DrainInv, RunInv

\* If Stop waits for the requests in flight, every refresh token the running
\* server has a record of verifies with its key and names its address.
THEOREM StoredVerify ==
  ASSUME ~ShutdownMayEnd
  PROVE  Spec => []StoredTokensVerify
BY DrainInvariance, PTL DEF DrainInv, RunInv

LEMMA UnforkedSuffices == DrainInv => OneBearer
<1> SUFFICES ASSUME DrainInv, NEW g \in Code, NEW x \in Bearers(g), NEW y \in Bearers(g)
             PROVE  x = y
  BY DEF OneBearer
<1>1. ASSUME NEW z \in Bearers(g)
      PROVE  \/ z = <<"code", g>> /\ g \in codes
             \/ \E r \in Request : z = <<"request", r>> /\ Bears(r) /\ req[r].grant = g
             \/ \E t \in Token : z = <<"token", t>> /\ held[t] # 0 /\ token[t].grant = g
  BY <1>1 DEF Bearers, Carries, Bears, Bearings, Makings
<1> QED
  BY <1>1 DEF DrainInv, Unforked

\* A grant never forks: however many requests present a code or a refresh
\* token at once, one at most goes on with the grant.
THEOREM NeverForks ==
  ASSUME ~ShutdownMayEnd
  PROVE  Spec => []OneBearer
BY DrainInvariance, UnforkedSuffices, PTL

\* Nobody bears grant g.
Spent(g) ==
    /\ g \notin codes
    /\ \A r \in Request : ~(Bears(r) /\ req[r].grant = g)
    /\ \A t \in Token : ~(held[t] # 0 /\ token[t].grant = g)

\* A grant that was used up, or that failed halfway, never comes back: who
\* bears it after a step took it from someone who bore it before.
THEOREM StaysSpent ==
  ASSUME ~ShutdownMayEnd
  PROVE  Spec => SpentStaysSpent
<1> DEFINE Stays == \A g \in 1 .. issued : Bearers(g) = {} => Bearers(g)' = {}
<1>1. ASSUME DrainInv, [Next]_vars PROVE Stays
  <2> SUFFICES ASSUME NEW g \in 1 .. issued, Bearers(g) = {}
               PROVE  Bearers(g)' = {}
    OBVIOUS
  <2>1. Spent(g)
    <3>1. /\ {c \in codes \cap {g} : TRUE} = {}
          /\ \A r \in Request : ~Carries(r, g)
          /\ \A t \in Token : ~(held[t] # 0 /\ token[t].grant = g)
      BY DEF Bearers
    <3> QED
      BY <3>1 DEF Spent, Carries, Bears, Bearings, Makings
  <2>2. CASE \/ Tick \/ BeginStart \/ Bind \/ BindFails \/ BeginStop \/ Stopping
             \/ UNCHANGED vars
    <3>1. UNCHANGED <<codeVars, tokenVars, req>>
      BY <2>2 DEF Tick, BeginStart, Bind, BindFails, BeginStop, Stopping, ClearSecrets,
                  CloseListener, StopReturns, vars
    <3>2. Spent(g)'
      BY <2>1, <3>1 DEF Spent, Bears, codeVars, tokenVars
    <3> QED
      BY <3>2 DEF Spent, Bearers, Carries, Bears, Bearings, Makings
  <2>3. ASSUME NEW r \in Request, AcceptAuthorize(r) \/ AcceptCode(r) \/ AcceptRefresh(r)
        PROVE  Spent(g)'
    <3>1. UNCHANGED <<codeVars, tokenVars>>
      BY <2>3 DEF AcceptAuthorize, AcceptCode, AcceptRefresh, Accept
    <3>2. /\ req'[r].pc \in {"authorize", "redeem", "parse"}
          /\ \A s \in Request \ {r} : req'[s] = req[s]
      BY <1>1, <2>3 DEF AcceptAuthorize, AcceptCode, AcceptRefresh, Accept, DrainInv, IInv, TypeOK
    <3> QED
      BY <2>1, <3>1, <3>2 DEF Spent, Bears, Bearings, Makings, codeVars, tokenVars
  <2>4. ASSUME NEW r \in Request, HandlerStep(r)
        PROVE  Spent(g)'
    <3>1. issued + 1 # g
      BY <1>1, IssuerAssumptions DEF DrainInv, IInv, TypeOK
    <3>2. CASE NobodyNew
      BY <2>1, <3>2 DEF NobodyNew, Spent
    <3>3. CASE NewGrant
      BY <2>1, <3>1, <3>3 DEF NewGrant, Spent
    <3>4. CASE FromCode(r)
      BY <2>1, <3>4 DEF FromCode, Spent, Bears
    <3>5. CASE ToToken(r)
      BY <2>1, <3>5 DEF ToToken, Spent, Bears
    <3>6. CASE FromToken(r)
      BY <2>1, <3>6 DEF FromToken, Spent, Bears
    <3> QED
      BY <1>1, <2>4, <3>2, <3>3, <3>4, <3>5, <3>6, BearerSteps
  <2>5. ASSUME Spent(g)' PROVE Bearers(g)' = {}
    BY <2>5 DEF Spent, Bearers, Carries, Bears, Bearings, Makings
  <2> QED
    BY <1>1, <2>2, <2>3, <2>4, <2>5 DEF Next, Handler
<1> QED
  BY <1>1, DrainInvariance, PTL DEF Spec, SpentStaysSpent
=============================================================================
