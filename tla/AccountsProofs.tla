---------------------------- MODULE AccountsProofs ----------------------------
(***************************************************************************)
(* The safety properties of the two halves of signing in: OAuthTokens,     *)
(* with the abstract lineages it implements, for any sets of requests and  *)
(* codes, either storage mode or both while a change of it rolls out, and  *)
(* any number of resets; and UserAccount, for any number of claim posts,   *)
(* logins, provider logins and migrations.                                 *)
(*                                                                         *)
(* The strengthening of OAuthTokens says what a request in flight knows    *)
(* that no other step can take away: the code it holds is unused and held  *)
(* by nobody else, the row it holds is live, carries the token it          *)
(* presented and is held by nobody else.  Around it, live rows are told    *)
(* apart by family and by token, and a token or a family is that of a      *)
(* request already granted.                                                *)
(*                                                                         *)
(* Two facts carry UserAccount.  A stored hash is made by one handler,     *)
(* once: one that has been replaced is never the row's hash again.  And an *)
(* account that is no longer pending never is again, nor does one that has *)
(* a provider ever lose or change it.                                      *)
(***************************************************************************)
EXTENDS OAuthTokens, UserAccount, FiniteSetTheorems, TLAPS

\* What a request knows, told by where it is.
HoldsCodes == {r \in Requests : req[r].pc = "holdsCode"}
HoldsRows == {r \in Requests : req[r].pc = "holdsRow"}
CodeKnown(r) ==
    /\ req[r].pc \in {"gotCode", "holdsCode"} => req[r].arg \in Codes
    /\ req[r].pc = "holdsCode" => codes[req[r].arg].st = "unused"
RowKnown(r) ==
    /\ req[r].pc \in {"gotToken", "holdsRow", "gotRevoked", "burning"} =>
          /\ req[r].arg \in Requests /\ req[r].row \in Requests
          /\ rows[req[r].row].st # "absent"
    /\ req[r].pc = "holdsRow" =>
          rows[req[r].row].st = "live" /\ rows[req[r].row].tok = req[r].arg
    /\ req[r].pc = "burning" => \A i \in req[r].target : rows[i].fam = rows[req[r].row].fam

\* Nobody shares what it holds.
HeldAlone ==
    /\ \A r, s \in HoldsCodes : req[r].arg = req[s].arg => r = s
    /\ \A r, s \in HoldsRows : req[r].row = req[s].row => r = s

\* A code is spent when it is used up and not before.
CodeSpent(k) ==
    /\ codes[k].st \in {"new", "verified", "unused"} => spent[k] = 0
    /\ codes[k].st = "used" => spent[k] = 1
    /\ spent[k] <= 1

\* A row, a token or a family is named for a request that was granted it.
RowNamed(i) ==
    /\ rows[i].st = "absent" => rows[i].fam = NoOne /\ rows[i].tok = NoOne
    /\ rows[i].st # "absent" => rows[i].fam \in Minted /\ rows[i].tok \in Minted
Ungranted(r) == r \notin Minted => rows[r].st = "absent" /\ spent[r] = 0

\* Live rows share neither family nor token, and theirs are unspent.
LiveApart ==
    /\ \A i, j \in Live : rows[i].fam = rows[j].fam \/ rows[i].tok = rows[j].tok => i = j
    /\ \A i \in Live : spent[rows[i].tok] = 0
TokensOnce == \A t \in Requests : spent[t] <= 1

\* What ends a family.
SessionKept == \A f \in Opened \ (burned \cup revoked) : LiveIn(f) # {}
ResetKnown ==
    /\ \A i \in reset.target : rows[i].st # "absent"
    /\ revoked \subseteq Minted
RevokedEnds == \A f \in revoked, i \in Requests : RowsOf(f) = {i} => i \notin Live

\* The inductive invariant.
CodeInv == (\A r \in Requests : CodeKnown(r)) /\ (\A k \in Codes : CodeSpent(k))
RowInv ==
    /\ \A r \in Requests : RowKnown(r) /\ RowNamed(r) /\ Ungranted(r)
    /\ LiveApart /\ TokensOnce /\ SessionKept /\ ResetKnown /\ RevokedEnds
IInv == TypeOK /\ HeldAlone /\ CodeInv /\ RowInv /\ IsFiniteSet(Minted)

-----------------------------------------------------------------------------
\* The types of TypeOK, named.
CodeRec == [st : CodeStates, login : Nat, expired : BOOLEAN]
RowRec == [st : RowStates, fam : Requests \cup {NoOne}, tok : Requests \cup {NoOne},
           login : Nat, expired : BOOLEAN]
ReqRec == [pc : Positions, arg : Codes \cup Requests \cup {NoOne},
           row : Requests \cup {NoOne}, target : SUBSET Requests]
ResetRec == [pc : {"idle", "revoking"}, target : SUBSET Requests]

LEMMA Typed ==
    ASSUME TypeOK
    PROVE  /\ codes \in [Codes -> CodeRec] /\ rows \in [Requests -> RowRec]
           /\ req \in [Requests -> ReqRec] /\ reset \in ResetRec
           /\ spent \in [Codes \cup Requests -> Nat]
  BY DEF TypeOK, CodeRec, RowRec, ReqRec, ResetRec

\* The invariant holds of empty tables.
LEMMA InitInv == Init => IInv
  <1> SUFFICES ASSUME Init PROVE IInv
    OBVIOUS
  <1>1. TypeOK
    BY DEF Init, TypeOK, CodeStates, RowStates, Positions
  <1>2. Minted = {} /\ Live = {} /\ HoldsCodes = {} /\ HoldsRows = {} /\ Opened = {}
    BY DEF Init, Minted, Live, HoldsCodes, HoldsRows, Opened
  <1>3. IsFiniteSet(Minted) /\ HeldAlone
    BY <1>2, FS_EmptySet DEF HeldAlone
  <1>4. CodeInv
    BY DEF Init, CodeInv, CodeKnown, CodeSpent
  <1>5. \A r \in Requests : RowKnown(r) /\ RowNamed(r) /\ Ungranted(r)
    BY DEF Init, RowKnown, RowNamed, Ungranted
  <1>6. LiveApart /\ TokensOnce /\ SessionKept /\ ResetKnown /\ RevokedEnds
    BY <1>2 DEF Init, LiveApart, TokensOnce, SessionKept, ResetKnown, RevokedEnds
  <1> QED BY <1>1, <1>3, <1>4, <1>5, <1>6 DEF IInv, RowInv

-----------------------------------------------------------------------------
(* Steps that change no table.                                             *)

Others(r) == \A s \in Requests \ {r} : req'[s] = req[s]

\* A request that moves on without writing keeps the invariant, so long as what
\* it comes to know is so and what it comes to hold is held by nobody else.
LEMMA Moves ==
    ASSUME IInv, NEW r \in Requests, UNCHANGED <<codes, rows, reset, resets, spent, burned, revoked>>,
           req' \in [Requests -> ReqRec], Others(r),
           req[r].pc # "granted", req'[r].pc # "granted",
           CodeKnown(r)', RowKnown(r)',
           req'[r].pc = "holdsCode" => req'[r].arg \notin HeldCodes,
           req'[r].pc = "holdsRow" => req'[r].row \notin HeldRows
    PROVE  IInv'
  <1>1. TypeOK'
    BY DEF IInv, TypeOK, ReqRec
  <1>2. Minted' = Minted
    BY DEF Minted, Others
  <1>3. HeldAlone'
    <2>1. \A q \in HoldsCodes' \ {r} : q \in HoldsCodes /\ req'[q] = req[q]
      BY DEF HoldsCodes, Others
    <2>2. \A q \in HoldsRows' \ {r} : q \in HoldsRows /\ req'[q] = req[q]
      BY DEF HoldsRows, Others
    <2>3. \A q \in HoldsCodes : req[q].arg \in HeldCodes
      BY DEF HoldsCodes, HeldCodes
    <2>4. \A q \in HoldsRows : req[q].row \in HeldRows
      BY DEF HoldsRows, HeldRows
    <2>5. \A q, t \in HoldsCodes' : req'[q].arg = req'[t].arg => q = t
      BY <2>1, <2>3 DEF IInv, HeldAlone, HoldsCodes
    <2>6. \A q, t \in HoldsRows' : req'[q].row = req'[t].row => q = t
      BY <2>2, <2>4 DEF IInv, HeldAlone, HoldsRows
    <2> QED BY <2>5, <2>6 DEF HeldAlone
  <1>4. CodeInv'
    <2>1. \A s \in Requests \ {r} : CodeKnown(s)'
      BY DEF IInv, CodeInv, CodeKnown, Others
    <2>2. \A k \in Codes : CodeSpent(k)'
      BY DEF IInv, CodeInv, CodeSpent
    <2> QED BY <2>1, <2>2 DEF CodeInv
  <1>5. RowInv'
    <2>1. \A s \in Requests \ {r} : RowKnown(s)'
      BY DEF IInv, RowInv, RowKnown, Others
    <2>2. \A s \in Requests : RowNamed(s)' /\ Ungranted(s)'
      BY <1>2 DEF IInv, RowInv, RowNamed, Ungranted
    <2>3. Live' = Live /\ Opened' = Opened /\ (\A f : LiveIn(f)' = LiveIn(f) /\ RowsOf(f)' = RowsOf(f))
      BY DEF Live, Opened, LiveIn, RowsOf
    <2>4. LiveApart' /\ TokensOnce' /\ SessionKept' /\ ResetKnown' /\ RevokedEnds'
      BY <1>2, <2>3
         DEF IInv, RowInv, LiveApart, TokensOnce, SessionKept, ResetKnown, RevokedEnds
    <2> QED BY <2>1, <2>2, <2>4 DEF RowInv
  <1> QED BY <1>1, <1>2, <1>3, <1>4, <1>5 DEF IInv

\* What GoTo leaves of the requests.
LEMMA Went ==
    ASSUME TypeOK, NEW r \in Requests, NEW pc \in Positions, GoTo(r, pc)
    PROVE  /\ req' \in [Requests -> ReqRec] /\ Others(r) /\ req'[r].pc = pc
           /\ req'[r].arg = req[r].arg /\ req'[r].row = req[r].row /\ req'[r].target = req[r].target
  <1>1. [req[r] EXCEPT !.pc = pc] \in ReqRec
    BY Typed DEF ReqRec
  <1>2. req' = [req EXCEPT ![r] = [req[r] EXCEPT !.pc = pc]]
    BY DEF GoTo
  <1>3. req' \in [Requests -> ReqRec] /\ Others(r) /\ req'[r] = [req[r] EXCEPT !.pc = pc]
    BY <1>1, <1>2, Typed DEF Others
  <1> QED BY <1>3, Typed DEF ReqRec

\* A request that is over without a token knows nothing.
LEMMA Over ==
    ASSUME NEW r \in Requests, req'[r].pc \in {"invalid", "failed"}
    PROVE  CodeKnown(r)' /\ RowKnown(r)' /\ req'[r].pc # "granted"
           /\ req'[r].pc \notin {"holdsCode", "holdsRow"}
  BY DEF CodeKnown, RowKnown

LEMMA CodeMoves ==
    ASSUME IInv, NEW r \in Requests,
           BurnCode(r) \/ \E k \in Codes, proof \in BOOLEAN : BeginExchange(r, k, proof)
    PROVE  IInv'
  <1>1. TypeOK /\ CodeKnown(r)
    BY DEF IInv, CodeInv
  <1>2. {"invalid", "holdsCode", "gotCode"} \subseteq Positions
    BY DEF Positions
  <1>3. CASE BurnCode(r)
    <2>1. UNCHANGED <<codes, rows, reset, resets, spent, burned, revoked>> /\ req[r].pc = "gotCode"
          /\ req[r].arg \notin HeldCodes
      BY <1>3 DEF BurnCode
    <2>2. CASE codes[req[r].arg].st = "unused"
      <3>1. GoTo(r, "holdsCode")
        BY <1>3, <2>2 DEF BurnCode
      <3>2. /\ req' \in [Requests -> ReqRec] /\ Others(r) /\ req'[r].pc = "holdsCode"
            /\ req'[r].arg = req[r].arg
        BY <1>1, <1>2, <3>1, Went
      <3>3. CodeKnown(r)' /\ RowKnown(r)'
        BY <1>1, <2>1, <2>2, <3>2 DEF CodeKnown, RowKnown
      <3> QED BY <2>1, <3>2, <3>3, Moves
    <2>3. CASE codes[req[r].arg].st # "unused"
      <3>1. GoTo(r, "invalid")
        BY <1>3, <2>3 DEF BurnCode
      <3> QED BY <1>1, <1>2, <2>1, <3>1, Went, Over, Moves
    <2> QED BY <2>2, <2>3
  <1>4. ASSUME NEW k \in Codes, NEW proof \in BOOLEAN, BeginExchange(r, k, proof) PROVE IInv'
    <2>1. UNCHANGED <<codes, rows, reset, resets, spent, burned, revoked>> /\ req[r].pc = "idle"
      BY <1>4 DEF BeginExchange
    <2>2. CASE GoTo(r, "invalid")
      BY <1>1, <1>2, <2>1, <2>2, Went, Over, Moves
    <2>3. CASE req' = [req EXCEPT ![r].pc = "gotCode", ![r].arg = k]
      <3>1. [req[r] EXCEPT !.pc = "gotCode", !.arg = k] \in ReqRec
        <4>1. req[r] \in ReqRec
          BY <1>1, Typed
        <4> QED BY <1>2, <4>1 DEF ReqRec
      <3>2. /\ req' \in [Requests -> ReqRec] /\ Others(r) /\ req'[r].pc = "gotCode"
            /\ req'[r].arg = k
        BY <1>1, <2>3, <3>1, Typed DEF Others, ReqRec
      <3>3. CodeKnown(r)' /\ RowKnown(r)'
        BY <3>2 DEF CodeKnown, RowKnown
      <3> QED BY <2>1, <3>2, <3>3, Moves
    <2> QED BY <1>4, <2>2, <2>3 DEF BeginExchange
  <1> QED BY <1>3, <1>4

LEMMA RowMoves ==
    ASSUME IInv, NEW r \in Requests,
           \/ ReadFamily(r) \/ ClaimRow(r)
           \/ \E t \in Requests, sameClient \in BOOLEAN : BeginRefresh(r, t, sameClient)
    PROVE  IInv'
  <1>1. TypeOK /\ RowKnown(r)
    BY DEF IInv, RowInv
  <1>2. {"invalid", "holdsRow", "gotRevoked", "gotToken", "burning"} \subseteq Positions
    BY DEF Positions
  <1>3. CASE ReadFamily(r)
    <2> DEFINE family == {i \in Stored : rows[i].fam = rows[req[r].row].fam}
    <2>1. UNCHANGED <<codes, rows, reset, resets, spent, burned, revoked>> /\ req[r].pc = "gotRevoked"
      BY <1>3 DEF ReadFamily
    <2>2. [req[r] EXCEPT !.pc = "burning", !.target = family] \in ReqRec
      <3>1. req[r] \in ReqRec /\ family \in SUBSET Requests
        BY <1>1, Typed DEF Stored
      <3> HIDE DEF family
      <3> QED BY <1>2, <3>1 DEF ReqRec
    <2>3. /\ req' \in [Requests -> ReqRec] /\ Others(r) /\ req'[r].pc = "burning"
          /\ req'[r].arg = req[r].arg /\ req'[r].row = req[r].row /\ req'[r].target = family
      BY <1>1, <1>3, <2>2, Typed DEF ReadFamily, Others, ReqRec
    <2>4. CodeKnown(r)' /\ RowKnown(r)'
      BY <1>1, <2>1, <2>3 DEF CodeKnown, RowKnown
    <2> QED BY <2>1, <2>3, <2>4, Moves
  <1>4. CASE ClaimRow(r)
    <2>1. UNCHANGED <<codes, rows, reset, resets, spent, burned, revoked>> /\ req[r].pc = "gotToken"
          /\ req[r].row \notin HeldRows
      BY <1>4 DEF ClaimRow
    <2>2. CASE rows[req[r].row].st = "live" /\ rows[req[r].row].tok = req[r].arg
      <3>1. GoTo(r, "holdsRow")
        BY <1>4, <2>2 DEF ClaimRow
      <3>2. /\ req' \in [Requests -> ReqRec] /\ Others(r) /\ req'[r].pc = "holdsRow"
            /\ req'[r].arg = req[r].arg /\ req'[r].row = req[r].row
        BY <1>1, <1>2, <3>1, Went
      <3>3. CodeKnown(r)' /\ RowKnown(r)'
        BY <1>1, <2>1, <2>2, <3>2 DEF CodeKnown, RowKnown
      <3> QED BY <2>1, <3>2, <3>3, Moves
    <2>3. CASE ~(rows[req[r].row].st = "live" /\ rows[req[r].row].tok = req[r].arg)
      <3>1. GoTo(r, "invalid")
        BY <1>4, <2>3 DEF ClaimRow
      <3> QED BY <1>1, <1>2, <2>1, <3>1, Went, Over, Moves
    <2> QED BY <2>2, <2>3
  <1>5. ASSUME NEW t \in Requests, NEW sameClient \in BOOLEAN, BeginRefresh(r, t, sameClient)
        PROVE  IInv'
    <2>1. UNCHANGED <<codes, rows, reset, resets, spent, burned, revoked>> /\ req[r].pc = "idle"
      BY <1>5 DEF BeginRefresh
    <2>2. CASE GoTo(r, "invalid")
      BY <1>1, <1>2, <2>1, <2>2, Went, Over, Moves
    <2>3. ASSUME NEW i \in Stored, NEW pc \in {"gotRevoked", "invalid", "gotToken"},
                 req' = [req EXCEPT ![r].arg = t, ![r].row = i, ![r].pc = pc]
          PROVE  IInv'
      <3>1. [req[r] EXCEPT !.arg = t, !.row = i, !.pc = pc] \in ReqRec
        <4>1. req[r] \in ReqRec /\ i \in Requests
          BY <1>1, Typed DEF Stored
        <4> QED BY <1>2, <4>1 DEF ReqRec
      <3>2. /\ req' \in [Requests -> ReqRec] /\ Others(r) /\ req'[r].pc = pc
            /\ req'[r].arg = t /\ req'[r].row = i
        BY <1>1, <2>3, <3>1, Typed DEF Others, ReqRec
      <3>3. i \in Requests /\ rows[i].st # "absent"
        BY DEF Stored
      <3>4. CodeKnown(r)' /\ RowKnown(r)'
        BY <2>1, <3>2, <3>3 DEF CodeKnown, RowKnown
      <3> QED BY <2>1, <3>2, <3>4, Moves
    <2> QED BY <1>5, <2>2, <2>3 DEF BeginRefresh
  <1> QED BY <1>3, <1>4, <1>5

LEMMA FailMoves == ASSUME IInv, NEW r \in Requests, Fail(r) PROVE IInv'
  <1>1. UNCHANGED <<codes, rows, reset, resets, spent, burned, revoked>>
        /\ req[r].pc # "granted" /\ GoTo(r, "failed")
    BY DEF Fail, InProgress
  <1>2. TypeOK /\ "failed" \in Positions
    BY DEF IInv, Positions
  <1> QED BY <1>1, <1>2, Went, Over, Moves

-----------------------------------------------------------------------------
(* Steps on the codes.                                                     *)

\* A step on the codes that keeps them spent as they were, and the held ones
\* unused, keeps the invariant.
LEMMA CodesMove ==
    ASSUME IInv, UNCHANGED <<rows, req, reset, resets, spent, burned, revoked>>,
           codes' \in [Codes -> CodeRec],
           \A k \in Codes : CodeSpent(k)',
           \A r \in HoldsCodes : codes'[req[r].arg].st = "unused"
    PROVE  IInv'
  <1>1. TypeOK' /\ HeldAlone' /\ IsFiniteSet(Minted)'
    BY DEF IInv, TypeOK, CodeRec, HeldAlone, HoldsCodes, HoldsRows, Minted
  <1>2. CodeInv'
    BY DEF IInv, CodeInv, CodeKnown, HoldsCodes
  <1>3. RowInv'
    BY DEF IInv, RowInv, RowKnown, RowNamed, Ungranted, LiveApart, TokensOnce, SessionKept,
           ResetKnown, RevokedEnds, Live, LiveIn, Opened, RowsOf, Minted
  <1> QED BY <1>1, <1>2, <1>3 DEF IInv

LEMMA CodeSteps ==
    ASSUME IInv, NEW k \in Codes, VerifyLogin(k) \/ IssueCode(k) \/ ExpireCode(k)
    PROVE  IInv'
  <1>1. TypeOK /\ codes \in [Codes -> CodeRec] /\ \A j \in Codes : CodeSpent(j)
    BY Typed DEF IInv, CodeInv
  <1>2. \A r \in HoldsCodes : req[r].arg \in Codes /\ codes[req[r].arg].st = "unused"
                              /\ req[r].arg \in HeldCodes
    BY DEF IInv, CodeInv, CodeKnown, HoldsCodes, HeldCodes
  <1>3. {"verified", "unused", "deleted"} \subseteq CodeStates /\ resets \in Nat
    BY <1>1 DEF CodeStates, TypeOK
  <1>4. CASE VerifyLogin(k)
    <2>1. /\ codes[k].st = "new" /\ codes' = [codes EXCEPT ![k].st = "verified", ![k].login = resets]
          /\ UNCHANGED <<rows, req, reset, resets, spent, burned, revoked>>
      BY <1>4 DEF VerifyLogin
    <2>2. [codes[k] EXCEPT !.st = "verified", !.login = resets] \in CodeRec
      BY <1>1, <1>3 DEF CodeRec
    <2>3. /\ codes' \in [Codes -> CodeRec] /\ codes'[k].st = "verified"
          /\ \A j \in Codes \ {k} : codes'[j] = codes[j]
      BY <1>1, <2>1, <2>2 DEF CodeRec
    <2>4. \A j \in Codes : CodeSpent(j)'
      BY <1>1, <2>1, <2>3 DEF CodeSpent
    <2>5. \A r \in HoldsCodes : codes'[req[r].arg].st = "unused"
      BY <1>2, <2>1, <2>3
    <2> QED BY <2>1, <2>3, <2>4, <2>5, CodesMove
  <1>5. CASE IssueCode(k)
    <2>1. /\ codes[k].st = "verified" /\ \A h \in HeldCodes : ~codes[h].expired
          /\ UNCHANGED <<rows, req, reset, resets, spent, burned, revoked>>
      BY <1>5 DEF IssueCode
    <2>2. \A j \in Codes : /\ [codes[j] EXCEPT !.st = "unused"] \in CodeRec
                           /\ [codes[j] EXCEPT !.st = "deleted"] \in CodeRec
      BY <1>1, <1>3 DEF CodeRec
    <2>3. \A j \in Codes : codes'[j] = IF j = k THEN [codes[k] EXCEPT !.st = "unused"]
                                       ELSE IF \/ codes[j].st = "used"
                                               \/ codes[j].st = "unused" /\ codes[j].expired
                                       THEN [codes[j] EXCEPT !.st = "deleted"] ELSE codes[j]
      BY <1>5 DEF IssueCode
    <2>4. codes' \in [Codes -> CodeRec]
      BY <1>1, <1>5, <2>2 DEF IssueCode
    <2>5. \A j \in Codes : codes'[j].st = IF j = k THEN "unused"
                                          ELSE IF \/ codes[j].st = "used"
                                                  \/ codes[j].st = "unused" /\ codes[j].expired
                                          THEN "deleted" ELSE codes[j].st
      BY <1>1, <2>3 DEF CodeRec
    <2>6. \A j \in Codes : spent[j] \in Nat
      BY <1>1, Typed
    <2>7. \A j \in Codes : CodeSpent(j)'
      BY <1>1, <2>1, <2>5, <2>6 DEF CodeSpent
    <2>8. \A r \in HoldsCodes : codes'[req[r].arg].st = "unused"
      BY <1>2, <2>1, <2>5
    <2> QED BY <2>1, <2>4, <2>7, <2>8, CodesMove
  <1>6. CASE ExpireCode(k)
    <2>1. /\ codes' = [codes EXCEPT ![k].expired = TRUE]
          /\ UNCHANGED <<rows, req, reset, resets, spent, burned, revoked>>
      BY <1>6 DEF ExpireCode
    <2>2. [codes[k] EXCEPT !.expired = TRUE] \in CodeRec
      BY <1>1 DEF CodeRec
    <2>3. codes' \in [Codes -> CodeRec] /\ \A j \in Codes : codes'[j].st = codes[j].st
      BY <1>1, <2>1, <2>2 DEF CodeRec
    <2>4. \A j \in Codes : CodeSpent(j)'
      BY <1>1, <2>1, <2>3 DEF CodeSpent
    <2>5. \A r \in HoldsCodes : codes'[req[r].arg].st = "unused"
      BY <1>2, <2>3
    <2> QED BY <2>1, <2>3, <2>4, <2>5, CodesMove
  <1> QED BY <1>4, <1>5, <1>6

-----------------------------------------------------------------------------
(* Steps that end rows: a burn, a reset, time.                             *)

\* The rows keep their family and their token, and only live rows of the target
\* end.
Ended(target) ==
    \A i \in Requests : /\ rows'[i].fam = rows[i].fam /\ rows'[i].tok = rows[i].tok
                        /\ rows'[i].st = IF i \in target /\ rows[i].st = "live"
                                         THEN "revoked" ELSE rows[i].st

\* Ending rows that no request holds keeps the invariant, so long as their
\* families are told ended by a burn or by a reset that found them.
LEMMA RowsEnd ==
    ASSUME IInv, NEW target \in SUBSET Requests, target \cap HeldRows = {},
           rows' \in [Requests -> RowRec], Ended(target), UNCHANGED <<codes, spent>>,
           req' \in [Requests -> ReqRec],
           \A s \in Requests : req'[s] = req[s] \/ (req[s].pc # "granted" /\ req'[s].pc = "invalid"),
           reset' \in ResetRec, resets' \in Nat, \A i \in reset'.target : rows[i].st # "absent",
           burned \subseteq burned', burned' \subseteq Requests,
           revoked \subseteq revoked', revoked' \subseteq Minted,
           \A i \in target \cap Live : rows[i].fam \in burned' \cup revoked',
           \A f \in revoked' \ revoked : \E i \in target : rows[i].fam = f
    PROVE  IInv'
  <1>1. TypeOK'
    BY DEF IInv, TypeOK, CodeRec, RowRec, ReqRec, ResetRec, Minted
  <1>2. Minted' = Minted
    BY DEF Minted
  <1>3. HoldsCodes' \subseteq HoldsCodes /\ HoldsRows' \subseteq HoldsRows
        /\ \A s \in HoldsCodes' \cup HoldsRows' : req'[s] = req[s]
    BY DEF HoldsCodes, HoldsRows
  <1>4. HeldAlone'
    BY <1>3 DEF IInv, HeldAlone
  <1>5. CodeInv'
    <2>1. \A s \in Requests : CodeKnown(s)'
      BY DEF IInv, CodeInv, CodeKnown
    <2>2. \A k \in Codes : CodeSpent(k)'
      BY DEF IInv, CodeInv, CodeSpent
    <2> QED BY <2>1, <2>2 DEF CodeInv
  <1>6. ASSUME NEW s \in Requests PROVE RowKnown(s)'
    <2>1. CASE req'[s].pc = "invalid"
      BY <2>1 DEF RowKnown
    <2>2. CASE req'[s] = req[s]
      <3>1. RowKnown(s)
        BY DEF IInv, RowInv
      <3>2. req[s].pc = "holdsRow" => req[s].row \notin target
        BY DEF HeldRows
      <3>3. req[s].target \subseteq Requests
        BY <2>2 DEF ReqRec
      <3>4. req[s].pc = "burning" => \A i \in req[s].target : rows'[i].fam = rows'[req[s].row].fam
        BY <3>1, <3>3 DEF RowKnown, Ended
      <3> QED BY <2>2, <3>1, <3>2, <3>4 DEF RowKnown, Ended
    <2> QED BY <2>1, <2>2
  <1>7. \A s \in Requests : RowNamed(s)' /\ Ungranted(s)'
    BY <1>2 DEF IInv, RowInv, RowNamed, Ungranted, Ended
  <1>8. /\ Live' = Live \ target
        /\ \A i \in Requests : rows'[i].fam = rows[i].fam /\ rows'[i].tok = rows[i].tok
    BY DEF Live, Ended
  <1>9. Opened' = Opened /\ \A f : RowsOf(f)' = RowsOf(f)
    BY <1>8 DEF Opened, RowsOf
  <1>10. LiveApart'
    BY <1>8 DEF IInv, RowInv, LiveApart, Live
  <1>11. SessionKept'
    <2> SUFFICES ASSUME NEW f \in Opened \ (burned' \cup revoked') PROVE LiveIn(f)' # {}
      BY <1>9 DEF SessionKept
    <2>1. PICK i \in Live : rows[i].fam = f
      BY DEF IInv, RowInv, SessionKept, LiveIn
    <2>2. i \in Live' /\ rows'[i].fam = f
      BY <1>8, <2>1 DEF Live
    <2> QED BY <2>2 DEF LiveIn
  <1>12. RevokedEnds'
    <2> SUFFICES ASSUME NEW f \in revoked', NEW i \in Requests, RowsOf(f) = {i} PROVE i \notin Live'
      BY <1>9 DEF RevokedEnds
    <2>1. CASE f \in revoked
      BY <1>8, <2>1 DEF IInv, RowInv, RevokedEnds
    <2>2. CASE f \notin revoked
      <3>1. PICK j \in target : rows[j].fam = f
        BY <2>2
      <3>2. j = i
        BY <3>1 DEF RowsOf
      <3> QED BY <1>8, <3>1, <3>2
    <2> QED BY <2>1, <2>2
  <1>13. ResetKnown'
    <2>1. \A i \in reset'.target : i \in Requests /\ rows'[i].st # "absent"
      BY DEF Ended, ResetRec
    <2> QED BY <1>2, <2>1 DEF ResetKnown
  <1>14. TokensOnce'
    BY DEF IInv, RowInv, TokensOnce
  <1>15. IsFiniteSet(Minted)'
    BY <1>2 DEF IInv
  <1> QED BY <1>1, <1>4, <1>5, <1>6, <1>7, <1>10, <1>11, <1>12, <1>13, <1>14, <1>15 DEF IInv, RowInv

\* What Revoke does to the rows.
LEMMA Revoked ==
    ASSUME TypeOK, NEW target \in SUBSET Requests, rows' = Revoke(target)
    PROVE  rows' \in [Requests -> RowRec] /\ Ended(target)
  <1>1. rows \in [Requests -> RowRec]
    BY Typed
  <1>2. \A i \in Requests : rows'[i] = IF i \in target /\ rows[i].st = "live"
                                       THEN [rows[i] EXCEPT !.st = "revoked"] ELSE rows[i]
    BY DEF Revoke
  <1>3. \A i \in Requests : [rows[i] EXCEPT !.st = "revoked"] \in RowRec
    BY <1>1 DEF RowRec, RowStates
  <1>4. rows' \in [Requests -> RowRec]
    BY <1>1, <1>3 DEF Revoke
  <1>5. \A row \in RowRec : LET n == [row EXCEPT !.st = "revoked"]
                            IN n.fam = row.fam /\ n.tok = row.tok /\ n.st = "revoked"
    BY DEF RowRec
  <1>6. Ended(target)
    BY <1>1, <1>2, <1>5 DEF Ended
  <1> QED BY <1>4, <1>6

LEMMA EndSteps ==
    ASSUME IInv,
           \/ ReadLiveRows \/ CommitReset
           \/ \E r \in Requests : BurnFamily(r) \/ ExpireRow(r)
    PROVE  IInv'
  <1>1. TypeOK /\ ResetKnown /\ \A i \in Requests : RowNamed(i) /\ RowKnown(i)
    BY DEF IInv, RowInv
  <1>2. /\ rows \in [Requests -> RowRec] /\ req \in [Requests -> ReqRec] /\ reset \in ResetRec
        /\ resets \in Nat /\ burned \subseteq Requests /\ revoked \subseteq Minted
        /\ Minted \subseteq Requests
    BY <1>1, Typed DEF TypeOK, ResetKnown, Minted
  <1>3. CASE ReadLiveRows
    <2>1. /\ UNCHANGED <<codes, rows, req, resets, spent, burned, revoked>>
          /\ reset' = [pc |-> "revoking", target |-> Live]
      BY <1>3 DEF ReadLiveRows
    <2>2. reset' \in ResetRec /\ \A i \in reset'.target : rows[i].st # "absent"
      BY <2>1 DEF ResetRec, Live
    <2>3. Ended({})
      BY <2>1 DEF Ended
    <2> QED BY <1>2, <2>1, <2>2, <2>3, RowsEnd
  <1>4. CASE CommitReset
    <2>1. /\ UNCHANGED <<codes, req, spent, burned>> /\ reset.target \cap HeldRows = {}
          /\ rows' = Revoke(reset.target)
          /\ revoked' = revoked \cup {rows[i].fam : i \in reset.target}
          /\ resets' = resets + 1 /\ reset' = [pc |-> "idle", target |-> {}]
      BY <1>4 DEF CommitReset
    <2>2. reset.target \in SUBSET Requests /\ reset' \in ResetRec /\ reset'.target = {} /\ resets' \in Nat
      BY <1>2, <2>1 DEF ResetRec
    <2>3. rows' \in [Requests -> RowRec] /\ Ended(reset.target)
      BY <1>1, <2>1, <2>2, Revoked
    <2>4. revoked' \subseteq Minted
      BY <1>1, <1>2, <2>1, <2>2 DEF ResetKnown, RowNamed
    <2>5. /\ \A i \in reset.target \cap Live : rows[i].fam \in burned' \cup revoked'
          /\ \A f \in revoked' \ revoked : \E i \in reset.target : rows[i].fam = f
      BY <2>1
    <2> QED BY <1>2, <2>1, <2>2, <2>3, <2>4, <2>5, RowsEnd
  <1>5. ASSUME NEW r \in Requests, BurnFamily(r) PROVE IInv'
    <2>1. /\ UNCHANGED <<codes, reset, resets, spent, revoked>> /\ req[r].pc = "burning"
          /\ req[r].target \cap HeldRows = {} /\ rows' = Revoke(req[r].target)
          /\ burned' = burned \cup {rows[req[r].row].fam} /\ GoTo(r, "invalid")
      BY <1>5 DEF BurnFamily
    <2>2. req[r].target \in SUBSET Requests
      BY <1>2 DEF ReqRec
    <2>3. rows' \in [Requests -> RowRec] /\ Ended(req[r].target)
      BY <1>1, <2>1, <2>2, Revoked
    <2>4. /\ \A i \in req[r].target : rows[i].fam = rows[req[r].row].fam
          /\ rows[req[r].row].fam \in Minted
      BY <1>1, <2>1 DEF RowKnown, RowNamed
    <2>5. burned' \subseteq Requests
      BY <1>2, <2>1, <2>4
    <2>6. /\ req' \in [Requests -> ReqRec]
          /\ \A s \in Requests : req'[s] = req[s] \/ (req[s].pc # "granted" /\ req'[s].pc = "invalid")
      BY <1>1, <2>1, Went DEF Positions, Others
    <2>7. \A i \in reset'.target : rows[i].st # "absent"
      BY <1>1, <2>1 DEF ResetKnown
    <2> QED BY <1>2, <2>1, <2>2, <2>3, <2>4, <2>5, <2>6, <2>7, RowsEnd
  <1>6. ASSUME NEW j \in Requests, ExpireRow(j) PROVE IInv'
    <2>1. /\ UNCHANGED <<codes, req, reset, resets, spent, burned, revoked>>
          /\ rows' = [rows EXCEPT ![j].expired = TRUE]
      BY <1>6 DEF ExpireRow
    <2>2. [rows[j] EXCEPT !.expired = TRUE] \in RowRec
      BY <1>2 DEF RowRec
    <2>3. rows' \in [Requests -> RowRec] /\ Ended({})
      BY <1>2, <2>1, <2>2 DEF Ended, RowRec
    <2>4. \A i \in reset'.target : rows[i].st # "absent"
      BY <1>1, <2>1 DEF ResetKnown
    <2> QED BY <1>2, <2>1, <2>3, <2>4, RowsEnd
  <1> QED BY <1>3, <1>4, <1>5, <1>6

-----------------------------------------------------------------------------
(* Grants.                                                                 *)

\* What any grant does to the requests.
LEMMA Granted ==
    ASSUME IInv, NEW r \in Requests, req[r].pc # "granted", GoTo(r, "granted")
    PROVE  /\ req' \in [Requests -> ReqRec] /\ Others(r) /\ req'[r].pc = "granted"
           /\ r \notin Minted /\ Minted' = Minted \cup {r} /\ IsFiniteSet(Minted)'
           /\ HeldAlone' /\ CodeKnown(r)' /\ RowKnown(r)'
  <1>1. req' \in [Requests -> ReqRec] /\ Others(r) /\ req'[r].pc = "granted"
    BY Went DEF IInv, Positions
  <1>2. r \notin Minted /\ Minted' = Minted \cup {r}
    BY <1>1 DEF Minted, Others
  <1>3. IsFiniteSet(Minted \cup {r})
    BY FS_AddElement DEF IInv
  <1>4. HeldAlone'
    BY <1>1 DEF IInv, HeldAlone, HoldsCodes, HoldsRows, Others
  <1>5. CodeKnown(r)' /\ RowKnown(r)'
    BY <1>1 DEF CodeKnown, RowKnown
  <1> QED BY <1>1, <1>2, <1>3, <1>4, <1>5

\* What is known of everything a request may have been granted.
LEMMA Known ==
    ASSUME IInv
    PROVE  /\ TypeOK /\ Minted \subseteq Requests /\ NoOne \notin Requests
           /\ \A x \in Requests : x \notin Codes
           /\ \A s \in Requests : /\ CodeKnown(s) /\ RowKnown(s) /\ RowNamed(s) /\ Ungranted(s)
                                  /\ spent[s] \in Nat
           /\ \A k \in Codes : CodeSpent(k) /\ spent[k] \in Nat
           /\ revoked \subseteq Minted /\ reset.target \subseteq Requests
           /\ \A i \in reset.target : rows[i].st # "absent"
           /\ \A s \in Requests : req[s].target \subseteq Requests
  BY NamesAssumption, Typed
     DEF IInv, CodeInv, RowInv, ResetKnown, Minted, ResetRec, ReqRec

LEMMA ExchangeStep == ASSUME IInv, NEW r \in Requests, CommitExchange(r) PROVE IInv'
  <1> DEFINE k == req[r].arg
  <1> USE Known
  <1>1. /\ req[r].pc = "holdsCode" /\ codes' = [codes EXCEPT ![k].st = "used"]
        /\ rows' = [rows EXCEPT ![r] = [st |-> "live", fam |-> r, tok |-> r,
                                        login |-> codes[k].login, expired |-> FALSE]]
        /\ GoTo(r, "granted") /\ spent' = [spent EXCEPT ![k] = @ + 1]
        /\ UNCHANGED <<reset, resets, burned, revoked>>
    BY DEF CommitExchange
  <1>2. /\ req' \in [Requests -> ReqRec] /\ Others(r) /\ req'[r].pc = "granted"
        /\ r \notin Minted /\ Minted' = Minted \cup {r} /\ IsFiniteSet(Minted)'
        /\ HeldAlone' /\ CodeKnown(r)' /\ RowKnown(r)'
    BY <1>1, Granted
  <1>3. k \in Codes /\ codes[k].st = "unused" /\ spent[k] = 0 /\ k \notin Requests
    BY <1>1 DEF CodeKnown, CodeSpent
  <1>4. rows[r].st = "absent" /\ rows[r].fam = NoOne /\ spent[r] = 0
    BY <1>2 DEF Ungranted, RowNamed
  <1>5. /\ codes' \in [Codes -> CodeRec] /\ codes'[k].st = "used"
        /\ \A j \in Codes \ {k} : codes'[j] = codes[j]
    <2>1. codes \in [Codes -> CodeRec]
      BY Typed
    <2>2. [codes[k] EXCEPT !.st = "used"] \in CodeRec /\ [codes[k] EXCEPT !.st = "used"].st = "used"
      BY <1>3, <2>1 DEF CodeRec, CodeStates
    <2> QED BY <1>1, <1>3, <2>1, <2>2
  <1>6. /\ rows' \in [Requests -> RowRec] /\ rows'[r].st = "live" /\ rows'[r].fam = r /\ rows'[r].tok = r
        /\ \A i \in Requests \ {r} : rows'[i] = rows[i]
    <2>1. rows \in [Requests -> RowRec] /\ codes[k].login \in Nat
      BY <1>3, Typed DEF CodeRec
    <2>2. [st |-> "live", fam |-> r, tok |-> r, login |-> codes[k].login, expired |-> FALSE] \in RowRec
      BY <2>1 DEF RowRec, RowStates
    <2> QED BY <1>1, <2>1, <2>2
  <1>7. /\ spent' \in [Codes \cup Requests -> Nat] /\ spent'[k] = 1
        /\ \A x \in (Codes \cup Requests) \ {k} : spent'[x] = spent[x]
    BY <1>1, <1>3, Typed
  <1> HIDE DEF k
  <1>8. TypeOK'
    BY <1>1, <1>2, <1>5, <1>6, <1>7 DEF TypeOK, CodeRec, RowRec, ReqRec
  <1>9. CodeInv'
    <2>1. ASSUME NEW s \in Requests \ {r} PROVE CodeKnown(s)'
      <3>1. req'[s] = req[s]
        BY <1>2 DEF Others
      <3>2. req[s].pc = "holdsCode" => req[s].arg # k
        BY <1>1 DEF IInv, HeldAlone, HoldsCodes, k
      <3> QED BY <1>5, <3>1, <3>2 DEF CodeKnown
    <2>2. \A j \in Codes : CodeSpent(j)'
      BY <1>5, <1>7 DEF CodeSpent
    <2> QED BY <1>2, <2>1, <2>2 DEF CodeInv
  <1>10. ASSUME NEW s \in Requests PROVE RowKnown(s)' /\ RowNamed(s)' /\ Ungranted(s)'
    <2>1. CASE s = r
      BY <1>2, <1>6, <2>1 DEF RowNamed, Ungranted
    <2>2. CASE s # r
      <3>1. req'[s] = req[s] /\ rows'[s] = rows[s] /\ spent'[s] = spent[s]
        BY <1>2, <1>3, <1>6, <1>7, <2>2 DEF Others
      <3>2. RowNamed(s)' /\ Ungranted(s)'
        BY <1>2, <2>2, <3>1 DEF RowNamed, Ungranted
      <3>3. \A i \in Requests : rows[i].st # "absent" => rows'[i] = rows[i]
        BY <1>4, <1>6
      <3>4. CASE req[s].pc = "burning"
        <4>1. /\ req[s].row \in Requests /\ rows[req[s].row].st # "absent"
              /\ \A i \in req[s].target : i \in Requests /\ rows[i].fam = rows[req[s].row].fam
          BY <3>4 DEF RowKnown
        <4>2. rows[req[s].row].fam \in Requests
          BY <4>1 DEF RowNamed
        <4>3. \A i \in req[s].target : rows[i].st # "absent"
          BY <4>1, <4>2 DEF RowNamed
        <4> QED BY <3>1, <3>2, <3>3, <3>4, <4>1, <4>3 DEF RowKnown
      <3>5. CASE req[s].pc # "burning"
        BY <3>1, <3>2, <3>3, <3>5 DEF RowKnown
      <3> QED BY <3>4, <3>5
    <2> QED BY <2>1, <2>2
  <1>11. Live' = Live \cup {r} /\ r \notin Live
    BY <1>4, <1>6 DEF Live
  <1>12. \A i \in Live : /\ i \in Requests /\ rows'[i] = rows[i]
                         /\ rows[i].fam \in Minted /\ rows[i].tok \in Minted
    BY <1>6, <1>11 DEF Live, RowNamed
  <1>13. LiveApart' /\ TokensOnce'
    <2>1. \A i, j \in Live' : rows'[i].fam = rows'[j].fam \/ rows'[i].tok = rows'[j].tok => i = j
      BY <1>2, <1>6, <1>11, <1>12 DEF IInv, RowInv, LiveApart
    <2>2. \A i \in Live' : spent'[rows'[i].tok] = 0
      BY <1>3, <1>4, <1>6, <1>7, <1>11, <1>12 DEF IInv, RowInv, LiveApart
    <2>3. TokensOnce'
      BY <1>3, <1>7 DEF IInv, RowInv, TokensOnce
    <2> QED BY <2>1, <2>2, <2>3 DEF LiveApart
  <1>14. SessionKept'
    <2> SUFFICES ASSUME NEW f \in Opened' \ (burned \cup revoked) PROVE LiveIn(f)' # {}
      BY <1>1 DEF SessionKept
    <2>1. CASE f = r
      <3>1. r \in LiveIn(f)'
        BY <1>6, <1>11, <2>1 DEF LiveIn
      <3> QED BY <3>1
    <2>2. CASE f # r
      <3>1. f \in Opened
        BY <1>4, <1>6, <2>2 DEF Opened
      <3>2. PICK i \in Live : rows[i].fam = f
        BY <3>1 DEF IInv, RowInv, SessionKept, LiveIn
      <3>3. i \in LiveIn(f)'
        BY <1>11, <1>12, <3>2 DEF LiveIn
      <3> QED BY <3>3
    <2> QED BY <2>1, <2>2
  <1>15. ResetKnown' /\ RevokedEnds'
    <2>1. ResetKnown'
      BY <1>1, <1>2, <1>4, <1>6 DEF ResetKnown
    <2>2. ASSUME NEW f \in revoked, NEW i \in Requests, RowsOf(f)' = {i} PROVE i \notin Live'
      <3>1. f # r /\ f # NoOne
        BY <1>2
      <3>2. RowsOf(f) = {i} /\ i # r
        BY <1>4, <1>6, <2>2, <3>1 DEF RowsOf
      <3> QED BY <1>11, <3>2 DEF IInv, RowInv, RevokedEnds
    <2> QED BY <1>1, <2>1, <2>2 DEF RevokedEnds
  <1> QED BY <1>2, <1>8, <1>9, <1>10, <1>13, <1>14, <1>15 DEF IInv, RowInv

\* What either storage mode does to the rows: one row, the request's own or the
\* presented one, is live with the new token, the presented one is not live in any
\* other guise, and nobody else's standing, family or token changes.
Renewed(r, n) ==
    /\ n \in {r, req[r].row}
    /\ rows'[n].st = "live" /\ rows'[n].tok = r /\ rows'[n].fam = rows[req[r].row].fam
    /\ \A j \in Requests \ {n} :
          /\ rows'[j].fam = rows[j].fam /\ rows'[j].tok = rows[j].tok
          /\ rows'[j].st = "absent" <=> rows[j].st = "absent"
          /\ rows'[j].st = "live" <=> rows[j].st = "live" /\ j # req[r].row

LEMMA SuccessorRenews ==
    ASSUME IInv, NEW r \in Requests, req[r].pc = "holdsRow", NEW mode \in Modes,
           rows' = Successor(r, mode)
    PROVE  rows' \in [Requests -> RowRec] /\ \E n \in Requests : Renewed(r, n)
  <1> DEFINE i == req[r].row
  <1>1. /\ rows \in [Requests -> RowRec] /\ i \in Requests /\ rows[i].st = "live"
        /\ rows[r].st = "absent"
    BY Known, Typed DEF RowKnown, Ungranted, Minted
  <1>2. \A j \in Requests : rows[j] \in RowRec
    BY <1>1
  <1>3. \A row \in RowRec, st \in RowStates :
           LET n == [row EXCEPT !.st = st]
           IN  n \in RowRec /\ n.st = st /\ n.fam = row.fam /\ n.tok = row.tok
    BY DEF RowRec
  <1> HIDE DEF i
  <1>4. LET n == [rows[i] EXCEPT !.tok = r, !.expired = FALSE]
        IN  n \in RowRec /\ n.st = "live" /\ n.fam = rows[i].fam /\ n.tok = r
    <2>1. rows[i] \in RowRec /\ rows[i].st = "live"
      BY <1>1, <1>2
    <2> QED BY <2>1 DEF RowRec
  <1>5. {"revoked", "deleted"} \subseteq RowStates
    BY DEF RowStates
  <1>6. CASE mode = "rotate"
    <2>1. rows' = [j \in Requests |->
            IF j = r THEN [rows[i] EXCEPT !.tok = r, !.expired = FALSE]
            ELSE IF rows[j].st = "revoked" /\ rows[j].expired
            THEN [rows[j] EXCEPT !.st = "deleted"]
            ELSE IF j = i
            THEN [rows[i] EXCEPT !.st = IF rows[i].st = "live" /\ rows[i].expired
                                        THEN "deleted" ELSE "revoked"]
            ELSE rows[j]]
      BY <1>6 DEF Successor, i
    <2>2. ASSUME NEW j \in Requests \ {r}
          PROVE  /\ rows'[j] \in RowRec /\ rows'[j].fam = rows[j].fam /\ rows'[j].tok = rows[j].tok
                 /\ rows'[j].st = "absent" <=> rows[j].st = "absent"
                 /\ rows'[j].st = "live" <=> rows[j].st = "live" /\ j # i
      <3>1. CASE j = i
        <4>1. PICK st \in {"revoked", "deleted"} : rows'[j] = [rows[j] EXCEPT !.st = st]
          BY <1>1, <2>1, <3>1
        <4> QED BY <1>1, <1>2, <1>3, <1>5, <3>1, <4>1
      <3>2. CASE j # i /\ rows[j].st = "revoked" /\ rows[j].expired
        <4>1. rows'[j] = [rows[j] EXCEPT !.st = "deleted"]
          BY <2>1, <3>2
        <4> QED BY <1>2, <1>3, <1>5, <3>2, <4>1
      <3>3. CASE j # i /\ ~(rows[j].st = "revoked" /\ rows[j].expired)
        <4>1. rows'[j] = rows[j]
          BY <2>1, <3>3
        <4> QED BY <1>2, <3>3, <4>1
      <3> QED BY <3>1, <3>2, <3>3
    <2>3. rows'[r] = [rows[i] EXCEPT !.tok = r, !.expired = FALSE]
      BY <2>1
    <2>4. rows'[r] \in RowRec /\ rows'[r].st = "live" /\ rows'[r].tok = r /\ rows'[r].fam = rows[i].fam
      BY <1>4, <2>3
    <2>5. rows' \in [Requests -> RowRec]
      BY <2>1, <2>2, <2>4
    <2>6. Renewed(r, r)
      BY <2>2, <2>4 DEF Renewed, i
    <2> QED BY <2>5, <2>6
  <1>7. CASE mode # "rotate"
    <2>1. rows' = [rows EXCEPT ![i].tok = r, ![i].expired = FALSE]
      BY <1>7 DEF Successor, i
    <2>2. rows' = [rows EXCEPT ![i] = [rows[i] EXCEPT !.tok = r, !.expired = FALSE]]
      BY <1>1, <2>1
    <2>3. /\ rows'[i] = [rows[i] EXCEPT !.tok = r, !.expired = FALSE]
          /\ \A j \in Requests \ {i} : rows'[j] = rows[j]
      BY <1>1, <2>2
    <2>4. rows'[i] \in RowRec /\ rows'[i].st = "live" /\ rows'[i].tok = r /\ rows'[i].fam = rows[i].fam
      BY <1>4, <2>3
    <2>5. rows' \in [Requests -> RowRec]
      BY <1>1, <2>2, <2>4
    <2>6. Renewed(r, i)
      BY <2>3, <2>4 DEF Renewed, i
    <2> QED BY <1>1, <2>5, <2>6
  <1> QED BY <1>6, <1>7

LEMMA RenewalStep == ASSUME IInv, NEW r \in Requests, CommitRenewal(r) PROVE IInv'
  <1> DEFINE i == req[r].row
             t == req[r].arg
  <1> USE Known
  <1>1. /\ req[r].pc = "holdsRow" /\ GoTo(r, "granted") /\ spent' = [spent EXCEPT ![t] = @ + 1]
        /\ UNCHANGED <<codes, reset, resets, burned, revoked>>
    BY DEF CommitRenewal
  <1>2. /\ req' \in [Requests -> ReqRec] /\ Others(r) /\ req'[r].pc = "granted"
        /\ r \notin Minted /\ Minted' = Minted \cup {r} /\ IsFiniteSet(Minted)'
        /\ HeldAlone' /\ CodeKnown(r)' /\ RowKnown(r)'
    BY <1>1, Granted
  <1>3. rows' \in [Requests -> RowRec] /\ \E n \in Requests : Renewed(r, n)
    BY <1>1, SuccessorRenews DEF CommitRenewal
  <1>4. PICK n \in Requests : Renewed(r, n)
    BY <1>3
  <1>5. /\ i \in Live /\ i \in Requests /\ t \in Requests /\ rows[i].tok = t /\ i # r
        /\ rows[r].st = "absent" /\ rows[r].fam = NoOne /\ spent[r] = 0
        /\ t \in Minted /\ rows[i].fam \in Minted
    BY <1>1, <1>2 DEF RowKnown, Ungranted, RowNamed, Live
  <1>6. spent[t] = 0
    BY <1>5 DEF IInv, RowInv, LiveApart
  <1>7. /\ spent' \in [Codes \cup Requests -> Nat] /\ spent'[t] = 1
        /\ \A x \in (Codes \cup Requests) \ {t} : spent'[x] = spent[x]
    BY <1>1, <1>5, <1>6, Typed
  <1>8. /\ n \in {r, i} /\ rows'[n].st = "live" /\ rows'[n].tok = r /\ rows'[n].fam = rows[i].fam
        /\ \A j \in Requests \ {n} :
              /\ rows'[j].fam = rows[j].fam /\ rows'[j].tok = rows[j].tok
              /\ rows'[j].st = "absent" <=> rows[j].st = "absent"
              /\ rows'[j].st = "live" <=> rows[j].st = "live" /\ j # i
    BY <1>4 DEF Renewed
  <1> HIDE DEF i, t
  <1>9. TypeOK'
    BY <1>1, <1>2, <1>3, <1>7 DEF TypeOK, CodeRec, RowRec, ReqRec
  <1>10. CodeInv'
    <2>1. ASSUME NEW s \in Requests \ {r} PROVE CodeKnown(s)'
      BY <1>1, <1>2 DEF CodeKnown, Others
    <2>2. \A k \in Codes : CodeSpent(k)'
      BY <1>1, <1>5, <1>7 DEF CodeSpent
    <2> QED BY <1>2, <2>1, <2>2 DEF CodeInv
  <1>11. \A j \in Requests : rows[j].st # "absent" =>
            rows'[j].st # "absent" /\ rows'[j].fam = rows[j].fam
    BY <1>5, <1>8
  <1>12. ASSUME NEW s \in Requests \ {r} PROVE RowKnown(s)'
    <2>1. req'[s] = req[s]
      BY <1>2 DEF Others
    <2>2. CASE req[s].pc = "burning"
      <3>1. /\ req[s].arg \in Requests /\ req[s].row \in Requests /\ rows[req[s].row].st # "absent"
            /\ \A j \in req[s].target : j \in Requests /\ rows[j].fam = rows[req[s].row].fam
        BY <2>2 DEF RowKnown
      <3>2. rows[req[s].row].fam \in Requests
        BY <3>1 DEF RowNamed
      <3>3. \A j \in req[s].target : rows[j].st # "absent"
        BY <3>1, <3>2 DEF RowNamed
      <3> QED BY <1>11, <2>1, <2>2, <3>1, <3>3 DEF RowKnown
    <2>3. CASE req[s].pc = "holdsRow"
      <3>1. /\ req[s].arg \in Requests /\ req[s].row \in Requests
            /\ rows[req[s].row].st = "live" /\ rows[req[s].row].tok = req[s].arg
        BY <2>3 DEF RowKnown
      <3>2. req[s].row # i
        BY <1>1, <2>3 DEF IInv, HeldAlone, HoldsRows, i
      <3>3. req[s].row # n
        BY <1>5, <1>8, <3>1, <3>2
      <3> QED BY <1>8, <2>1, <2>3, <3>1, <3>2, <3>3 DEF RowKnown
    <2>4. CASE req[s].pc \notin {"burning", "holdsRow"}
      BY <1>11, <2>1, <2>4 DEF RowKnown
    <2> QED BY <2>2, <2>3, <2>4
  <1>13. ASSUME NEW s \in Requests PROVE RowNamed(s)' /\ Ungranted(s)'
    <2>1. RowNamed(s)'
      <3>1. CASE s = n
        BY <1>2, <1>5, <1>8, <3>1 DEF RowNamed
      <3>2. CASE s # n
        BY <1>2, <1>8, <3>2 DEF RowNamed
      <3> QED BY <3>1, <3>2
    <2>2. Ungranted(s)'
      BY <1>2, <1>5, <1>7, <1>8 DEF Ungranted, Live
    <2> QED BY <2>1, <2>2
  <1>14. Live' = (Live \ {i}) \cup {n}
    BY <1>5, <1>8 DEF Live
  <1>15. \A j \in Live \ {i} :
            /\ j \in Requests /\ j # n /\ rows'[j].fam = rows[j].fam /\ rows'[j].tok = rows[j].tok
            /\ rows[j].fam # rows[i].fam /\ rows[j].tok # t
            /\ rows[j].tok \in Minted /\ spent[rows[j].tok] = 0
    <2>1. ASSUME NEW j \in Live \ {i}
          PROVE  /\ j \in Requests /\ j # r /\ rows[j].tok \in Minted
                 /\ rows[j].fam # rows[i].fam /\ rows[j].tok # t /\ spent[rows[j].tok] = 0
      BY <1>5 DEF Live, RowNamed, IInv, RowInv, LiveApart
    <2> QED BY <1>8, <2>1
  <1>16. LiveApart'
    <2>1. \A j, q \in Live' : rows'[j].fam = rows'[q].fam \/ rows'[j].tok = rows'[q].tok => j = q
      <3>1. \A j, q \in Live \ {i} :
               rows[j].fam = rows[q].fam \/ rows[j].tok = rows[q].tok => j = q
        BY DEF IInv, RowInv, LiveApart
      <3>2. \A j \in Live \ {i} : rows'[j].fam # rows'[n].fam /\ rows'[j].tok # rows'[n].tok
        BY <1>2, <1>8, <1>15
      <3> QED BY <1>14, <1>15, <3>1, <3>2
    <2>2. \A j \in Live \ {i} : spent'[rows'[j].tok] = 0
      BY <1>7, <1>15
    <2>3. spent'[rows'[n].tok] = 0
      BY <1>2, <1>5, <1>7, <1>8
    <2> QED BY <1>14, <2>1, <2>2, <2>3 DEF LiveApart
  <1>17. TokensOnce'
    BY <1>7 DEF IInv, RowInv, TokensOnce
  <1>18. SessionKept'
    <2> SUFFICES ASSUME NEW f \in Opened' \ (burned \cup revoked) PROVE LiveIn(f)' # {}
      BY <1>1 DEF SessionKept
    <2>1. CASE f = rows[i].fam
      <3>1. n \in LiveIn(f)'
        BY <1>8, <1>14, <2>1 DEF LiveIn
      <3> QED BY <3>1
    <2>2. CASE f # rows[i].fam
      <3>1. f \in Opened
        BY <1>8, <2>2 DEF Opened
      <3>2. PICK j \in Live : rows[j].fam = f
        BY <3>1 DEF IInv, RowInv, SessionKept, LiveIn
      <3>3. j \in LiveIn(f)'
        BY <1>14, <1>15, <2>2, <3>2 DEF LiveIn
      <3> QED BY <3>3
    <2> QED BY <2>1, <2>2
  <1>19. ResetKnown'
    BY <1>1, <1>2, <1>11 DEF ResetKnown
  <1>20. RevokedEnds'
    <2> SUFFICES ASSUME NEW f \in revoked, NEW x \in Requests, RowsOf(f)' = {x} PROVE x \notin Live'
      BY <1>1 DEF RevokedEnds
    <2>1. f # NoOne
      OBVIOUS
    <2>2. CASE f # rows[i].fam
      <3>1. RowsOf(f)' = RowsOf(f)
        BY <1>5, <1>8, <2>1, <2>2 DEF RowsOf
      <3>2. x \notin Live
        BY <2>2, <3>1 DEF IInv, RowInv, RevokedEnds
      <3>3. rows'[x].fam = f
        BY DEF RowsOf
      <3> QED BY <1>8, <1>14, <2>2, <3>2, <3>3
    <2>3. CASE f = rows[i].fam
      <3>1. i \in RowsOf(f)' /\ n \in RowsOf(f)'
        BY <1>5, <1>8, <1>11, <2>3 DEF RowsOf, Live
      <3>2. x = i /\ n = i
        BY <3>1
      <3>3. RowsOf(f) = {i}
        BY <1>5, <1>8, <2>3, <3>2 DEF RowsOf
      <3> QED BY <1>5, <3>3 DEF IInv, RowInv, RevokedEnds
    <2> QED BY <2>2, <2>3
  <1> QED BY <1>2, <1>9, <1>10, <1>12, <1>13, <1>16, <1>17, <1>18, <1>19, <1>20 DEF IInv, RowInv

-----------------------------------------------------------------------------
LEMMA Stutter == ASSUME IInv, UNCHANGED vars PROVE IInv'
  <1>1. TypeOK' /\ HeldAlone' /\ IsFiniteSet(Minted)'
    BY DEF vars, IInv, TypeOK, HeldAlone, HoldsCodes, HoldsRows, Minted
  <1>2. CodeInv'
    BY DEF vars, IInv, CodeInv, CodeKnown, CodeSpent
  <1>3. RowInv'
    BY DEF vars, IInv, RowInv, RowKnown, RowNamed, Ungranted, LiveApart, TokensOnce, SessionKept,
           ResetKnown, RevokedEnds, Live, LiveIn, Opened, RowsOf, Minted
  <1> QED BY <1>1, <1>2, <1>3 DEF IInv

LEMMA InvStep == IInv /\ [Next]_vars => IInv'
  <1> SUFFICES ASSUME IInv, [Next]_vars PROVE IInv'
    OBVIOUS
  <1>1. ASSUME NEW k \in Codes, VerifyLogin(k) \/ IssueCode(k) \/ ExpireCode(k) PROVE IInv'
    BY <1>1, CodeSteps
  <1>2. ASSUME NEW r \in Requests, Begin(r) \/ Proceed(r) \/ Fail(r) \/ ExpireRow(r) PROVE IInv'
    BY <1>2, CodeMoves, RowMoves, FailMoves, EndSteps, ExchangeStep, RenewalStep DEF Begin, Proceed
  <1>3. CASE ReadLiveRows \/ CommitReset
    BY <1>3, EndSteps
  <1>4. CASE AllAnswered \/ UNCHANGED vars
    BY <1>4, Stutter DEF AllAnswered
  <1> QED BY <1>1, <1>2, <1>3, <1>4 DEF Next

\* Every variable keeps its type.
THEOREM TypeCorrect == Spec => []TypeOK
  <1>1. IInv => TypeOK
    BY DEF IInv
  <1> QED BY <1>1, InitInv, InvStep, PTL DEF Spec

\* Of any number of concurrent presentations of a code or a refresh token one at
\* most is answered with a token, and a code is used up by that one only
\* (_grant_authorization_code, _grant_refresh_token).
THEOREM GrantsAreSingle == Spec => []SpentOnce
  <1>1. ASSUME IInv PROVE SpentOnce
    <2>1. \A k \in Codes : spent[k] <= 1 /\ (codes[k].st = "used" => spent[k] = 1)
      BY <1>1 DEF IInv, CodeInv, CodeSpent
    <2>2. \A t \in Requests : spent[t] <= 1
      BY <1>1 DEF IInv, RowInv, TokensOnce
    <2> QED BY <2>1, <2>2 DEF SpentOnce
  <1> QED BY <1>1, InitInv, InvStep, PTL DEF Spec

\* A family has one live row until it is burned or revoked, and never two,
\* whichever request dies, loses its race or changes the storage mode meanwhile.
THEOREM SessionsAreSingle == Spec => []OneLiveRow
  <1>1. ASSUME IInv PROVE OneLiveRow
    <2> SUFFICES ASSUME NEW f \in Opened
                 PROVE  /\ Cardinality(LiveIn(f)) <= 1
                        /\ f \notin burned \cup revoked => Cardinality(LiveIn(f)) = 1
      BY DEF OneLiveRow
    <2>1. CASE LiveIn(f) = {}
      <3>1. f \in burned \cup revoked
        BY <1>1, <2>1 DEF IInv, RowInv, SessionKept
      <3>2. Cardinality(LiveIn(f)) = 0
        BY <2>1, FS_EmptySet
      <3> QED BY <3>1, <3>2
    <2>2. ASSUME NEW i \in LiveIn(f) PROVE Cardinality(LiveIn(f)) = 1
      <3>1. LiveIn(f) = {i}
        BY <1>1 DEF IInv, RowInv, LiveApart, LiveIn
      <3> QED BY <3>1, FS_Singleton
    <2> QED BY <2>1, <2>2
  <1> QED BY <1>1, InitInv, InvStep, PTL DEF Spec

\* A reset ends every session it found that has kept to one row, a renewal in
\* flight included (revoke_refresh_tokens_for).
THEOREM ResetEndsSessions == Spec => []ResetEndsOneRowSession
  <1>1. ASSUME IInv PROVE ResetEndsOneRowSession
    <2> SUFFICES ASSUME NEW f \in revoked, Cardinality(RowsOf(f)) = 1 PROVE LiveIn(f) = {}
      BY DEF ResetEndsOneRowSession
    <2>1. RowsOf(f) \subseteq Minted
      <3>1. f # NoOne
        BY <1>1, Known
      <3>2. \A i \in RowsOf(f) : i \in Requests /\ rows[i].st # "absent"
        BY <1>1, <3>1, Known DEF RowsOf, RowNamed
      <3> QED BY <1>1, <3>2, Known DEF Ungranted
    <2>2. IsFiniteSet(RowsOf(f))
      BY <1>1, <2>1, FS_Subset DEF IInv
    <2>3. PICK i : RowsOf(f) = {i}
      BY <2>2, FS_Singleton
    <2>4. i \notin Live
      BY <1>1, <2>3 DEF RowsOf, IInv, RowInv, RevokedEnds
    <2> QED BY <2>3, <2>4 DEF LiveIn, RowsOf, Live
  <1> QED BY <1>1, InitInv, InvStep, PTL DEF Spec

-----------------------------------------------------------------------------
(* The table implements the lineages.                                      *)

\* What a lineage can be renewed with: the token of its live row, if it has one.
UsableIsLive ==
    /\ \A i \in Live : rows[i].fam \in Minted /\ rows[i].tok \in Minted
                       /\ Usable[rows[i].fam] = rows[i].tok
    /\ \A f \in Requests : LiveIn(f) = {} => Usable[f] = IF f \in Opened THEN 0 ELSE NoOne

LEMMA UsableOfLive == IInv => UsableIsLive
  <1> SUFFICES ASSUME IInv PROVE UsableIsLive
    OBVIOUS
  <1>1. ASSUME NEW i \in Live
        PROVE  rows[i].fam \in Minted /\ rows[i].tok \in Minted /\ Usable[rows[i].fam] = rows[i].tok
    <2>1. i \in Requests /\ rows[i].fam \in Minted /\ rows[i].tok \in Minted
      BY Known DEF Live, RowNamed
    <2>2. LiveIn(rows[i].fam) = {i}
      BY DEF IInv, RowInv, LiveApart, LiveIn
    <2> QED BY <2>1, <2>2, Known DEF Usable
  <1>2. \A f \in Requests : LiveIn(f) = {} => Usable[f] = IF f \in Opened THEN 0 ELSE NoOne
    BY DEF Usable
  <1> QED BY <1>1, <1>2 DEF UsableIsLive

LEMMA UsableOfLiveNext == IInv' => UsableIsLive'
  BY UsableOfLive, PTL

\* A step that grants nothing changes no lineage but to close it.
LEMMA Closes ==
    ASSUME IInv, IInv', NEW target \in SUBSET Requests, Ended(target), Minted' = Minted
    PROVE  Lineage!CloseSome
  <1> DEFINE gone == {f \in Requests : LiveIn(f) # {} /\ LiveIn(f)' = {}}
  <1>1. UsableIsLive /\ UsableIsLive'
    BY UsableOfLive, UsableOfLiveNext
  <1>2. Opened' = Opened /\ Live' = Live \ target
    BY DEF Opened, Live, Ended
  <1>3. \A i \in Live : i \in Requests /\ rows'[i].fam = rows[i].fam /\ rows'[i].tok = rows[i].tok
    BY DEF Live, Ended
  <1>4. \A f \in gone : Usable[f] \in Minted /\ f \in Opened
    BY <1>1, Known DEF UsableIsLive, LiveIn, Opened, Live
  <1>5. ASSUME NEW f \in Requests PROVE Usable'[f] = IF f \in gone THEN 0 ELSE Usable[f]
    <2>1. CASE f \in gone
      BY <1>1, <1>2, <1>4, <2>1 DEF UsableIsLive
    <2>2. CASE LiveIn(f)' # {}
      <3>1. PICK i \in Live' : rows'[i].fam = f
        BY <2>2 DEF LiveIn
      <3>2. i \in Live /\ rows[i].fam = f /\ Usable'[f] = rows'[i].tok
        BY <1>1, <1>2, <1>3, <3>1 DEF UsableIsLive
      <3> QED BY <1>1, <1>3, <2>2, <3>2 DEF UsableIsLive
    <2>3. CASE LiveIn(f) = {} /\ LiveIn(f)' = {}
      BY <1>1, <1>2, <2>3 DEF UsableIsLive
    <2> QED BY <2>1, <2>2, <2>3
  <1>6. Usable' = [f \in Requests |-> IF f \in gone THEN 0 ELSE Usable[f]]
    BY <1>5 DEF Usable
  <1>7. gone \in SUBSET {f \in Requests : Usable[f] \in Minted}
    BY <1>4
  <1> HIDE DEF gone
  <1> QED BY <1>6, <1>7 DEF Lineage!CloseSome

\* A step that grants nothing ends rows at most.
LEMMA Quiet ==
    ASSUME IInv,
           \/ \E k \in Codes : VerifyLogin(k) \/ IssueCode(k) \/ ExpireCode(k)
           \/ \E r \in Requests : \/ Begin(r) \/ BurnCode(r) \/ ReadFamily(r) \/ BurnFamily(r)
                                 \/ ClaimRow(r) \/ Fail(r) \/ ExpireRow(r)
           \/ ReadLiveRows \/ CommitReset \/ AllAnswered \/ UNCHANGED vars
    PROVE  Minted' = Minted /\ \E target \in SUBSET Requests : Ended(target)
  <1>1. TypeOK /\ rows \in [Requests -> RowRec] /\ req \in [Requests -> ReqRec] /\ reset \in ResetRec
    BY Typed DEF IInv
  <1>2. UNCHANGED rows => Ended({})
    BY DEF Ended
  <1>3. UNCHANGED req => Minted' = Minted
    BY DEF Minted
  <1>4. ASSUME NEW r \in Requests, req[r].pc # "granted", req'[r].pc # "granted", Others(r)
        PROVE  Minted' = Minted
    BY <1>4 DEF Minted, Others
  <1>5. ASSUME NEW r \in Requests, NEW pc \in Positions \ {"granted"}, req[r].pc # "granted", GoTo(r, pc)
        PROVE  Minted' = Minted
    <2>1. req'[r].pc = pc /\ Others(r)
      BY <1>1, <1>5, Went
    <2> QED BY <1>4, <1>5, <2>1
  <1>6. CASE \E k \in Codes : VerifyLogin(k) \/ IssueCode(k) \/ ExpireCode(k)
    BY <1>2, <1>3, <1>6 DEF VerifyLogin, IssueCode, ExpireCode
  <1>7. ASSUME NEW r \in Requests, BurnCode(r) \/ ClaimRow(r) \/ Fail(r)
        PROVE  Minted' = Minted /\ UNCHANGED rows
    <2>1. UNCHANGED rows /\ req[r].pc # "granted"
      BY <1>7 DEF BurnCode, ClaimRow, Fail, InProgress
    <2>2. \E pc \in Positions \ {"granted"} : GoTo(r, pc)
      BY <1>7 DEF BurnCode, ClaimRow, Fail, Positions
    <2> QED BY <1>5, <2>1, <2>2
  <1>8. ASSUME NEW r \in Requests, Begin(r) \/ ReadFamily(r)
        PROVE  Minted' = Minted /\ UNCHANGED rows
    <2>1. UNCHANGED rows /\ req[r].pc \in {"idle", "gotRevoked"}
      BY <1>8 DEF Begin, BeginExchange, BeginRefresh, ReadFamily
    <2>2. CASE ReadFamily(r)
      <3>1. ASSUME NEW chosen, req' = [req EXCEPT ![r].pc = "burning", ![r].target = chosen]
            PROVE  Minted' = Minted
        BY <1>1, <1>4, <2>1, <3>1 DEF Others, ReqRec
      <3> QED BY <2>2, <3>1 DEF ReadFamily
    <2>3. ASSUME NEW k \in Codes, NEW proof \in BOOLEAN, BeginExchange(r, k, proof)
          PROVE  Minted' = Minted
      <3>1. CASE req' = [req EXCEPT ![r].pc = "gotCode", ![r].arg = k]
        BY <1>1, <1>4, <2>1, <3>1 DEF Others, ReqRec
      <3>2. CASE GoTo(r, "invalid")
        BY <1>5, <2>1, <3>2 DEF Positions
      <3> QED BY <2>3, <3>1, <3>2 DEF BeginExchange
    <2>4. ASSUME NEW t \in Requests, NEW sameClient \in BOOLEAN, BeginRefresh(r, t, sameClient)
          PROVE  Minted' = Minted
      <3>1. ASSUME NEW i, NEW pc \in {"gotRevoked", "invalid", "gotToken"},
                   req' = [req EXCEPT ![r].arg = t, ![r].row = i, ![r].pc = pc]
            PROVE  Minted' = Minted
        BY <1>1, <1>4, <2>1, <3>1 DEF Others, ReqRec
      <3>2. CASE GoTo(r, "invalid")
        BY <1>5, <2>1, <3>2 DEF Positions
      <3> QED BY <2>4, <3>1, <3>2 DEF BeginRefresh
    <2> QED BY <1>8, <2>1, <2>2, <2>3, <2>4 DEF Begin
  <1>9. ASSUME NEW r \in Requests, BurnFamily(r)
        PROVE  Minted' = Minted /\ Ended(req[r].target) /\ req[r].target \in SUBSET Requests
    <2>1. req[r].pc = "burning" /\ GoTo(r, "invalid") /\ rows' = Revoke(req[r].target)
      BY <1>9 DEF BurnFamily
    <2>2. req[r].target \in SUBSET Requests
      BY <1>1 DEF ReqRec
    <2> QED BY <1>1, <1>5, <2>1, <2>2, Revoked DEF Positions
  <1>10. ASSUME NEW i \in Requests, ExpireRow(i) PROVE Minted' = Minted /\ Ended({})
    <2>1. rows' = [rows EXCEPT ![i].expired = TRUE] /\ UNCHANGED req
      BY <1>10 DEF ExpireRow
    <2> QED BY <1>1, <1>3, <2>1 DEF Ended, RowRec
  <1>11. CASE ReadLiveRows \/ AllAnswered \/ UNCHANGED vars
    BY <1>2, <1>3, <1>11 DEF ReadLiveRows, AllAnswered, vars
  <1>12. CASE CommitReset
    <2>1. UNCHANGED req /\ rows' = Revoke(reset.target) /\ reset.target \in SUBSET Requests
      BY <1>1, <1>12 DEF CommitReset, ResetRec
    <2> QED BY <1>1, <1>3, <2>1, Revoked
  <1> QED BY <1>2, <1>6, <1>7, <1>8, <1>9, <1>10, <1>11, <1>12

LEMMA UsableIsMap ==
    /\ Usable = [f \in Requests |-> Usable[f]]
    /\ Usable' = [f \in Requests |-> Usable'[f]]
  BY DEF Usable

\* An exchange opens the lineage of its request.
LEMMA Opens ==
    ASSUME IInv, IInv', NEW r \in Requests, CommitExchange(r)
    PROVE  Lineage!Open(r, r)
  <1> USE Known
  <1>1. req[r].pc = "holdsCode" /\ GoTo(r, "granted")
    BY DEF CommitExchange
  <1>2. r \notin Minted /\ Minted' = Minted \cup {r}
    BY <1>1, Granted
  <1>3. /\ rows[r].st = "absent" /\ rows[r].fam = NoOne
        /\ rows'[r].st = "live" /\ rows'[r].fam = r /\ rows'[r].tok = r
        /\ \A i \in Requests \ {r} : rows'[i] = rows[i]
    BY <1>2, Typed DEF CommitExchange, Ungranted, RowNamed
  <1>4. UsableIsLive /\ UsableIsLive'
    BY UsableOfLive, UsableOfLiveNext
  <1>5. \A i \in Requests : rows[i].fam # r
    BY <1>2 DEF RowNamed
  <1>6. LiveIn(r) = {} /\ r \notin Opened
    BY <1>5 DEF LiveIn, Opened, Live
  <1>7. Usable[r] = NoOne
    BY <1>4, <1>6 DEF UsableIsLive
  <1>8. Usable'[r] = r
    <2>1. r \in Live'
      BY <1>3 DEF Live
    <2> QED BY <1>3, <1>4, <2>1 DEF UsableIsLive
  <1>9. ASSUME NEW f \in Requests \ {r} PROVE Usable'[f] = Usable[f]
    <2>1. Live' = Live \cup {r}
      BY <1>3 DEF Live
    <2>2. LiveIn(f)' = LiveIn(f)
      BY <1>3, <2>1 DEF LiveIn, Live
    <2>3. f \in Opened' <=> f \in Opened
      BY <1>3 DEF Opened
    <2>4. CASE LiveIn(f) = {}
      BY <1>4, <2>2, <2>3, <2>4 DEF UsableIsLive
    <2>5. ASSUME NEW i \in LiveIn(f) PROVE Usable'[f] = Usable[f]
      <3>1. i \in Live /\ i \in Live' /\ rows[i].fam = f /\ rows'[i] = rows[i]
        BY <1>3, <2>2 DEF LiveIn, Live
      <3> QED BY <1>4, <3>1 DEF UsableIsLive
    <2> QED BY <2>4, <2>5
  <1>10. Usable' = [Usable EXCEPT ![r] = r]
    BY <1>8, <1>9, UsableIsMap
  <1> QED BY <1>2, <1>7, <1>10 DEF Lineage!Open

\* A renewal renews the lineage of the row it holds.
LEMMA Renews ==
    ASSUME IInv, IInv', NEW r \in Requests, CommitRenewal(r)
    PROVE  Lineage!Renew(rows[req[r].row].fam, r)
  <1> DEFINE i == req[r].row
  <1> USE Known
  <1>1. req[r].pc = "holdsRow" /\ GoTo(r, "granted")
    BY DEF CommitRenewal
  <1>2. r \notin Minted /\ Minted' = Minted \cup {r}
    BY <1>1, Granted
  <1>3. PICK n \in Requests : Renewed(r, n)
    BY <1>1, SuccessorRenews DEF CommitRenewal
  <1>4. /\ i \in Live /\ i \in Requests /\ i # r /\ rows[i].fam \in Requests
        /\ rows[r].st = "absent" /\ rows[r].fam = NoOne
    BY <1>1, <1>2 DEF RowKnown, Ungranted, RowNamed, Live
  <1>5. /\ n \in {r, i} /\ rows'[n].st = "live" /\ rows'[n].tok = r /\ rows'[n].fam = rows[i].fam
        /\ \A j \in Requests \ {n} :
              /\ rows'[j].fam = rows[j].fam /\ rows'[j].tok = rows[j].tok
              /\ rows'[j].st = "live" <=> rows[j].st = "live" /\ j # i
    BY <1>3 DEF Renewed
  <1> HIDE DEF i
  <1>6. UsableIsLive /\ UsableIsLive'
    BY UsableOfLive, UsableOfLiveNext
  <1>7. Live' = (Live \ {i}) \cup {n}
    BY <1>4, <1>5 DEF Live
  <1>8. Usable[rows[i].fam] \in Minted
    BY <1>4, <1>6 DEF UsableIsLive
  <1>9. Usable'[rows[i].fam] = r
    BY <1>5, <1>6, <1>7 DEF UsableIsLive
  <1>10. ASSUME NEW f \in Requests, f # rows[i].fam PROVE Usable'[f] = Usable[f]
    <2>1. LiveIn(f)' = LiveIn(f)
      BY <1>4, <1>5, <1>7, <1>10 DEF LiveIn, Live
    <2>2. f \in Opened' <=> f \in Opened
      BY <1>4, <1>5, <1>10 DEF Opened
    <2>3. CASE LiveIn(f) = {}
      BY <1>6, <2>1, <2>2, <2>3 DEF UsableIsLive
    <2>4. ASSUME NEW j \in LiveIn(f) PROVE Usable'[f] = Usable[f]
      <3>1. j \in Live /\ j \in Live' /\ rows[j].fam = f /\ rows'[j].fam = f
        BY <2>1 DEF LiveIn, Live
      <3>2. rows'[j].tok = rows[j].tok
        BY <1>4, <1>5, <1>10, <3>1 DEF Live
      <3> QED BY <1>6, <3>1, <3>2 DEF UsableIsLive
    <2> QED BY <2>3, <2>4
  <1>11. Usable' = [Usable EXCEPT ![rows[i].fam] = r]
    BY <1>4, <1>9, <1>10, UsableIsMap
  <1> QED BY <1>2, <1>8, <1>11 DEF Lineage!Renew, i

\* Whatever the storage mode, the table of refresh tokens implements the
\* lineages: one usable token each, replaced only by a fresh one, closed for good.
THEOREM LineagesHold == Spec => LineageSpec
  <1>1. Init => Lineage!Init
    <2> SUFFICES ASSUME Init PROVE Lineage!Init
      OBVIOUS
    <2>1. Minted = {} /\ Live = {} /\ Opened = {}
      BY DEF Init, Minted, Live, Opened
    <2>2. \A f \in Requests : LiveIn(f) = {} /\ f \notin Opened
      BY <2>1 DEF LiveIn
    <2>3. Usable = [f \in Requests |-> NoOne]
      BY <2>2 DEF Usable
    <2> QED BY <2>1, <2>3 DEF Lineage!Init
  <1>2. IInv /\ IInv' /\ [Next]_vars => [Lineage!Next]_(Lineage!lineageVars)
    <2> SUFFICES ASSUME IInv, IInv', [Next]_vars PROVE Lineage!Next
      OBVIOUS
    <2>1. ASSUME NEW r \in Requests, CommitExchange(r) PROVE Lineage!Next
      BY <2>1, Opens DEF Lineage!Next
    <2>2. ASSUME NEW r \in Requests, CommitRenewal(r) PROVE Lineage!Next
      <3>1. rows[req[r].row].fam \in Requests
        BY <2>2, Known DEF CommitRenewal, RowKnown, RowNamed
      <3> QED BY <2>2, <3>1, Renews DEF Lineage!Next
    <2>3. CASE ~\E r \in Requests : CommitExchange(r) \/ CommitRenewal(r)
      <3>1. Minted' = Minted /\ \E target \in SUBSET Requests : Ended(target)
        BY <2>3, Quiet DEF Next, Proceed
      <3> QED BY <3>1, Closes DEF Lineage!Next
    <2> QED BY <2>1, <2>2, <2>3
  <1> QED BY <1>1, <1>2, InitInv, InvStep, PTL DEF Spec, LineageSpec, Lineage!Spec

-----------------------------------------------------------------------------
(* UserAccount                                                             *)

\* The handler that computed the hash has written it.
Made(h) ==
    /\ \A p \in Posts : h.by = p => post[p].pc = "done"
    /\ \A l \in Logins : h.by = l => login[l].pc = "done"
HashesMade == Made(user.hash) /\ \A q \in Posts : Made(replaced[q])

\* A hash that a reset has replaced is not the row's.
ReplacedGone == \A q \in Posts : replaced[q] # NoHash => replaced[q] # user.hash

\* A login that is about to rehash carries the password it verified.
RehashKnows == \A l \in Logins : login[l].pc = "rehash" => login[l].pw \in Passwords

\* At most one claim, and only while the account was pending.
ClaimEndsPending == claims # {} => ~IsPending
OneClaim == claims = {} \/ \E x : claims = {x}

\* An identity that found the account bound, or was let in, is of the row's
\* provider; one that was let in is the row's own, short of a migration.
OidcKnown ==
    \A o \in OidcLogins : oidc[o].pc # "idle" => oidc[o].provider \in Providers
                                                /\ oidc[o].subject \in Subjects
OidcOfProvider ==
    \A o \in OidcLogins : oidc[o].pc \in {"bind", "bound", "done"} =>
                             oidc[o].provider = user.provider
OidcIsOwner ==
    \A o \in OidcLogins : oidc[o].pc = "done" /\ moved = {} => oidc[o].subject = user.subject

\* The inductive invariant.
AccountInv ==
    /\ AccountTypeOK /\ HashesMade /\ ReplacedGone /\ RehashKnows /\ OneResetPerCredential
    /\ ClaimEndsPending /\ OneClaim /\ OidcKnown /\ OidcOfProvider /\ OidcIsOwner

-----------------------------------------------------------------------------
\* The types of AccountTypeOK, named.
UserRec == [hash : Hashes \cup {NoHash}, provider : Providers \cup {None},
            subject : Subjects \cup {None}, active : BOOLEAN]
PostRec == [pc : {"idle", "setup", "reset", "done", "refused"}, expected : Hashes \cup {NoHash}]
LoginRec == [pc : {"idle", "rehash", "done", "refused"}, pw : Passwords \cup {None}]
OidcRec == [pc : {"idle", "claim", "claimed", "bind", "bound", "done", "refused"},
            provider : Providers \cup {None}, subject : Subjects \cup {None}]

\* What a new hash is, and that it is nobody else's.
LEMMA HashFacts ==
    /\ NoHash \notin Hashes /\ OriginalHash \in Hashes
    /\ \A p \in Posts : NewHash(p) \in Hashes /\ NewHash(p).by = p
    /\ \A l \in Logins, pw \in Passwords : [pw |-> pw, by |-> l] \in Hashes
    /\ \A h \in {NoHash, OriginalHash} : h.by \notin Posts \cup Logins
    /\ \A p \in Posts : p \notin Logins
  BY AccountNamesAssumption DEF NoHash, OriginalHash, Hashes, Passwords, NewHash

\* The invariant holds of a row as create_user leaves it.
LEMMA AccountInitInv == AccountInit => AccountInv
  <1> SUFFICES ASSUME AccountInit PROVE AccountInv
    OBVIOUS
  <1>1. AccountTypeOK
    BY HashFacts DEF AccountInit, InitialUsers, AccountTypeOK, Hashes
  <1>2. HashesMade
    BY HashFacts DEF AccountInit, InitialUsers, HashesMade, Made
  <1>3. ReplacedGone /\ OneResetPerCredential /\ RehashKnows
    BY DEF AccountInit, ReplacedGone, OneResetPerCredential, RehashKnows
  <1>4. ClaimEndsPending /\ OneClaim /\ OidcKnown /\ OidcOfProvider /\ OidcIsOwner
    BY DEF AccountInit, ClaimEndsPending, OneClaim, OidcKnown, OidcOfProvider, OidcIsOwner
  <1> QED BY <1>1, <1>2, <1>3, <1>4 DEF AccountInv

\* The four records a step changes, as functions of their owners.
LEMMA AccountTyped ==
    ASSUME AccountTypeOK
    PROVE  /\ user \in UserRec /\ post \in [Posts -> PostRec] /\ login \in [Logins -> LoginRec]
           /\ oidc \in [OidcLogins -> OidcRec] /\ links \subseteq Hashes
           /\ replaced \in [Posts -> Hashes \cup {NoHash}]
  BY DEF AccountTypeOK, UserRec, PostRec, LoginRec, OidcRec

\* What the UPDATEs leave of the row, and a finished handler of its record.
LEMMA Updates ==
    ASSUME AccountTypeOK
    PROVE  /\ \A h \in Hashes \cup {NoHash} : [user EXCEPT !.hash = h] \in UserRec
           /\ \A v \in Providers, s \in Subjects :
                 /\ [user EXCEPT !.provider = v, !.subject = s] \in UserRec
                 /\ [user EXCEPT !.subject = s] \in UserRec
                 /\ [user EXCEPT !.hash = NoHash, !.provider = v, !.subject = s] \in UserRec
           /\ \A p \in Posts, pc \in {"setup", "done", "refused"} :
                 [post EXCEPT ![p].pc = pc] \in [Posts -> PostRec]
           /\ \A l \in Logins : [login EXCEPT ![l].pc = "done"] \in [Logins -> LoginRec]
           /\ \A o \in OidcLogins, pc \in {"claimed", "bound", "done", "refused"} :
                 [oidc EXCEPT ![o].pc = pc] \in [OidcLogins -> OidcRec]
  <1>1. \A h \in Hashes \cup {NoHash} : [user EXCEPT !.hash = h] \in UserRec
    BY AccountTyped DEF UserRec
  <1>2. \A v \in Providers, s \in Subjects :
           /\ [user EXCEPT !.provider = v, !.subject = s] \in UserRec
           /\ [user EXCEPT !.subject = s] \in UserRec
           /\ [user EXCEPT !.hash = NoHash, !.provider = v, !.subject = s] \in UserRec
    BY AccountTyped DEF UserRec
  <1>3. ASSUME NEW p \in Posts, NEW pc \in {"setup", "done", "refused"}
        PROVE  [post EXCEPT ![p].pc = pc] \in [Posts -> PostRec]
    <2>1. [post[p] EXCEPT !.pc = pc] \in PostRec
      BY AccountTyped DEF PostRec
    <2> QED BY <2>1, AccountTyped
  <1>4. ASSUME NEW l \in Logins PROVE [login EXCEPT ![l].pc = "done"] \in [Logins -> LoginRec]
    <2>1. [login[l] EXCEPT !.pc = "done"] \in LoginRec
      BY AccountTyped DEF LoginRec
    <2> QED BY <2>1, AccountTyped
  <1>5. ASSUME NEW o \in OidcLogins, NEW pc \in {"claimed", "bound", "done", "refused"}
        PROVE  [oidc EXCEPT ![o].pc = pc] \in [OidcLogins -> OidcRec]
    <2>1. [oidc[o] EXCEPT !.pc = pc] \in OidcRec
      BY AccountTyped DEF OidcRec
    <2> QED BY <2>1, AccountTyped
  <1> QED BY <1>1, <1>2, <1>3, <1>4, <1>5

LEMMA TypeStep == AccountInv /\ [AccountNext]_accountVars => AccountTypeOK'
  <1> SUFFICES ASSUME AccountInv, [AccountNext]_accountVars PROVE AccountTypeOK'
    OBVIOUS
  <1>1. AccountTypeOK /\ RehashKnows
    BY DEF AccountInv
  <1> USE <1>1
  <1>2. CASE MintReset
    BY <1>2 DEF MintReset, AccountTypeOK
  <1>3. ASSUME NEW p \in Posts, BeginSetup(p) PROVE AccountTypeOK'
    BY <1>3 DEF BeginSetup, AccountTypeOK
  <1>4. ASSUME NEW p \in Posts, NEW h \in links, BeginReset(p, h) PROVE AccountTypeOK'
    BY <1>4 DEF BeginReset, AccountTypeOK
  <1>5. ASSUME NEW p \in Posts, WriteSetup(p) PROVE AccountTypeOK'
    <2>1. user' \in UserRec /\ post' \in [Posts -> PostRec]
      <3>1. [user EXCEPT !.hash = NewHash(p)] \in UserRec
        BY HashFacts, Updates
      <3>2. /\ [post EXCEPT ![p].pc = "done"] \in [Posts -> PostRec]
            /\ [post EXCEPT ![p].pc = "refused"] \in [Posts -> PostRec]
        BY Updates
      <3>3. user' = user \/ user' = [user EXCEPT !.hash = NewHash(p)]
        BY <1>5 DEF WriteSetup
      <3>4. \/ post' = [post EXCEPT ![p].pc = "done"]
            \/ post' = [post EXCEPT ![p].pc = "refused"]
        BY <1>5 DEF WriteSetup
      <3> QED BY <3>1, <3>2, <3>3, <3>4, AccountTyped
    <2>2. claims' \subseteq Posts \cup OidcLogins /\ UNCHANGED <<links, login, oidc, moved, replaced>>
      BY <1>5 DEF WriteSetup, AccountTypeOK
    <2> QED BY <2>1, <2>2 DEF AccountTypeOK, UserRec, PostRec
  <1>6. ASSUME NEW p \in Posts, WriteReset(p) PROVE AccountTypeOK'
    <2>1. user' \in UserRec /\ post' \in [Posts -> PostRec]
      <3>1. [user EXCEPT !.hash = NewHash(p)] \in UserRec
        BY HashFacts, Updates
      <3>2. /\ [post EXCEPT ![p].pc = "done"] \in [Posts -> PostRec]
            /\ [post EXCEPT ![p].pc = "refused"] \in [Posts -> PostRec]
        BY Updates
      <3>3. user' = user \/ user' = [user EXCEPT !.hash = NewHash(p)]
        BY <1>6 DEF WriteReset
      <3>4. \/ post' = [post EXCEPT ![p].pc = "done"]
            \/ post' = [post EXCEPT ![p].pc = "refused"]
        BY <1>6 DEF WriteReset
      <3> QED BY <3>1, <3>2, <3>3, <3>4, AccountTyped
    <2>2. replaced' \in [Posts -> Hashes \cup {NoHash}] /\ UNCHANGED <<links, login, oidc, moved, claims>>
      BY <1>6, AccountTyped DEF WriteReset, PostRec
    <2> QED BY <2>1, <2>2 DEF AccountTypeOK, UserRec, PostRec
  <1>7. ASSUME NEW l \in Logins, NEW pw \in Passwords, BeginLogin(l, pw) PROVE AccountTypeOK'
    BY <1>7 DEF BeginLogin, AccountTypeOK
  <1>8. ASSUME NEW l \in Logins, Rehash(l) PROVE AccountTypeOK'
    <2>1. user' \in UserRec /\ login' \in [Logins -> LoginRec]
      <3>1. [pw |-> login[l].pw, by |-> l] \in Hashes
        BY <1>8, HashFacts DEF Rehash, RehashKnows
      <3>2. [user EXCEPT !.hash = [pw |-> login[l].pw, by |-> l]] \in UserRec
        BY <3>1, Updates
      <3>3. [login EXCEPT ![l].pc = "done"] \in [Logins -> LoginRec]
        BY Updates
      <3> QED BY <1>8, <3>2, <3>3, AccountTyped DEF Rehash
    <2> QED BY <1>8, <2>1 DEF Rehash, AccountTypeOK, UserRec, LoginRec
  <1>9. ASSUME NEW o \in OidcLogins, NEW v \in Providers, NEW s \in Subjects, BeginOidc(o, v, s)
        PROVE  AccountTypeOK'
    BY <1>9 DEF BeginOidc, AccountTypeOK
  <1>10. ASSUME NEW o \in OidcLogins, ClaimOidc(o) PROVE AccountTypeOK'
    <2>1. oidc[o].provider \in Providers /\ oidc[o].subject \in Subjects
      BY <1>10 DEF ClaimOidc, AccountInv, OidcKnown
    <2>2. user' \in UserRec /\ oidc' \in [OidcLogins -> OidcRec]
      <3>1. [user EXCEPT !.provider = oidc[o].provider, !.subject = oidc[o].subject] \in UserRec
        BY <2>1, Updates
      <3>2. [oidc EXCEPT ![o].pc = "claimed"] \in [OidcLogins -> OidcRec]
        BY Updates
      <3> QED BY <1>10, <3>1, <3>2, AccountTyped DEF ClaimOidc
    <2>3. claims' \subseteq Posts \cup OidcLogins /\ UNCHANGED <<links, post, login, moved, replaced>>
      BY <1>10 DEF ClaimOidc, AccountTypeOK
    <2> QED BY <2>2, <2>3 DEF AccountTypeOK, UserRec, OidcRec
  <1>11. ASSUME NEW o \in OidcLogins, BindOidc(o) PROVE AccountTypeOK'
    BY <1>11 DEF BindOidc, AccountTypeOK
  <1>12. ASSUME NEW o \in OidcLogins, RereadOidc(o) PROVE AccountTypeOK'
    BY <1>12 DEF RereadOidc, AccountTypeOK
  <1>13. ASSUME NEW m \in Migrations, NEW v \in Providers, NEW s \in Subjects, Move(m, v, s)
         PROVE  AccountTypeOK'
    BY <1>13 DEF Move, AccountTypeOK
  <1>14. CASE SetStatus
    BY <1>14 DEF SetStatus, AccountTypeOK
  <1>15. CASE UNCHANGED accountVars
    BY <1>15 DEF accountVars, AccountTypeOK
  <1> QED BY <1>2, <1>3, <1>4, <1>5, <1>6, <1>7, <1>8, <1>9, <1>10, <1>11, <1>12, <1>13, <1>14, <1>15
          DEF AccountNext

-----------------------------------------------------------------------------
(* Hashes.                                                                 *)

HashInv == HashesMade /\ ReplacedGone /\ RehashKnows /\ OneResetPerCredential

\* A step that leaves hashes alone only ever finishes handlers.
LEMMA HashKept ==
    ASSUME HashInv, user'.hash \in {user.hash, NoHash}, replaced' = replaced,
           \A p \in Posts : post[p].pc = "done" => post'[p].pc = "done",
           \A l \in Logins : login[l].pc = "done" => login'[l].pc = "done",
           \A l \in Logins : login'[l].pc = "rehash" => login'[l].pw \in Passwords
    PROVE  HashInv'
  <1>1. HashesMade'
    BY HashFacts DEF HashInv, HashesMade, Made
  <1>2. ReplacedGone' /\ OneResetPerCredential' /\ RehashKnows'
    BY DEF HashInv, ReplacedGone, OneResetPerCredential, RehashKnows
  <1> QED BY <1>1, <1>2 DEF HashInv

\* A hash is written by a handler that had made none, and finishes it.
LEMMA HashMade ==
    ASSUME HashInv, NEW maker \in Posts \cup Logins, user'.hash.by = maker,
           maker \in Posts => post[maker].pc # "done" /\ post'[maker].pc = "done",
           maker \in Logins => login[maker].pc # "done" /\ login'[maker].pc = "done",
           replaced' = replaced,
           \A p \in Posts : post[p].pc = "done" => post'[p].pc = "done",
           \A l \in Logins : login[l].pc = "done" => login'[l].pc = "done",
           \A l \in Logins : login'[l].pc = "rehash" => login'[l].pw \in Passwords
    PROVE  HashInv'
  <1>1. HashesMade'
    BY DEF HashInv, HashesMade, Made
  <1>2. ReplacedGone'
    BY DEF HashInv, HashesMade, Made, ReplacedGone
  <1>3. OneResetPerCredential' /\ RehashKnows'
    BY DEF HashInv, OneResetPerCredential, RehashKnows
  <1> QED BY <1>1, <1>2, <1>3 DEF HashInv

LEMMA HashStep == AccountInv /\ [AccountNext]_accountVars => HashInv'
  <1> SUFFICES ASSUME AccountInv, [AccountNext]_accountVars PROVE HashInv'
    OBVIOUS
  <1>1. AccountTypeOK /\ HashInv
    BY DEF AccountInv, HashInv
  <1> USE <1>1, AccountTyped
  <1>2. \A p \in Posts, r \in PostRec :
           post[p].pc # "done" /\ post' = [post EXCEPT ![p] = r] =>
              \A q \in Posts : post[q].pc = "done" => post'[q].pc = "done"
    OBVIOUS
  <1>3. MintReset \/ SetStatus \/ UNCHANGED accountVars => HashInv'
    <2> SUFFICES ASSUME MintReset \/ SetStatus \/ UNCHANGED accountVars PROVE HashInv'
      OBVIOUS
    <2>1. user'.hash = user.hash /\ UNCHANGED <<replaced, post, login>>
      BY DEF MintReset, SetStatus, accountVars, UserRec
    <2> QED BY <2>1, HashKept DEF HashInv, RehashKnows
  <1>4. ASSUME NEW p \in Posts, BeginSetup(p) \/ \E h \in links : BeginReset(p, h)
        PROVE  HashInv'
    <2>1. /\ UNCHANGED <<user, replaced, login>> /\ post[p].pc = "idle"
          /\ \A q \in Posts \ {p} : post'[q] = post[q]
      BY <1>4 DEF BeginSetup, BeginReset
    <2> QED BY <2>1, HashKept DEF HashInv, RehashKnows
  <1>5. ASSUME NEW p \in Posts, WriteSetup(p) PROVE HashInv'
    <2>1. /\ UNCHANGED <<replaced, login>> /\ post[p].pc = "setup"
          /\ \A q \in Posts \ {p} : post'[q] = post[q]
          /\ \/ user'.hash = NewHash(p) /\ post'[p].pc = "done"
             \/ user' = user
      BY <1>5 DEF WriteSetup, UserRec, PostRec
    <2>2. CASE user' = user
      BY <2>1, <2>2, HashKept DEF HashInv, RehashKnows
    <2>3. CASE user'.hash = NewHash(p) /\ post'[p].pc = "done"
      <3>1. user'.hash.by = p /\ p \notin Logins
        BY <2>3, HashFacts
      <3> QED BY <2>1, <2>3, <3>1, HashMade DEF HashInv, RehashKnows
    <2> QED BY <2>1, <2>2, <2>3
  <1>6. ASSUME NEW p \in Posts, WriteReset(p) PROVE HashInv'
    <2>1. /\ UNCHANGED login /\ post[p].pc = "reset"
          /\ \A q \in Posts \ {p} : post'[q] = post[q] /\ replaced'[q] = replaced[q]
          /\ \/ user'.hash = NewHash(p) /\ post'[p].pc = "done" /\ replaced'[p] = user.hash
             \/ UNCHANGED <<user, replaced>>
      BY <1>6 DEF WriteReset, UserRec, PostRec
    <2>2. CASE UNCHANGED <<user, replaced>>
      BY <2>1, <2>2, HashKept DEF HashInv, RehashKnows
    <2>3. CASE user'.hash = NewHash(p) /\ post'[p].pc = "done" /\ replaced'[p] = user.hash
      <3>1. HashesMade'
        BY <2>1, <2>3, HashFacts DEF HashInv, HashesMade, Made
      <3>2. \A q \in Posts : replaced[q].by # p /\ user.hash.by # p
        BY <2>1 DEF HashInv, HashesMade, Made
      <3>3. ReplacedGone'
        BY <2>1, <2>3, <3>2, HashFacts DEF ReplacedGone
      <3>4. OneResetPerCredential'
        BY <2>1, <2>3 DEF HashInv, ReplacedGone, OneResetPerCredential
      <3> QED BY <2>1, <3>1, <3>3, <3>4 DEF HashInv, RehashKnows
    <2> QED BY <2>1, <2>2, <2>3
  <1>7. ASSUME NEW l \in Logins, NEW pw \in Passwords, BeginLogin(l, pw) PROVE HashInv'
    <2>1. /\ UNCHANGED <<user, replaced, post>> /\ login[l].pc = "idle" /\ login'[l].pw = pw
          /\ \A k \in Logins \ {l} : login'[k] = login[k]
      BY <1>7 DEF BeginLogin
    <2> QED BY <2>1, HashKept DEF HashInv, RehashKnows
  <1>8. ASSUME NEW l \in Logins, Rehash(l) PROVE HashInv'
    <2>1. /\ UNCHANGED <<replaced, post>> /\ login[l].pc = "rehash" /\ login'[l].pc = "done"
          /\ \A k \in Logins \ {l} : login'[k] = login[k]
          /\ user'.hash.by = l \/ user' = user
      BY <1>8 DEF Rehash, UserRec, LoginRec
    <2>2. CASE user' = user
      BY <2>1, <2>2, HashKept DEF HashInv, RehashKnows
    <2>3. CASE user'.hash.by = l
      <3>1. l \notin Posts
        BY HashFacts
      <3> QED BY <2>1, <2>3, <3>1, HashMade DEF HashInv, RehashKnows
    <2> QED BY <2>1, <2>2, <2>3
  <1>9. ASSUME NEW o \in OidcLogins,
               \/ ClaimOidc(o) \/ BindOidc(o) \/ RereadOidc(o)
               \/ \E v \in Providers, s \in Subjects : BeginOidc(o, v, s)
        PROVE  HashInv'
    <2>1. user'.hash = user.hash /\ UNCHANGED <<replaced, post, login>>
      BY <1>9 DEF ClaimOidc, BindOidc, RereadOidc, BeginOidc, UserRec
    <2> QED BY <2>1, HashKept DEF HashInv, RehashKnows
  <1>10. ASSUME NEW m \in Migrations, NEW v \in Providers, NEW s \in Subjects, Move(m, v, s)
         PROVE  HashInv'
    <2>1. user'.hash = NoHash /\ UNCHANGED <<replaced, post, login>>
      BY <1>10 DEF Move, UserRec
    <2> QED BY <2>1, HashKept DEF HashInv, RehashKnows
  <1> QED BY <1>3, <1>4, <1>5, <1>6, <1>7, <1>8, <1>9, <1>10 DEF AccountNext

-----------------------------------------------------------------------------
(* Claims and identity providers.                                          *)

\* What every step does to an account's standing: one that is not pending stays
\* so, one that has a provider keeps it, and only a pending account is claimed,
\* which ends its being pending.
LEMMA Standing ==
    ASSUME AccountInv, [AccountNext]_accountVars
    PROVE  /\ ~IsPending => ~IsPending' /\ claims' = claims
           /\ IsPending => claims' = claims \/ (~IsPending' /\ \E x : claims' = claims \cup {x})
           /\ user.provider # None => user'.provider = user.provider
           /\ moved \subseteq moved'
  <1> DEFINE Goal ==
        /\ ~IsPending => ~IsPending' /\ claims' = claims
        /\ IsPending => claims' = claims \/ (~IsPending' /\ \E x : claims' = claims \cup {x})
        /\ user.provider # None => user'.provider = user.provider
        /\ moved \subseteq moved'
  <1>1. AccountTypeOK
    BY DEF AccountInv
  <1>2. user \in UserRec
    BY <1>1, AccountTyped
  <1>3. CASE UNCHANGED <<user, moved, claims>>
    BY <1>3 DEF IsPending
  <1>4. ASSUME NEW p \in Posts, WriteSetup(p) PROVE Goal
    <2>1. NewHash(p) # NoHash
      BY HashFacts
    <2> QED BY <1>2, <1>4, <2>1 DEF WriteSetup, IsPending, UserRec
  <1>5. ASSUME NEW p \in Posts, WriteReset(p) PROVE Goal
    <2>1. NewHash(p) # NoHash
      BY HashFacts
    <2>2. UNCHANGED <<moved, claims>> /\ (user' = user \/ user' = [user EXCEPT !.hash = NewHash(p)])
      BY <1>5 DEF WriteReset
    <2>3. user' # user => user.provider = None /\ user.hash = post[p].expected
      BY <1>5 DEF WriteReset
    <2>4. CASE user' = [user EXCEPT !.hash = NewHash(p)]
      BY <1>2, <2>1, <2>2, <2>4, <1>5 DEF IsPending, UserRec
    <2> QED BY <1>3, <2>2, <2>4
  <1>6. ASSUME NEW l \in Logins, Rehash(l) PROVE Goal
    <2>1. [pw |-> login[l].pw, by |-> l] # NoHash
      BY AccountNamesAssumption DEF NoHash
    <2>2. UNCHANGED <<moved, claims>>
          /\ (user' = user \/ user' = [user EXCEPT !.hash = [pw |-> login[l].pw, by |-> l]])
      BY <1>6 DEF Rehash
    <2>3. CASE user' = [user EXCEPT !.hash = [pw |-> login[l].pw, by |-> l]]
      <3>1. user'.hash # NoHash /\ user'.provider = user.provider
        BY <1>2, <2>1, <2>3 DEF UserRec
      <3> QED BY <2>2, <3>1 DEF IsPending
    <2> QED BY <1>3, <2>2, <2>3
  <1>7. ASSUME NEW o \in OidcLogins, ClaimOidc(o) PROVE Goal
    <2>1. oidc[o].provider # None
      BY <1>7, AccountNamesAssumption DEF ClaimOidc, AccountInv, OidcKnown
    <2>2. UNCHANGED moved
      BY <1>7 DEF ClaimOidc
    <2>3. CASE IsPending
      <3>1. user' = [user EXCEPT !.provider = oidc[o].provider, !.subject = oidc[o].subject]
            /\ claims' = claims \cup {o}
        BY <1>7, <2>3 DEF ClaimOidc
      <3>2. user'.provider # None /\ user.provider = None
        BY <1>2, <2>1, <2>3, <3>1 DEF UserRec, IsPending
      <3> QED BY <2>2, <2>3, <3>1, <3>2 DEF IsPending
    <2>4. CASE ~IsPending
      BY <1>3, <1>7, <2>4 DEF ClaimOidc
    <2> QED BY <2>3, <2>4
  <1>8. ASSUME NEW o \in OidcLogins, BindOidc(o) PROVE Goal
    BY <1>2, <1>8 DEF BindOidc, IsPending, UserRec
  <1>9. ASSUME NEW m \in Migrations, NEW v \in Providers, NEW s \in Subjects, Move(m, v, s)
        PROVE  Goal
    <2>1. user'.provider = v /\ v # None /\ user.provider \in {None, v}
          /\ claims' = claims /\ moved \subseteq moved'
      BY <1>2, <1>9, AccountNamesAssumption DEF Move, UserRec
    <2> QED BY <2>1 DEF IsPending
  <1>10. CASE SetStatus
    <2>1. user'.hash = user.hash /\ user'.provider = user.provider /\ UNCHANGED <<moved, claims>>
      BY <1>2, <1>10 DEF SetStatus, UserRec
    <2> QED BY <2>1 DEF IsPending
  <1>11. CASE MintReset \/ UNCHANGED accountVars
    BY <1>3, <1>11 DEF MintReset, accountVars
  <1>12. ASSUME NEW p \in Posts, BeginSetup(p) \/ \E h \in links : BeginReset(p, h) PROVE Goal
    BY <1>3, <1>12 DEF BeginSetup, BeginReset
  <1>13. ASSUME NEW l \in Logins, NEW pw \in Passwords, BeginLogin(l, pw) PROVE Goal
    BY <1>3, <1>13 DEF BeginLogin
  <1>14. ASSUME NEW o \in OidcLogins,
                RereadOidc(o) \/ \E v \in Providers, s \in Subjects : BeginOidc(o, v, s)
         PROVE  Goal
    BY <1>3, <1>14 DEF RereadOidc, BeginOidc
  <1> QED BY <1>4, <1>5, <1>6, <1>7, <1>8, <1>9, <1>10, <1>11, <1>12, <1>13, <1>14 DEF AccountNext

LEMMA ClaimStep == AccountInv /\ [AccountNext]_accountVars => ClaimEndsPending' /\ OneClaim'
  <1> SUFFICES ASSUME AccountInv, [AccountNext]_accountVars PROVE ClaimEndsPending' /\ OneClaim'
    OBVIOUS
  <1>1. CASE claims' = claims
    BY <1>1, Standing DEF AccountInv, ClaimEndsPending, OneClaim
  <1>2. CASE claims' # claims
    <2>1. IsPending /\ ~IsPending' /\ \E x : claims' = claims \cup {x}
      BY <1>2, Standing
    <2>2. claims = {}
      BY <2>1 DEF AccountInv, ClaimEndsPending
    <2> QED BY <2>1, <2>2 DEF ClaimEndsPending, OneClaim
  <1> QED BY <1>1, <1>2

\* What a step does to the identities: a provider login finds the account bound
\* to its provider or is let in as the account's own, and the subject of an
\* account that has one is changed by a migration only.
LEMMA Identities ==
    ASSUME AccountInv, [AccountNext]_accountVars
    PROVE  /\ \A o \in OidcLogins :
                 \/ oidc'[o] = oidc[o]
                 \/ /\ oidc'[o].provider \in Providers /\ oidc'[o].subject \in Subjects
                    /\ oidc'[o].pc \in {"bind", "bound", "done"} =>
                          oidc'[o].provider = user'.provider
                    /\ oidc'[o].pc = "done" => oidc'[o].subject = user'.subject
           /\ moved' = {} /\ user.provider # None /\ user.subject # None =>
                 user'.subject = user.subject
  <1> DEFINE Same == \A o \in OidcLogins : oidc'[o] = oidc[o]
             Own(o) ==
               /\ oidc'[o].provider \in Providers /\ oidc'[o].subject \in Subjects
               /\ oidc'[o].pc \in {"bind", "bound", "done"} => oidc'[o].provider = user'.provider
               /\ oidc'[o].pc = "done" => oidc'[o].subject = user'.subject
             Stays == moved' = {} /\ user.provider # None /\ user.subject # None =>
                        user'.subject = user.subject
  <1>1. user \in UserRec /\ oidc \in [OidcLogins -> OidcRec]
    BY AccountTyped DEF AccountInv
  <1>2. CASE UNCHANGED <<user, oidc>>
    BY <1>2
  <1>3. ASSUME NEW p \in Posts,
               \/ BeginSetup(p) \/ WriteSetup(p) \/ WriteReset(p)
               \/ \E h \in links : BeginReset(p, h)
        PROVE  Same /\ Stays
    BY <1>1, <1>3 DEF BeginSetup, WriteSetup, WriteReset, BeginReset, UserRec
  <1>4. ASSUME NEW l \in Logins, Rehash(l) \/ \E pw \in Passwords : BeginLogin(l, pw)
        PROVE  Same /\ Stays
    BY <1>1, <1>4 DEF Rehash, BeginLogin, UserRec
  <1>5. ASSUME NEW m \in Migrations, NEW v \in Providers, NEW s \in Subjects, Move(m, v, s)
        PROVE  Same /\ Stays
    BY <1>5 DEF Move
  <1>6. CASE MintReset \/ SetStatus \/ UNCHANGED accountVars
    BY <1>1, <1>6 DEF MintReset, SetStatus, accountVars, UserRec
  <1>7. ASSUME NEW o \in OidcLogins, NEW v \in Providers, NEW s \in Subjects, BeginOidc(o, v, s)
        PROVE  Own(o) /\ Stays /\ \A q \in OidcLogins \ {o} : oidc'[q] = oidc[q]
    <2>1. /\ oidc'[o].provider = v /\ oidc'[o].subject = s /\ user' = user
          /\ oidc'[o].pc \in {"refused", "claim", "bind"}
          /\ oidc'[o].pc = "bind" => user.provider = v
          /\ \A q \in OidcLogins \ {o} : oidc'[q] = oidc[q]
      BY <1>1, <1>7 DEF BeginOidc
    <2> QED BY <2>1
  <1>8. ASSUME NEW o \in OidcLogins, ClaimOidc(o)
        PROVE  Own(o) /\ Stays /\ \A q \in OidcLogins \ {o} : oidc'[q] = oidc[q]
    <2>1. /\ oidc'[o].provider = oidc[o].provider /\ oidc'[o].subject = oidc[o].subject
          /\ oidc'[o].pc = "claimed"
          /\ \A q \in OidcLogins \ {o} : oidc'[q] = oidc[q]
      BY <1>1, <1>8 DEF ClaimOidc, OidcRec
    <2>2. oidc[o].provider \in Providers /\ oidc[o].subject \in Subjects
      BY <1>8 DEF ClaimOidc, AccountInv, OidcKnown
    <2>3. user.provider # None => user' = user
      BY <1>8 DEF ClaimOidc, IsPending
    <2> QED BY <2>1, <2>2, <2>3
  <1>9. ASSUME NEW o \in OidcLogins, BindOidc(o) \/ RereadOidc(o)
        PROVE  Own(o) /\ Stays /\ \A q \in OidcLogins \ {o} : oidc'[q] = oidc[q]
    <2>1. /\ oidc'[o].provider = oidc[o].provider /\ oidc'[o].subject = oidc[o].subject
          /\ oidc'[o].pc \in {"bound", "done", "refused"}
          /\ oidc[o].pc \in {"bind", "claimed", "bound"}
          /\ \A q \in OidcLogins \ {o} : oidc'[q] = oidc[q]
      BY <1>1, <1>9 DEF BindOidc, RereadOidc, OidcRec
    <2>2. oidc[o].provider \in Providers /\ oidc[o].subject \in Subjects
      BY <2>1 DEF AccountInv, OidcKnown
    <2>3. user'.provider = user.provider /\ (user.subject # None => user'.subject = user.subject)
      BY <1>1, <1>9 DEF BindOidc, RereadOidc, UserRec
    <2>4. oidc[o].pc \in {"bind", "bound"} => oidc[o].provider = user.provider
      BY DEF AccountInv, OidcOfProvider
    <2>5. oidc'[o].pc \in {"bound", "done"} => oidc[o].provider = user.provider
      BY <1>1, <1>9, <2>4 DEF BindOidc, RereadOidc, OidcRec
    <2>6. oidc'[o].pc = "done" => oidc[o].subject = user.subject /\ user' = user
      BY <1>1, <1>9 DEF BindOidc, RereadOidc, OidcRec
    <2> QED BY <2>1, <2>2, <2>3, <2>5, <2>6
  <1> QED BY <1>3, <1>4, <1>5, <1>6, <1>7, <1>8, <1>9 DEF AccountNext

LEMMA OidcStep == AccountInv /\ [AccountNext]_accountVars => OidcKnown' /\ OidcOfProvider' /\ OidcIsOwner'
  <1> SUFFICES ASSUME AccountInv, [AccountNext]_accountVars PROVE OidcKnown' /\ OidcOfProvider' /\ OidcIsOwner'
    OBVIOUS
  <1>1. ASSUME NEW o \in OidcLogins
        PROVE  /\ oidc'[o].pc # "idle" =>
                     oidc'[o].provider \in Providers /\ oidc'[o].subject \in Subjects
               /\ oidc'[o].pc \in {"bind", "bound", "done"} => oidc'[o].provider = user'.provider
               /\ oidc'[o].pc = "done" /\ moved' = {} => oidc'[o].subject = user'.subject
    <2>1. CASE oidc'[o] = oidc[o]
      <3>1. oidc[o].pc # "idle" => oidc[o].provider \in Providers /\ oidc[o].subject \in Subjects
        BY DEF AccountInv, OidcKnown
      <3>2. oidc[o].pc \in {"bind", "bound", "done"} =>
               oidc[o].provider = user.provider /\ user.provider # None
        BY <3>1, AccountNamesAssumption DEF AccountInv, OidcOfProvider
      <3>3. oidc[o].pc = "done" /\ moved' = {} =>
               oidc[o].subject = user.subject /\ user.subject # None
        BY <3>1, AccountNamesAssumption, Standing DEF AccountInv, OidcIsOwner
      <3> QED BY <2>1, <3>1, <3>2, <3>3, Standing, Identities
    <2>2. CASE oidc'[o] # oidc[o]
      BY <2>2, Identities
    <2> QED BY <2>1, <2>2
  <1> QED BY <1>1 DEF OidcKnown, OidcOfProvider, OidcIsOwner

-----------------------------------------------------------------------------
LEMMA AccountInvStep == AccountInv /\ [AccountNext]_accountVars => AccountInv'
  BY TypeStep, HashStep, ClaimStep, OidcStep DEF AccountInv, HashInv

\* Every variable keeps its type.
THEOREM AccountTypeCorrect == AccountSpec => []AccountTypeOK
  <1>1. AccountInv => AccountTypeOK
    BY DEF AccountInv
  <1> QED BY <1>1, AccountInitInv, AccountInvStep, PTL DEF AccountSpec

\* A reset link is single-use, and so is every other link minted against the
\* same credential, however many posts interleave (reset_password).
THEOREM ResetsAreSingleUse == AccountSpec => []OneResetPerCredential
  <1>1. AccountInv => OneResetPerCredential
    BY DEF AccountInv
  <1> QED BY <1>1, AccountInitInv, AccountInvStep, PTL DEF AccountSpec

\* A pending account is claimed once, by one link or one provider login, and the
\* identities let in are of one provider and, short of a migration, one subject
\* (claim_pending_password, claim_pending_oidc, bind_oidc_subject).
THEOREM ClaimsAreSingle == AccountSpec => []ClaimedOnce
  <1>1. ASSUME AccountInv PROVE ClaimedOnce
    <2>1. Cardinality(claims) <= 1
      <3>1. CASE claims = {}
        BY <3>1, FS_EmptySet
      <3>2. ASSUME NEW x, claims = {x} PROVE Cardinality(claims) <= 1
        <4>1. Cardinality(claims) = 1
          BY <3>2, FS_Singleton
        <4> QED BY <4>1
      <3> QED BY <1>1, <3>1, <3>2 DEF AccountInv, OneClaim
    <2>2. ASSUME NEW o \in OidcLogins, NEW q \in OidcLogins,
                 oidc[o].pc = "done", oidc[q].pc = "done"
          PROVE  /\ oidc[o].provider = oidc[q].provider
                 /\ moved = {} => oidc[o].subject = oidc[q].subject
      BY <1>1, <2>2 DEF AccountInv, OidcOfProvider, OidcIsOwner
    <2> QED BY <2>1, <2>2 DEF ClaimedOnce
  <1> QED BY <1>1, AccountInitInv, AccountInvStep, PTL DEF AccountSpec

=============================================================================
