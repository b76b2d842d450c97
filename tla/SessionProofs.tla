---------------------------- MODULE SessionProofs ----------------------------
(***************************************************************************)
(* Proofs about Session, for any number of tabs, tokens, requests and      *)
(* faults.                                                                 *)
(***************************************************************************)
EXTENDS Session, TLAPS

USE SessionAssumption DEF None, Token, Tabs

Ops == {"refresh", "freshen", "logout", "orphan"}
At  == RunStates \union {"answer", "failed", "save"}

\* r stands where q stood: the same call of the same client about the same token.
Same(r, q) == r \in Request /\ r.tab = q.tab /\ r.op = q.op /\ r.tok = q.tok /\ r.cur = q.cur
\* The call q goes on as r.
Moves(q, r, at, targets, new) ==
    /\ reqs' = (reqs \ {q}) \union {r} /\ Same(r, q)
    /\ r.at = at /\ r.targets = targets /\ r.new = new
\* q as a sign-out and as a reload of tab b leave it.
Disowned(q, b) == IF q.tab = b /\ q.op = "refresh" THEN [q EXCEPT !.cur = FALSE] ELSE q
Forsaken(q, b) == IF q.tab = b THEN [q EXCEPT !.cur = FALSE, !.op = "orphan"] ELSE q
Consumed(q) == IF ~Live(q.tok) THEN "missed" ELSE IF blocked THEN "barred" ELSE "consumed"
\* r is a call just sent.
Fresh(r, b, k) == /\ r \in Request /\ r.tab = b /\ r.tok = k /\ r.at = "begin"
                  /\ r.targets = {} /\ r.new = 0 /\ r.cur = TRUE

-----------------------------------------------------------------------------
(* Requests.                                                               *)

\* What a request holds.
LEMMA Fields ==
    ASSUME NEW q \in Request
    PROVE  /\ q.tab \in Tabs /\ q.op \in Ops /\ q.tok \in Token /\ q.at \in At
           /\ q.targets \in SUBSET Token /\ q.new \in 0..MaxTokens /\ q.cur \in BOOLEAN
  BY DEF Request, Ops, At

\* A request as it is sent.
LEMMA Sent ==
    ASSUME NEW b \in Tabs, NEW op \in Ops, NEW k \in Token
    PROVE  Fresh(Send(b, op, k), b, k) /\ Send(b, op, k).op = op
<1>1. {} \in SUBSET Token /\ 0 \in 0..MaxTokens
  OBVIOUS
<1>2. QED
  BY <1>1 DEF Fresh, Send, Request, RunStates, Ops

\* A request moves on,
LEMMA Moved ==
    ASSUME NEW q \in Request, NEW s \in At
    PROVE  LET r == [q EXCEPT !.at = s]
           IN  Same(r, q) /\ r.at = s /\ r.targets = q.targets /\ r.new = q.new
  BY DEF Request, At, Same

\* or is nobody's any more.
LEMMA Left ==
    ASSUME NEW q \in Request
    PROVE  /\ LET r == [q EXCEPT !.cur = FALSE]
              IN  /\ r \in Request /\ r.tab = q.tab /\ r.op = q.op /\ r.tok = q.tok /\ r.at = q.at
                  /\ r.targets = q.targets /\ r.new = q.new /\ r.cur = FALSE
           /\ LET r == [q EXCEPT !.cur = FALSE, !.op = "orphan"]
              IN  /\ r \in Request /\ r.tab = q.tab /\ r.op = "orphan" /\ r.tok = q.tok /\ r.at = q.at
                  /\ r.targets = q.targets /\ r.new = q.new /\ r.cur = FALSE
  BY DEF Request

-----------------------------------------------------------------------------
(* What each action makes of the requests.                                 *)

\* The conditional UPDATE has run.
LEMMA Consumes ==
    ASSUME TypeOK, NEW q \in reqs, Consume(q)
    PROVE  \E r : Moves(q, r, Consumed(q), q.targets, q.new)
<1> DEFINE r == [q EXCEPT !.at = Consumed(q)]
<1>1. q \in Request /\ Consumed(q) \in At
  BY DEF TypeOK, At, RunStates, Consumed
<1>2. Same(r, q) /\ r.at = Consumed(q) /\ r.targets = q.targets /\ r.new = q.new
  BY <1>1, Moved
<1>3. reqs' = (reqs \ {q}) \union {r}
  BY DEF Consume, Becomes, Consumed
<1>4. QED
  BY <1>2, <1>3 DEF Moves

\* A rotation answers with the successor,
LEMMA Rotates ==
    ASSUME TypeOK, NEW q \in reqs, Rotate(q)
    PROVE  \E r : Moves(q, r, "answer", q.targets, issued + 1)
<1> DEFINE r == [q EXCEPT !.at = "answer", !.new = issued + 1]
<1>1. q \in Request /\ issued + 1 \in 0..MaxTokens
  BY DEF TypeOK, Rotate
<1>2. Same(r, q) /\ r.at = "answer" /\ r.targets = q.targets /\ r.new = issued + 1
  BY <1>1 DEF Same, Request, At, RunStates
<1>3. reqs' = (reqs \ {q}) \union {r}
  BY DEF Rotate, Becomes
<1>4. QED
  BY <1>2, <1>3 DEF Moves

\* a refusal,
LEMMA RevokesUser ==
    ASSUME TypeOK, NEW q \in reqs, RevokeUser(q)
    PROVE  \E r : Moves(q, r, "answer", q.targets, q.new)
<1> DEFINE r == [q EXCEPT !.at = "answer"]
<1>1. q \in Request /\ "answer" \in At
  BY DEF TypeOK, At
<1>2. Same(r, q) /\ r.at = "answer" /\ r.targets = q.targets /\ r.new = q.new
  BY <1>1, Moved
<1>3. reqs' = (reqs \ {q}) \union {r}
  BY DEF RevokeUser, Becomes
<1>4. QED
  BY <1>2, <1>3 DEF Moves

\* a logout
LEMMA LogsOut ==
    ASSUME TypeOK, NEW q \in reqs, Logout(q)
    PROVE  \E r : Moves(q, r, "answer", q.targets, q.new)
<1> DEFINE r == [q EXCEPT !.at = "answer"]
<1>1. q \in Request /\ "answer" \in At
  BY DEF TypeOK, At
<1>2. Same(r, q) /\ r.at = "answer" /\ r.targets = q.targets /\ r.new = q.new
  BY <1>1, Moved
<1>3. reqs' = (reqs \ {q}) \union {r}
  BY DEF Logout, Becomes
<1>4. QED
  BY <1>2, <1>3 DEF Moves

\* and the end of a replay without one.
LEMMA RevokesFamily ==
    ASSUME TypeOK, NEW q \in reqs, RevokeFamily(q)
    PROVE  \E r : Moves(q, r, "answer", {}, q.new)
<1> DEFINE r == [q EXCEPT !.at = "answer", !.targets = {}]
<1>1. q \in Request /\ {} \in SUBSET Token
  BY DEF TypeOK, RevokeFamily
<1>2. Same(r, q) /\ r.at = "answer" /\ r.targets = {} /\ r.new = q.new
  BY <1>1 DEF Same, Request, At, RunStates
<1>3. reqs' = (reqs \ {q}) \union {r}
  BY DEF RevokeFamily, Becomes
<1>4. QED
  BY <1>2, <1>3 DEF Moves

\* A transaction is rolled back.
LEMMA Aborts ==
    ASSUME TypeOK, NEW q \in reqs, Abort(q)
    PROVE  \E r : Moves(q, r, "failed", {}, q.new)
<1> DEFINE r == [q EXCEPT !.at = "failed", !.targets = {}]
<1>1. q \in Request /\ {} \in SUBSET Token
  BY DEF TypeOK, Abort
<1>2. Same(r, q) /\ r.at = "failed" /\ r.targets = {} /\ r.new = q.new
  BY <1>1 DEF Same, Request, At, RunStates
<1>3. reqs' = (reqs \ {q}) \union {r}
  BY DEF Abort, Becomes
<1>4. QED
  BY <1>2, <1>3 DEF Moves

\* An answer is lost with what it carried.
LEMMA LosesAnswer ==
    ASSUME TypeOK, NEW q \in reqs, LoseAnswer(q)
    PROVE  \E r : Moves(q, r, "failed", q.targets, 0)
<1> DEFINE r == [q EXCEPT !.at = "failed", !.new = None]
<1>1. q \in Request /\ 0 \in 0..MaxTokens
  BY DEF TypeOK, LoseAnswer
<1>2. Same(r, q) /\ r.at = "failed" /\ r.targets = q.targets /\ r.new = 0
  BY <1>1 DEF Same, Request, At, RunStates
<1>3. reqs' = (reqs \ {q}) \union {r}
  BY DEF LoseAnswer, Becomes
<1>4. QED
  BY <1>2, <1>3 DEF Moves

\* The client gives up on a call.
LEMMA TimesOut ==
    ASSUME TypeOK, NEW q \in reqs, Timeout(q)
    PROVE  \E r : /\ Becomes(q, r) /\ r \in Request /\ r.tok = q.tok /\ r.at = q.at
                 /\ r.targets = q.targets /\ r.new = q.new /\ r.op = "orphan" /\ r.cur = FALSE
<1> DEFINE r == [q EXCEPT !.cur = FALSE, !.op = "orphan"]
<1>1. q \in Request
  BY DEF TypeOK
<1>2. /\ r \in Request /\ r.tok = q.tok /\ r.at = q.at
      /\ r.targets = q.targets /\ r.new = q.new /\ r.op = "orphan" /\ r.cur = FALSE
  BY <1>1, Left
<1>3. Becomes(q, r)
  BY DEF Timeout
<1>4. QED
  BY <1>2, <1>3

\* The first half of the family UPDATE: a refusal, or the rows to revoke.
LEMMA Scans ==
    ASSUME TypeOK, NEW q \in reqs, ScanFamily(q)
    PROVE  \E r : \/ Moves(q, r, "answer", q.targets, q.new)
                 \/ /\ token[q.tok].state = "old"
                    /\ Moves(q, r, "revoking", {k \in Family(token[q.tok].family) : Live(k)}, q.new)
<1> DEFINE T == {k \in Family(token[q.tok].family) : Live(k)}
<1>1. q \in Request /\ "answer" \in At /\ "revoking" \in At /\ T \in SUBSET Token
  BY DEF TypeOK, At, RunStates, Family
<1>2. CASE token[q.tok].state # "old"
  <2> DEFINE r == [q EXCEPT !.at = "answer"]
  <2>1. Same(r, q) /\ r.at = "answer" /\ r.targets = q.targets /\ r.new = q.new
    BY <1>1, Moved
  <2>2. reqs' = (reqs \ {q}) \union {r}
    BY <1>2 DEF ScanFamily, Becomes
  <2>3. QED
    BY <2>1, <2>2 DEF Moves
<1>3. CASE token[q.tok].state = "old"
  <2> DEFINE r == [q EXCEPT !.at = "revoking", !.targets = T]
  <2>1. Same(r, q) /\ r.at = "revoking" /\ r.targets = T /\ r.new = q.new
    BY <1>1 DEF Same, Request, At, RunStates
  <2>2. reqs' = (reqs \ {q}) \union {r}
    BY <1>3 DEF ScanFamily, Becomes
  <2>3. QED
    BY <1>3, <2>1, <2>2 DEF Moves
<1>4. QED
  BY <1>2, <1>3

\* A refresh sends one call about the token kept,
LEMMA Asks ==
    ASSUME TypeOK, NEW b \in Tabs, RefreshAccessToken(b)
    PROVE  \E r : reqs' = reqs \union {r} /\ Fresh(r, b, cred) /\ cred # 0 /\ r.op = "refresh"
<1>1. cred \in Token /\ "refresh" \in Ops
  BY DEF TypeOK, RefreshAccessToken, Ops
<1>2. Fresh(Send(b, "refresh", cred), b, cred) /\ Send(b, "refresh", cred).op = "refresh"
  BY <1>1, Sent
<1>3. QED
  BY <1>1, <1>2 DEF RefreshAccessToken

\* and so does the sign-out of the app.
LEMMA AsksOut ==
    ASSUME TypeOK, NEW b \in Tabs, NativeSignOut(b)
    PROVE  \E r : reqs' = reqs \union {r} /\ Fresh(r, b, cred) /\ cred # 0 /\ r.op = "logout"
<1>1. cred \in Token /\ "logout" \in Ops
  BY DEF TypeOK, NativeSignOut, Ops
<1>2. Fresh(Send(b, "logout", cred), b, cred) /\ Send(b, "logout", cred).op = "logout"
  BY <1>1, Sent
<1>3. QED
  BY <1>1, <1>2 DEF NativeSignOut

\* The sign-out of a tab outdates its refreshes and may send one call.
LEMMA SignsOut ==
    ASSUME TypeOK, NEW b \in Tabs, WebSignOut(b)
    PROVE  \A r \in reqs' :
              \/ r \in Outdated(b)
              \/ Fresh(r, b, cred) /\ cred # 0 /\ r.op \in {"freshen", "logout"}
<1>1. PICK op \in {"freshen", "logout"} :
          reqs' = Outdated(b) \union (IF cred # None THEN {Send(b, op, cred)} ELSE {})
  BY DEF WebSignOut
<1>2. cred # 0 => Fresh(Send(b, op, cred), b, cred) /\ Send(b, op, cred).op = op
  <2>1. ASSUME cred # 0 PROVE cred \in Token /\ op \in Ops
    BY <2>1 DEF TypeOK, Ops
  <2>2. QED
    BY <2>1, Sent
<1>3. QED
  BY <1>1, <1>2

\* An outdated call is as it was but for whom it answers.
LEMMA OutdatedSame ==
    ASSUME TypeOK, NEW b \in Tabs, NEW r \in Outdated(b)
    PROVE  \E q \in reqs : /\ r = Disowned(q, b)
                          /\ r \in Request /\ r.tab = q.tab /\ r.op = q.op /\ r.tok = q.tok
                          /\ r.at = q.at /\ r.targets = q.targets /\ r.new = q.new
                          /\ r.cur = (IF q.tab = b /\ q.op = "refresh" THEN FALSE ELSE q.cur)
<1>1. PICK q \in reqs : r = Disowned(q, b)
  BY DEF Outdated, Disowned
<1>2. q \in Request
  BY DEF TypeOK
<1>3. CASE q.tab = b /\ q.op = "refresh"
  BY <1>1, <1>2, <1>3, Left DEF Disowned
<1>4. CASE ~(q.tab = b /\ q.op = "refresh")
  BY <1>1, <1>2, <1>4 DEF Disowned
<1>5. QED
  BY <1>3, <1>4

\* After a reload the calls of the tab are nobody's.
LEMMA Reloads ==
    ASSUME TypeOK, NEW b \in Tabs, Reload(b), NEW r \in reqs'
    PROVE  \E q \in reqs : /\ r = Forsaken(q, b)
                          /\ r \in Request /\ r.tab = q.tab /\ r.tok = q.tok
                          /\ r.at = q.at /\ r.targets = q.targets /\ r.new = q.new
                          /\ r.cur = (IF q.tab = b THEN FALSE ELSE q.cur)
                          /\ r.op = (IF q.tab = b THEN "orphan" ELSE q.op)
<1>1. PICK q \in reqs : r = Forsaken(q, b)
  BY DEF Reload, Forsaken
<1>2. q \in Request
  BY DEF TypeOK
<1>3. CASE q.tab = b
  BY <1>1, <1>2, <1>3, Left DEF Forsaken
<1>4. CASE q.tab # b
  BY <1>1, <1>2, <1>4 DEF Forsaken
<1>5. QED
  BY <1>3, <1>4

\* Whatever a reload left came from a request, at the same point.
LEMMA ReloadsFrom ==
    ASSUME TypeOK, NEW b \in Tabs, Reload(b), NEW r \in reqs'
    PROVE  /\ r \in Request
           /\ \E q \in reqs : /\ r = Forsaken(q, b) /\ r.tok = q.tok
                              /\ r.at = q.at /\ r.targets = q.targets /\ r.new = q.new
<1>1. PICK q \in reqs : r = Forsaken(q, b)
  BY DEF Reload, Forsaken
<1>2. q \in Request
  BY DEF TypeOK
<1>3. r \in Request /\ r.tok = q.tok /\ r.at = q.at /\ r.targets = q.targets /\ r.new = q.new
  <2>1. CASE q.tab = b
    BY <1>1, <1>2, <2>1, Left DEF Forsaken
  <2>2. CASE q.tab # b
    BY <1>1, <1>2, <2>2 DEF Forsaken
  <2>3. QED
    BY <2>1, <2>2
<1>4. QED
  BY <1>1, <1>3

\* A freshened tab goes on to log out with the new token.
LEMMA Freshens ==
    ASSUME TypeOK, NEW q \in reqs, WebFreshened(q)
    PROVE  IF q.new = 0 THEN reqs' = reqs \ {q} /\ cred' = cred
           ELSE /\ cred' = q.new
                /\ \E r : Becomes(q, r) /\ Fresh(r, q.tab, q.new) /\ r.op = "logout"
<1>1. CASE q.new = 0
  BY <1>1 DEF WebFreshened, Ends
<1>2. CASE q.new # 0
  <2>1. q.new \in Token /\ q.tab \in Tabs /\ "logout" \in Ops
    BY <1>2, Fields DEF TypeOK, Ops
  <2>2. Fresh(Send(q.tab, "logout", q.new), q.tab, q.new)
        /\ Send(q.tab, "logout", q.new).op = "logout"
    BY <2>1, Sent
  <2>3. QED
    BY <1>2, <2>2 DEF WebFreshened
<1>3. QED
  BY <1>1, <1>2

\* The app drops an answer, goes on to store its token, or signs out.
LEMMA NativeTakes ==
    ASSUME TypeOK, NEW q \in reqs, NativeRefreshed(q)
    PROVE  \/ reqs' = reqs \ {q} /\ (cred # q.tok \/ q.at = "failed" \/ q.new = 0)
           \/ /\ cred = q.tok /\ q.at = "answer" /\ q.new # 0
              /\ \E r : Moves(q, r, "save", q.targets, q.new)
           \/ /\ cred = q.tok /\ q.at = "answer" /\ q.new = 0
              /\ \E r : Becomes(q, r) /\ Fresh(r, q.tab, cred) /\ r.op = "logout"
<1>1. q \in Request /\ q.tab \in Tabs /\ q.tok \in Token /\ "save" \in At /\ "logout" \in Ops
  BY Fields DEF TypeOK, At, Ops
<1>2. CASE cred # q.tok \/ q.at = "failed"
  BY <1>2 DEF NativeRefreshed
<1>3. CASE cred = q.tok /\ q.at = "answer" /\ q.new # None
  <2> DEFINE r == [q EXCEPT !.at = "save"]
  <2>1. Same(r, q) /\ r.at = "save" /\ r.new = q.new /\ r.targets = q.targets
    BY <1>1, Moved
  <2>2. reqs' = (reqs \ {q}) \union {r}
    BY <1>3 DEF NativeRefreshed
  <2>3. QED
    BY <1>3, <2>1, <2>2 DEF Moves
<1>4. CASE cred = q.tok /\ q.at = "answer" /\ q.new = None
  <2> DEFINE r == Send(q.tab, "logout", cred)
  <2>1. Fresh(r, q.tab, cred) /\ r.op = "logout"
    BY <1>1, <1>4, Sent
  <2>2. Becomes(q, r) \/ reqs' = reqs \ {q}
    BY <1>4 DEF NativeRefreshed, Becomes
  <2>3. QED
    BY <1>4, <2>1, <2>2
<1>5. QED
  BY <1>2, <1>3, <1>4 DEF NativeRefreshed, Answered

-----------------------------------------------------------------------------
(* What each action makes of the tokens.                                   *)

\* A sign-in issues the first token of a family.
LEMMA Issues ==
    ASSUME TypeOK, NEW b \in Tabs, SignIn(b)
    PROVE  /\ issued + 1 \in Token /\ issued' = issued + 1
           /\ token' \in [Token -> TokenRow]
           /\ token'[issued + 1].state = "live" /\ token'[issued + 1].family = issued + 1
           /\ \A k \in Token \ {issued + 1} : token'[k] = token[k]
  BY DEF TypeOK, SignIn, IssueSession, TokenRow

\* ... and keeps the types.
LEMMA SignInTypes ==
    ASSUME TypeOK, NEW b \in Tabs, SignIn(b), out' \in [Tabs -> BOOLEAN]
    PROVE  TypeOK'
<1>1. /\ issued \in Nat /\ issued + 1 \in Token /\ issued' = issued + 1
      /\ token' \in [Token -> TokenRow] /\ token'[issued + 1].state = "live"
      /\ \A k \in Token \ {issued + 1} : token'[k] = token[k]
  BY Issues DEF TypeOK
<1>2. ASSUME NEW k \in Token
      PROVE  token'[k].state = "none" <=> k > issued'
  <2>1. CASE k = issued + 1
    BY <1>1, <2>1
  <2>2. CASE k # issued + 1
    <3>1. token'[k] = token[k] /\ (token[k].state = "none" <=> k > issued)
      BY <1>1, <2>2 DEF TypeOK
    <3>2. k > issued <=> k > issued'
      BY <1>1, <2>2 DEF Token
    <3>3. QED
      BY <3>1, <3>2
  <2>3. QED
    BY <2>1, <2>2
<1>3. ASSUME NEW q \in reqs
      PROVE  q.tok <= issued' /\ q.new <= issued' /\ q.targets \subseteq 1..issued'
  <2>1. /\ q.tok \in Token /\ q.new \in 0..MaxTokens
        /\ q.tok <= issued /\ q.new <= issued /\ q.targets \subseteq 1..issued
    BY Fields DEF TypeOK
  <2>2. QED
    BY <1>1, <2>1, SessionAssumption DEF Token
<1>4. reqs' = reqs /\ issued' \in 0..MaxTokens /\ cred' \in 0..issued'
  BY <1>1 DEF SignIn, Token
<1>5. kind' \in {"native", "web"} /\ shown' \in [Tabs -> BOOLEAN]
  BY DEF TypeOK, SignIn
<1>6. reqs \subseteq Request
  BY DEF TypeOK
<1>7. QED
  BY <1>1, <1>2, <1>3, <1>4, <1>5, <1>6 DEF TypeOK

\* A rotation spends a token and issues the next of its family.
LEMMA RotatesToken ==
    ASSUME TypeOK, NEW q \in reqs, Rotate(q)
    PROVE  /\ issued + 1 \in Token /\ issued' = issued + 1 /\ q.tok # issued + 1 /\ q.tok \in Token
           /\ token' \in [Token -> TokenRow]
           /\ token'[issued + 1].state = "live"
           /\ token'[issued + 1].family = token[q.tok].family
           /\ token'[q.tok].state = "spent" /\ token'[q.tok].family = token[q.tok].family
           /\ \A k \in Token \ {issued + 1, q.tok} : token'[k] = token[k]
<1>1. q.tok \in Token /\ q.tok # issued + 1 /\ issued + 1 \in Token
  BY Fields DEF TypeOK, Rotate
<1>2. [token EXCEPT ![q.tok].state = "spent"] \in [Token -> TokenRow]
  BY <1>1 DEF TypeOK, TokenRow
<1>3. QED
  BY <1>1, <1>2 DEF TypeOK, Rotate, IssueSession, TokenRow

\* A revocation spends what is live of its targets.
LEMMA Dies ==
    ASSUME TypeOK, NEW T, token' = Dead(token, T)
    PROVE  /\ token' \in [Token -> TokenRow]
           /\ \A k \in Token :
                 /\ token'[k].family = token[k].family
                 /\ token'[k].state = IF k \in T /\ token[k].state = "live" THEN "spent"
                                      ELSE token[k].state
  BY DEF TypeOK, Dead, TokenRow

\* A token grows old or expires.
LEMMA AgesToken ==
    ASSUME TypeOK, NEW k \in Token, Ages(k)
    PROVE  /\ token' \in [Token -> TokenRow]
           /\ token'[k].state = "old" /\ token'[k].family = token[k].family
           /\ \A l \in Token \ {k} : token'[l] = token[l]
  BY DEF TypeOK, Ages, TokenRow

LEMMA ExpiresToken ==
    ASSUME TypeOK, NEW k \in Token, Expire(k)
    PROVE  /\ token' \in [Token -> TokenRow]
           /\ token'[k].state = "expired" /\ token'[k].family = token[k].family
           /\ \A l \in Token \ {k} : token'[l] = token[l]
  BY DEF TypeOK, Expire, TokenRow

-----------------------------------------------------------------------------
(* The parts of the invariant.                                             *)

\* Every action keeps the types.
LEMMA SessionTyping ==
    ASSUME TypeOK, [Next]_vars
    PROVE  TypeOK'
<1> USE Fields DEF TypeOK
<1>1. ASSUME NEW b \in Tabs, WebSignIn(b)
      PROVE  TypeOK'
  <2> HIDE Fields DEF TypeOK
  <2>1. SignIn(b) /\ out' \in [Tabs -> BOOLEAN]
    BY <1>1 DEF WebSignIn, TypeOK
  <2>2. QED
    BY <2>1, SignInTypes
<1>2. ASSUME NEW b \in Tabs, NativeSignIn(b)
      PROVE  TypeOK'
  <2> HIDE Fields DEF TypeOK
  <2>1. SignIn(b) /\ out' \in [Tabs -> BOOLEAN]
    BY <1>2 DEF NativeSignIn, TypeOK
  <2>2. QED
    BY <2>1, SignInTypes
<1>3. ASSUME NEW b \in Tabs, RefreshAccessToken(b)
      PROVE  TypeOK'
  <2>1. PICK r : reqs' = reqs \union {r} /\ Fresh(r, b, cred) /\ cred # 0 /\ r.op = "refresh"
    BY <1>3, Asks
  <2>2. QED
    BY <1>3, <2>1 DEF RefreshAccessToken, Fresh, server, client
<1>4. ASSUME NEW b \in Tabs, NoToken(b)
      PROVE  TypeOK'
  BY <1>4 DEF NoToken, server
<1>5. ASSUME NEW b \in Tabs, WebSignOut(b)
      PROVE  TypeOK'
  <2>1. ASSUME NEW r \in reqs'
        PROVE  r \in Request /\ r.tok <= issued /\ r.new <= issued /\ r.targets \subseteq 1..issued
    <3>1. CASE r \in Outdated(b)
      <4>1. r \in Request /\ \E q \in reqs : r.tok = q.tok /\ r.new = q.new /\ r.targets = q.targets
        <5> HIDE Fields DEF TypeOK
        <5>1. QED
          BY <3>1, OutdatedSame
      <4>2. QED
        BY <4>1
    <3>2. CASE Fresh(r, b, cred)
      BY <3>2 DEF Fresh
    <3>3. QED
      BY <1>5, <3>1, <3>2, SignsOut
  <2>2. QED
    BY <1>5, <2>1 DEF WebSignOut, server
<1>6. ASSUME NEW b \in Tabs, NativeSignOut(b)
      PROVE  TypeOK'
  <2>1. PICK r : reqs' = reqs \union {r} /\ Fresh(r, b, cred) /\ cred # 0 /\ r.op = "logout"
    BY <1>6, AsksOut
  <2>2. QED
    BY <1>6, <2>1 DEF NativeSignOut, Fresh, server, client
<1>7. ASSUME NEW b \in Tabs, Reload(b)
      PROVE  TypeOK'
  <2>1. ASSUME NEW r \in reqs'
        PROVE  r \in Request /\ r.tok <= issued /\ r.new <= issued /\ r.targets \subseteq 1..issued
    <3>1. r \in Request /\ \E p \in reqs : r.tok = p.tok /\ r.targets = p.targets /\ r.new = p.new
      <4> HIDE Fields DEF TypeOK
      <4>1. QED
        BY <1>7, <2>1, ReloadsFrom
    <3>2. QED
      BY <3>1
  <2>2. QED
    BY <1>7, <2>1 DEF Reload, server
<1>8. ASSUME NEW q \in reqs, Consume(q)
      PROVE  TypeOK'
  <2>1. PICK r : Moves(q, r, Consumed(q), q.targets, q.new)
    BY <1>8, Consumes
  <2>2. QED
    BY <1>8, <2>1 DEF Consume, Consumed, Moves, Same, server, client
<1>9. ASSUME NEW q \in reqs, Rotate(q)
      PROVE  TypeOK'
  <2>1. PICK r : Moves(q, r, "answer", q.targets, issued + 1)
    BY <1>9, Rotates
  <2>2. /\ issued + 1 \in Token /\ issued' = issued + 1 /\ token' \in [Token -> TokenRow]
        /\ \A k \in Token : token'[k].state = "none" <=> k > issued'
    <3>1. /\ issued + 1 \in Token /\ issued' = issued + 1 /\ token' \in [Token -> TokenRow]
          /\ token'[issued + 1].state = "live" /\ token'[q.tok].state = "spent"
          /\ q.tok <= issued /\ \A k \in Token \ {issued + 1, q.tok} : token'[k] = token[k]
      BY <1>9, RotatesToken
    <3>2. ASSUME NEW k \in Token PROVE token'[k].state = "none" <=> k > issued'
      <4>1. CASE k = issued + 1
        BY <3>1, <4>1
      <4>2. CASE k = q.tok
        BY <3>1, <4>2
      <4>3. CASE k \notin {issued + 1, q.tok}
        BY <3>1, <4>3
      <4>4. QED
        BY <4>1, <4>2, <4>3
    <3>3. QED
      BY <3>1, <3>2
  <2>3. \A p \in reqs : p.tok <= issued' /\ p.new <= issued' /\ p.targets \subseteq 1..issued'
    BY <2>2
  <2>4. r \in Request /\ r.tok <= issued' /\ r.new <= issued' /\ r.targets \subseteq 1..issued'
    BY <2>1, <2>2, <2>3 DEF Moves, Same
  <2>5. QED
    <3>1. reqs' \subseteq Request
          /\ \A p \in reqs' : p.tok <= issued' /\ p.new <= issued' /\ p.targets \subseteq 1..issued'
      BY <2>1, <2>3, <2>4 DEF Moves
    <3>2. /\ kind' = kind /\ cred' = cred /\ shown' = shown /\ out' = out
          /\ issued' \in 0..MaxTokens /\ cred \in 0..issued'
      BY <1>9, <2>2 DEF Rotate, client
    <3>3. QED
      BY <2>2, <3>1, <3>2
<1>10. ASSUME NEW q \in reqs, RevokeUser(q)
      PROVE  TypeOK'
  <2>1. PICK r : Moves(q, r, "answer", q.targets, q.new)
    BY <1>10, RevokesUser
  <2>2. QED
    BY <1>10, <2>1, Dies DEF RevokeUser, Moves, Same, client
<1>11. ASSUME NEW q \in reqs, ScanFamily(q)
      PROVE  TypeOK'
  <2>1. PICK r : \/ Moves(q, r, "answer", q.targets, q.new)
                 \/ /\ token[q.tok].state = "old"
                    /\ Moves(q, r, "revoking", {k \in Family(token[q.tok].family) : Live(k)}, q.new)
    BY <1>11, Scans
  <2>2. {k \in Family(token[q.tok].family) : Live(k)} \subseteq 1..issued
    BY DEF Family, Live
  <2>3. r \in Request /\ r.tok <= issued /\ r.new <= issued /\ r.targets \subseteq 1..issued
    BY <2>1, <2>2 DEF Moves, Same
  <2>4. QED
    BY <1>11, <2>1, <2>3 DEF ScanFamily, Moves, server, client
<1>12. ASSUME NEW q \in reqs, RevokeFamily(q)
      PROVE  TypeOK'
  <2>1. PICK r : Moves(q, r, "answer", {}, q.new)
    BY <1>12, RevokesFamily
  <2>2. QED
    BY <1>12, <2>1, Dies DEF RevokeFamily, Moves, Same, client
<1>13. ASSUME NEW q \in reqs, Logout(q)
      PROVE  TypeOK'
  <2>1. PICK r : Moves(q, r, "answer", q.targets, q.new)
    BY <1>13, LogsOut
  <2>2. QED
    BY <1>13, <2>1, Dies DEF Logout, Moves, Same, client
<1>14. ASSUME NEW q \in reqs, Abort(q)
      PROVE  TypeOK'
  <2>1. PICK r : Moves(q, r, "failed", {}, q.new)
    BY <1>14, Aborts
  <2>2. QED
    BY <1>14, <2>1 DEF Abort, Moves, Same, server, client
<1>15. ASSUME NEW q \in reqs, WebRefreshed(q)
      PROVE  TypeOK'
  BY <1>15 DEF WebRefreshed, Ends, Answered, server
<1>16. ASSUME NEW q \in reqs, WebFreshened(q)
      PROVE  TypeOK'
  <2>1. CASE q.new = 0
    BY <1>16, <2>1, Freshens DEF WebFreshened, server
  <2>2. CASE q.new # 0
    <3>1. PICK r : Becomes(q, r) /\ Fresh(r, q.tab, q.new) /\ r.op = "logout"
      BY <1>16, <2>2, Freshens
    <3>2. QED
      BY <1>16, <2>2, <3>1 DEF WebFreshened, Becomes, Fresh, server
  <2>3. QED
    BY <2>1, <2>2
<1>17. ASSUME NEW q \in reqs, WebLoggedOut(q)
      PROVE  TypeOK'
  BY <1>17 DEF WebLoggedOut, Ends, Answered, server
<1>18. ASSUME NEW q \in reqs, NativeRefreshed(q)
      PROVE  TypeOK'
  <2>1. CASE reqs' = reqs \ {q}
    BY <1>18, <2>1 DEF NativeRefreshed, server, client
  <2>2. CASE \E r : Moves(q, r, "save", q.targets, q.new)
    BY <1>18, <2>2 DEF NativeRefreshed, Moves, Same, server, client
  <2>3. CASE \E r : cred = q.tok /\ Becomes(q, r) /\ Fresh(r, q.tab, cred)
    <3>1. PICK r : Becomes(q, r) /\ Fresh(r, q.tab, cred)
      BY <2>3
    <3>2. r \in Request /\ r.tok <= issued /\ r.new <= issued /\ r.targets \subseteq 1..issued
      BY <3>1 DEF Fresh
    <3>3. QED
      BY <1>18, <3>1, <3>2 DEF NativeRefreshed, Becomes, server, client
  <2>4. QED
    BY <1>18, <2>1, <2>2, <2>3, NativeTakes
<1>19. ASSUME NEW q \in reqs, NativeSaved(q)
      PROVE  TypeOK'
  BY <1>19 DEF NativeSaved, Ends, server
<1>20. ASSUME NEW q \in reqs, NativeSignedOut(q)
      PROVE  TypeOK'
  BY <1>20 DEF NativeSignedOut, Ends, Answered, server
<1>21. ASSUME NEW q \in reqs, LoseAnswer(q)
      PROVE  TypeOK'
  <2>1. PICK r : Moves(q, r, "failed", q.targets, 0)
    BY <1>21, LosesAnswer
  <2>2. QED
    BY <1>21, <2>1 DEF LoseAnswer, Moves, Same, server, client
<1>22. ASSUME NEW q \in reqs, Timeout(q)
      PROVE  TypeOK'
  <2>1. PICK r : /\ Becomes(q, r) /\ r \in Request /\ r.tok = q.tok /\ r.at = q.at
                 /\ r.targets = q.targets /\ r.new = q.new /\ r.op = "orphan" /\ r.cur = FALSE
    BY <1>22, TimesOut
  <2>2. QED
    BY <1>22, <2>1 DEF Timeout, Becomes, server
<1>23. ASSUME NEW q \in reqs, Orphaned(q)
      PROVE  TypeOK'
  BY <1>23 DEF Orphaned, Ends, Answered, server, client
<1>24. ASSUME NEW k \in Token, Ages(k)
      PROVE  TypeOK'
  BY <1>24, AgesToken DEF Ages, client
<1>25. ASSUME NEW k \in Token, Expire(k)
      PROVE  TypeOK'
  <2>1. /\ token' \in [Token -> TokenRow]
        /\ \A l \in Token : token'[l].state = "none" <=> l > issued
    BY <1>25, ExpiresToken DEF Expire, Live
  <2>2. QED
    BY <1>25, <2>1 DEF Expire, client
<1>26. CASE Block
  BY <1>26 DEF Block, client
<1>27. CASE UNCHANGED vars
  BY <1>27 DEF vars, server, client
<1>28. QED
  BY <1>1, <1>2, <1>3, <1>4, <1>5, <1>6, <1>7, <1>8, <1>9, <1>10, <1>11, <1>12, <1>13, <1>14, <1>15, <1>16, <1>17, <1>18, <1>19, <1>20, <1>21, <1>22, <1>23, <1>24, <1>25, <1>26, <1>27 DEF Next

\* The actions that write a token or end a family.
LEMMA TokenActions ==
    ASSUME [Next]_vars
    PROVE  \/ \E b \in Tabs : SignIn(b)
           \/ \E q \in reqs : Rotate(q) \/ RevokeUser(q) \/ RevokeFamily(q) \/ Logout(q)
           \/ \E k \in Token : Ages(k) \/ Expire(k)
           \/ UNCHANGED <<token, issued, ended>>
<1>1. ASSUME NEW b \in Tabs, \/ WebSignIn(b) \/ NativeSignIn(b) \/ RefreshAccessToken(b) \/ NoToken(b)
                             \/ WebSignOut(b) \/ NativeSignOut(b) \/ Reload(b)
      PROVE  SignIn(b) \/ UNCHANGED <<token, issued, ended>>
  BY <1>1 DEF WebSignIn, NativeSignIn, RefreshAccessToken, NoToken, WebSignOut, NativeSignOut,
              Reload, server
<1>2. ASSUME NEW q \in reqs, \/ Consume(q) \/ ScanFamily(q) \/ Abort(q)
                             \/ WebRefreshed(q) \/ WebFreshened(q) \/ WebLoggedOut(q)
                             \/ NativeRefreshed(q) \/ NativeSaved(q) \/ NativeSignedOut(q)
                             \/ LoseAnswer(q) \/ Timeout(q) \/ Orphaned(q)
      PROVE  UNCHANGED <<token, issued, ended>>
  BY <1>2 DEF Consume, ScanFamily, Abort, WebRefreshed, WebFreshened, WebLoggedOut,
              NativeRefreshed, NativeSaved, NativeSignedOut, LoseAnswer, Timeout, Orphaned, server
<1>3. CASE Block
  BY <1>3 DEF Block
<1>4. CASE UNCHANGED vars
  BY <1>4 DEF vars, server
<1>5. QED
  BY <1>1, <1>2, <1>3, <1>4 DEF Next

\* A family has one live token, and none once a replay has ended it.
LEMMA SessionTokens ==
    ASSUME TypeOK, OneLive, ReplayEnds, FamiliesIssued, LockHolds, ScanTrue, [Next]_vars
    PROVE  (OneLive /\ ReplayEnds /\ FamiliesIssued)'
<1> USE DEF ReplayEnds, FamiliesIssued, Live, Family
<1> DEFINE Unique == \A k, l \in Token : Live(k) /\ Live(l) /\ token[k].family = token[l].family => k = l
<1>0. TypeOK' /\ Unique /\ issued \in 0..MaxTokens
  BY SessionTyping DEF OneLive, TypeOK
<1> SUFFICES (Unique /\ ReplayEnds /\ FamiliesIssued)'
  BY <1>0 DEF OneLive
<1>1. ASSUME NEW b \in Tabs, SignIn(b)
      PROVE  (Unique /\ ReplayEnds /\ FamiliesIssued)'
  <2>1. ended' = ended
    BY <1>1 DEF SignIn
  <2>2. /\ issued + 1 \in Token /\ issued' = issued + 1
        /\ token'[issued + 1].state = "live" /\ token'[issued + 1].family = issued + 1
        /\ \A k \in Token \ {issued + 1} : token'[k] = token[k]
    BY <1>1, Issues
  <2>3. \A k \in Token : token[k].family # issued + 1
    BY DEF TypeOK, TokenRow
  <2>4. Unique'
    BY <1>0, <2>2, <2>3
  <2>5. ASSUME NEW f \in ended', NEW k \in Token, token'[k].family = f
        PROVE  token'[k].state # "live"
    <3>1. f # issued + 1
      BY <1>0, <2>1
    <3>2. QED
      BY <2>1, <2>2, <2>5, <3>1
  <2>6. FamiliesIssued'
    <3>1. \A k \in Token : token[k].family \in 0..MaxTokens
      BY DEF TypeOK, TokenRow
    <3>2. QED
      BY <1>0, <2>1, <2>2, <3>1
  <2>7. QED
    BY <2>4, <2>5, <2>6
<1>2. ASSUME NEW q \in reqs, Rotate(q)
      PROVE  (Unique /\ ReplayEnds /\ FamiliesIssued)'
  <2>1. ended' = ended /\ q.tok \in Token /\ Live(q.tok)
    BY <1>2, Fields DEF Rotate, LockHolds, LockStates, TypeOK
  <2>2. /\ issued + 1 \in Token /\ issued' = issued + 1 /\ q.tok # issued + 1
        /\ token'[issued + 1].state = "live"
        /\ token'[issued + 1].family = token[q.tok].family
        /\ token'[q.tok].state = "spent" /\ token'[q.tok].family = token[q.tok].family
        /\ \A k \in Token \ {issued + 1, q.tok} : token'[k] = token[k]
    BY <1>2, RotatesToken
  <2>3. token[q.tok].family \notin ended
    BY <2>1
  <2>4. \A k \in Token \ {q.tok} : Live(k) => token[k].family # token[q.tok].family
    BY <1>0, <2>1
  <2>5. Unique'
    BY <1>0, <2>1, <2>2, <2>4
  <2>6. ASSUME NEW f \in ended', NEW k \in Token, token'[k].family = f
        PROVE  token'[k].state # "live"
    <3>1. k # issued + 1
      BY <2>1, <2>2, <2>3, <2>6
    <3>2. QED
      BY <2>1, <2>2, <2>6, <3>1
  <2>7. FamiliesIssued'
    <3>1. \A k \in Token : token[k].family \in 0..MaxTokens
      BY DEF TypeOK, TokenRow
    <3>2. QED
      BY <1>0, <2>1, <2>2, <3>1
  <2>8. QED
    BY <2>5, <2>6, <2>7
<1>3. ASSUME NEW q \in reqs, RevokeUser(q) \/ Logout(q)
      PROVE  (Unique /\ ReplayEnds /\ FamiliesIssued)'
  <2>1. ended' = ended /\ issued' = issued /\ \E T : token' = Dead(token, T)
    BY <1>3 DEF RevokeUser, Logout
  <2>2. QED
    BY <1>0, <2>1, Dies
<1>4. ASSUME NEW q \in reqs, RevokeFamily(q)
      PROVE  (Unique /\ ReplayEnds /\ FamiliesIssued)'
  <2>1. /\ q.at = "revoking" /\ issued' = issued /\ token' = Dead(token, q.targets)
        /\ ended' = IF \A k \in q.targets : Live(k) THEN ended \union {token[q.tok].family} ELSE ended
        /\ q.tok \in Token /\ q.targets \subseteq Token /\ q.tok <= issued
    BY <1>4, Fields DEF RevokeFamily, TypeOK
  <2>2. \A k \in Token : /\ token'[k].family = token[k].family
                         /\ token'[k].state = IF k \in q.targets /\ token[k].state = "live" THEN "spent"
                                              ELSE token[k].state
    BY <2>1, Dies
  <2>3. token[q.tok].family \in 0..issued
    BY <2>1 DEF TypeOK, TokenRow
  <2>4. ASSUME \A k \in q.targets : Live(k), NEW l \in Token, token[l].family = token[q.tok].family
        PROVE  ~Live(l)'
    <3>1. CASE q.targets = {}
      BY <2>1, <2>2, <2>4, <3>1 DEF ScanTrue
    <3>2. CASE q.targets # {}
      BY <1>0, <2>1, <2>2, <2>4, <3>2 DEF ScanTrue
    <3>3. QED
      BY <3>1, <3>2
  <2>5. Unique'
    BY <1>0, <2>2
  <2>6. ReplayEnds'
    BY <2>1, <2>2, <2>4
  <2>7. FamiliesIssued'
    BY <2>1, <2>2, <2>3
  <2>8. QED
    BY <2>5, <2>6, <2>7
<1>5. ASSUME NEW k \in Token, Ages(k)
      PROVE  (Unique /\ ReplayEnds /\ FamiliesIssued)'
  BY <1>0, <1>5, AgesToken DEF Ages
<1>6. ASSUME NEW k \in Token, Expire(k)
      PROVE  (Unique /\ ReplayEnds /\ FamiliesIssued)'
  BY <1>0, <1>6, ExpiresToken DEF Expire
<1>7. CASE UNCHANGED <<token, issued, ended>>
  BY <1>0, <1>7
<1>8. QED
  BY <1>1, <1>2, <1>3, <1>4, <1>5, <1>6, <1>7, TokenActions

\* A token is consumed by one transaction at a time, and is live until that commits.
LEMMA SessionLocks ==
    ASSUME TypeOK, LockHolds, [Next]_vars
    PROVE  LockHolds'
<1> USE DEF LockHolds, LockStates, Live
<1>0. issued \in 0..MaxTokens /\ \A q \in reqs : q.tok \in Token /\ q.tok <= issued
  BY Fields DEF TypeOK
<1>1. ASSUME NEW b \in Tabs, WebSignIn(b)
      PROVE  LockHolds'
  <2>1. \A q \in reqs : q.tok \in Token \ {issued + 1}
    BY <1>0
  <2>2. reqs' = reqs /\ \A k \in Token \ {issued + 1} : token'[k] = token[k]
    BY <1>1, Issues DEF WebSignIn, SignIn
  <2>3. QED
    BY <2>1, <2>2
<1>2. ASSUME NEW b \in Tabs, NativeSignIn(b)
      PROVE  LockHolds'
  <2>1. \A q \in reqs : q.tok \in Token \ {issued + 1}
    BY <1>0
  <2>2. reqs' = reqs /\ \A k \in Token \ {issued + 1} : token'[k] = token[k]
    BY <1>2, Issues DEF NativeSignIn, SignIn
  <2>3. QED
    BY <2>1, <2>2
<1>3. ASSUME NEW b \in Tabs, RefreshAccessToken(b)
      PROVE  LockHolds'
  <2>1. PICK r : reqs' = reqs \union {r} /\ Fresh(r, b, cred) /\ cred # 0 /\ r.op = "refresh"
    BY <1>3, Asks
  <2>2. QED
    BY <1>3, <2>1 DEF RefreshAccessToken, Fresh, server, client
<1>4. ASSUME NEW b \in Tabs, NoToken(b)
      PROVE  LockHolds'
  BY <1>4 DEF NoToken, server
<1>5. ASSUME NEW b \in Tabs, WebSignOut(b)
      PROVE  LockHolds'
  <2>1. ASSUME NEW r \in reqs', r.at \in LockStates
        PROVE  \E q \in reqs : /\ r = Disowned(q, b)
                               /\ r.tok = q.tok /\ r.at = q.at
    <3>1. r \in Outdated(b)
      BY <1>5, <2>1, SignsOut DEF Fresh
    <3>2. PICK q \in reqs :
              /\ r = Disowned(q, b)
              /\ r.tok = q.tok /\ r.at = q.at
      BY <3>1, OutdatedSame
    <3>3. QED
      BY <3>2
  <2>2. token' = token
    BY <1>5 DEF WebSignOut, server
  <2>3. ASSUME NEW r \in reqs', NEW s \in reqs', r.at \in LockStates, s.at \in LockStates, r.tok = s.tok
        PROVE  r = s
    <3>1. PICK p \in reqs : /\ r = Disowned(p, b)
                            /\ r.tok = p.tok /\ r.at = p.at
      BY <2>1, <2>3
    <3>2. PICK q \in reqs : /\ s = Disowned(q, b)
                            /\ s.tok = q.tok /\ s.at = q.at
      BY <2>1, <2>3
    <3>3. p = q
      BY <2>3, <3>1, <3>2
    <3>4. QED
      BY <3>1, <3>2, <3>3
  <2>4. \A r \in reqs' : r.at \in LockStates => Live(r.tok)'
    BY <2>1, <2>2
  <2>5. QED
    BY <2>3, <2>4
<1>6. ASSUME NEW b \in Tabs, NativeSignOut(b)
      PROVE  LockHolds'
  <2>1. PICK r : reqs' = reqs \union {r} /\ Fresh(r, b, cred) /\ cred # 0 /\ r.op = "logout"
    BY <1>6, AsksOut
  <2>2. QED
    BY <1>6, <2>1 DEF NativeSignOut, Fresh, server, client
<1>7. ASSUME NEW b \in Tabs, Reload(b)
      PROVE  LockHolds'
  <2>1. ASSUME NEW r \in reqs'
        PROVE  \E q \in reqs : /\ r = Forsaken(q, b)
                               /\ r.tok = q.tok /\ r.at = q.at
    <3>1. PICK q \in reqs :
              /\ r = Forsaken(q, b)
              /\ r.tok = q.tok /\ r.at = q.at
      BY <1>7, <2>1, ReloadsFrom
    <3>2. QED
      BY <3>1
  <2>2. token' = token
    BY <1>7 DEF Reload, server
  <2>3. ASSUME NEW r \in reqs', NEW s \in reqs', r.at \in LockStates, s.at \in LockStates, r.tok = s.tok
        PROVE  r = s
    <3>1. PICK p \in reqs : /\ r = Forsaken(p, b)
                            /\ r.tok = p.tok /\ r.at = p.at
      BY <2>1, <2>3
    <3>2. PICK q \in reqs : /\ s = Forsaken(q, b)
                            /\ s.tok = q.tok /\ s.at = q.at
      BY <2>1, <2>3
    <3>3. p = q
      BY <2>3, <3>1, <3>2
    <3>4. QED
      BY <3>1, <3>2, <3>3
  <2>4. ASSUME NEW r \in reqs', r.at \in LockStates
        PROVE  Live(r.tok)'
    <3>1. PICK p \in reqs : r.tok = p.tok /\ r.at = p.at
      BY <2>1
    <3>2. QED
      BY <2>2, <2>4, <3>1
  <2>5. QED
    BY <2>3, <2>4
<1>8. ASSUME NEW q \in reqs, Consume(q)
      PROVE  LockHolds'
  <2>1. PICK r : Moves(q, r, Consumed(q), q.targets, q.new)
    BY <1>8, Consumes
  <2>2. r.at \in LockStates => Live(q.tok)
    BY <2>1 DEF Moves, Consumed
  <2>3. token' = token /\ \A p \in reqs : p.at \in LockStates => p.tok # q.tok
    BY <1>8 DEF Consume, Locked, server
  <2>4. QED
    BY <2>1, <2>2, <2>3 DEF Moves, Same
<1>9. ASSUME NEW q \in reqs, Rotate(q)
      PROVE  LockHolds'
  <2>1. PICK r : Moves(q, r, "answer", q.targets, issued + 1)
    BY <1>9, Rotates
  <2>2. ASSUME NEW p \in reqs, p # q, p.at \in LockStates
        PROVE  Live(p.tok)'
    <3>1. p.tok \in Token \ {issued + 1, q.tok} /\ Live(p.tok)
      BY <1>0, <1>9, <2>2 DEF Rotate
    <3>2. QED
      BY <1>9, <3>1, RotatesToken
  <2>3. QED
    BY <2>1, <2>2 DEF Moves
<1>10. ASSUME NEW q \in reqs, RevokeUser(q)
      PROVE  LockHolds'
  <2>1. PICK r : Moves(q, r, "answer", q.targets, q.new)
    BY <1>10, RevokesUser
  <2>2. ASSUME NEW p \in reqs, p # q, p.at \in LockStates
        PROVE  Live(p.tok)'
    <3>1. p.tok \in Token /\ Live(p.tok) /\ p.tok # q.tok
      BY <1>0, <1>10, <2>2 DEF RevokeUser, Locked
    <3>2. FALSE
      BY <1>10, <2>2, <3>1 DEF RevokeUser, Locked
    <3>3. QED
      BY <3>2
  <2>3. QED
    BY <2>1, <2>2 DEF Moves
<1>11. ASSUME NEW q \in reqs, ScanFamily(q)
      PROVE  LockHolds'
  <2>1. PICK r : \/ Moves(q, r, "answer", q.targets, q.new)
                 \/ /\ token[q.tok].state = "old"
                    /\ Moves(q, r, "revoking", {k \in Family(token[q.tok].family) : Live(k)}, q.new)
    BY <1>11, Scans
  <2>2. QED
    BY <1>11, <2>1 DEF ScanFamily, Moves, Same, server, client
<1>12. ASSUME NEW q \in reqs, RevokeFamily(q)
      PROVE  LockHolds'
  <2>1. PICK r : Moves(q, r, "answer", {}, q.new)
    BY <1>12, RevokesFamily
  <2>2. ASSUME NEW p \in reqs, p # q, p.at \in LockStates
        PROVE  Live(p.tok)'
    <3>1. p.tok \in Token /\ Live(p.tok) /\ p.tok \notin q.targets
      BY <1>0, <1>12, <2>2 DEF RevokeFamily, Locked
    <3>2. QED
      BY <1>12, <3>1, Dies DEF RevokeFamily
  <2>3. QED
    BY <2>1, <2>2 DEF Moves
<1>13. ASSUME NEW q \in reqs, Logout(q)
      PROVE  LockHolds'
  <2>1. PICK r : Moves(q, r, "answer", q.targets, q.new)
    BY <1>13, LogsOut
  <2>2. ASSUME NEW p \in reqs, p # q, p.at \in LockStates
        PROVE  Live(p.tok)'
    <3>1. p.tok \in Token /\ Live(p.tok) /\ p.tok \notin {q.tok}
      BY <1>0, <1>13, <2>2 DEF Logout, Locked
    <3>2. QED
      BY <1>13, <3>1, Dies DEF Logout
  <2>3. QED
    BY <2>1, <2>2 DEF Moves
<1>14. ASSUME NEW q \in reqs, Abort(q)
      PROVE  LockHolds'
  <2>1. PICK r : Moves(q, r, "failed", {}, q.new)
    BY <1>14, Aborts
  <2>2. QED
    BY <1>14, <2>1 DEF Abort, Moves, Same, server, client
<1>15. ASSUME NEW q \in reqs, WebRefreshed(q)
      PROVE  LockHolds'
  BY <1>15 DEF WebRefreshed, Ends, Answered, server
<1>16. ASSUME NEW q \in reqs, WebFreshened(q)
      PROVE  LockHolds'
  <2>1. CASE q.new = 0
    BY <1>16, <2>1, Freshens DEF WebFreshened, server
  <2>2. CASE q.new # 0
    <3>1. PICK r : Becomes(q, r) /\ Fresh(r, q.tab, q.new) /\ r.op = "logout"
      BY <1>16, <2>2, Freshens
    <3>2. QED
      BY <1>16, <3>1 DEF WebFreshened, Becomes, Fresh, server
  <2>3. QED
    BY <2>1, <2>2
<1>17. ASSUME NEW q \in reqs, WebLoggedOut(q)
      PROVE  LockHolds'
  BY <1>17 DEF WebLoggedOut, Ends, Answered, server
<1>18. ASSUME NEW q \in reqs, NativeRefreshed(q)
      PROVE  LockHolds'
  <2>1. CASE reqs' = reqs \ {q}
    BY <1>18, <2>1 DEF NativeRefreshed, server
  <2>2. CASE \E r : Moves(q, r, "save", q.targets, q.new)
    BY <1>18, <2>2 DEF NativeRefreshed, Moves, server
  <2>3. CASE \E r : Becomes(q, r) /\ Fresh(r, q.tab, cred)
    BY <1>18, <2>3 DEF NativeRefreshed, Becomes, Fresh, server
  <2>4. QED
    BY <1>18, <2>1, <2>2, <2>3, NativeTakes
<1>19. ASSUME NEW q \in reqs, NativeSaved(q)
      PROVE  LockHolds'
  BY <1>19 DEF NativeSaved, Ends, server
<1>20. ASSUME NEW q \in reqs, NativeSignedOut(q)
      PROVE  LockHolds'
  BY <1>20 DEF NativeSignedOut, Ends, Answered, server
<1>21. ASSUME NEW q \in reqs, LoseAnswer(q)
      PROVE  LockHolds'
  <2>1. PICK r : Moves(q, r, "failed", q.targets, 0)
    BY <1>21, LosesAnswer
  <2>2. QED
    BY <1>21, <2>1 DEF LoseAnswer, Moves, Same, server, client
<1>22. ASSUME NEW q \in reqs, Timeout(q)
      PROVE  LockHolds'
  <2>1. PICK r : /\ Becomes(q, r) /\ r \in Request /\ r.tok = q.tok /\ r.at = q.at
                 /\ r.targets = q.targets /\ r.new = q.new /\ r.op = "orphan" /\ r.cur = FALSE
    BY <1>22, TimesOut
  <2>2. QED
    BY <1>22, <2>1 DEF Timeout, Becomes, server
<1>23. ASSUME NEW q \in reqs, Orphaned(q)
      PROVE  LockHolds'
  BY <1>23 DEF Orphaned, Ends, Answered, server, client
<1>24. ASSUME NEW k \in Token, Ages(k)
      PROVE  LockHolds'
  <2>1. \A q \in reqs : q.at \in LockStates => q.tok \in Token \ {k}
    BY <1>0, <1>24 DEF Ages
  <2>2. QED
    BY <1>24, <2>1, AgesToken DEF Ages
<1>25. ASSUME NEW k \in Token, Expire(k)
      PROVE  LockHolds'
  <2>1. \A q \in reqs : q.at \in LockStates => q.tok \in Token \ {k}
    BY <1>0, <1>25 DEF Expire, Locked
  <2>2. QED
    BY <1>25, <2>1, ExpiresToken DEF Expire
<1>26. CASE Block
  BY <1>26 DEF Block, client
<1>27. CASE UNCHANGED vars
  BY <1>27 DEF vars, server, client
<1>28. QED
  BY <1>1, <1>2, <1>3, <1>4, <1>5, <1>6, <1>7, <1>8, <1>9, <1>10, <1>11, <1>12, <1>13, <1>14, <1>15, <1>16, <1>17, <1>18, <1>19, <1>20, <1>21, <1>22, <1>23, <1>24, <1>25, <1>26, <1>27 DEF Next

\* Where a replay about to revoke comes from.
CameFrom(r) ==
    \/ \E q \in reqs : q.at = "revoking" /\ q.tok = r.tok /\ q.targets = r.targets
    \/ token' = token /\ r.targets = {k \in Family(token[r.tok].family) : Live(k)}

\* A replay about to revoke has just scanned its family, or goes on as it was.
LEMMA Revoking ==
    ASSUME TypeOK, [Next]_vars, NEW r \in reqs', r.at = "revoking"
    PROVE  CameFrom(r)
<1> USE DEF CameFrom
<1>1. ASSUME NEW b \in Tabs, WebSignIn(b)
      PROVE  CameFrom(r)
  BY <1>1, Issues DEF WebSignIn, SignIn
<1>2. ASSUME NEW b \in Tabs, NativeSignIn(b)
      PROVE  CameFrom(r)
  BY <1>2, Issues DEF NativeSignIn, SignIn
<1>3. ASSUME NEW b \in Tabs, RefreshAccessToken(b)
      PROVE  CameFrom(r)
  <2>1. PICK p : reqs' = reqs \union {p} /\ Fresh(p, b, cred) /\ cred # 0 /\ p.op = "refresh"
    BY <1>3, Asks
  <2>2. QED
    BY <1>3, <2>1 DEF RefreshAccessToken, Fresh, server, client
<1>4. ASSUME NEW b \in Tabs, NoToken(b)
      PROVE  CameFrom(r)
  BY <1>4 DEF NoToken, server
<1>5. ASSUME NEW b \in Tabs, WebSignOut(b)
      PROVE  CameFrom(r)
  <2>1. r \in Outdated(b)
    BY <1>5, SignsOut DEF Fresh
  <2>2. PICK q \in reqs : r.tok = q.tok /\ r.at = q.at /\ r.targets = q.targets
    BY <2>1, OutdatedSame
  <2>3. QED
    BY <2>2
<1>6. ASSUME NEW b \in Tabs, NativeSignOut(b)
      PROVE  CameFrom(r)
  <2>1. PICK p : reqs' = reqs \union {p} /\ Fresh(p, b, cred) /\ cred # 0 /\ p.op = "logout"
    BY <1>6, AsksOut
  <2>2. QED
    BY <1>6, <2>1 DEF NativeSignOut, Fresh, server, client
<1>7. ASSUME NEW b \in Tabs, Reload(b)
      PROVE  CameFrom(r)
  <2>1. PICK q \in reqs : r.tok = q.tok /\ r.at = q.at /\ r.targets = q.targets
    BY <1>7, ReloadsFrom
  <2>2. QED
    BY <2>1
<1>8. ASSUME NEW q \in reqs, Consume(q)
      PROVE  CameFrom(r)
  <2>1. PICK p : Moves(q, p, Consumed(q), q.targets, q.new)
    BY <1>8, Consumes
  <2>2. QED
    BY <1>8, <2>1 DEF Consume, Consumed, Moves, Same, server, client
<1>9. ASSUME NEW q \in reqs, Rotate(q)
      PROVE  CameFrom(r)
  <2>1. PICK p : Moves(q, p, "answer", q.targets, issued + 1)
    BY <1>9, Rotates
  <2>2. QED
    BY <1>9, <2>1, RotatesToken DEF Rotate, Moves, Same, client
<1>10. ASSUME NEW q \in reqs, RevokeUser(q)
      PROVE  CameFrom(r)
  <2>1. PICK p : Moves(q, p, "answer", q.targets, q.new)
    BY <1>10, RevokesUser
  <2>2. QED
    BY <1>10, <2>1, Dies DEF RevokeUser, Moves, Same, client
<1>11. ASSUME NEW q \in reqs, ScanFamily(q)
      PROVE  CameFrom(r)
  <2>1. PICK p : \/ Moves(q, p, "answer", q.targets, q.new)
                 \/ /\ token[q.tok].state = "old"
                    /\ Moves(q, p, "revoking", {k \in Family(token[q.tok].family) : Live(k)}, q.new)
    BY <1>11, Scans
  <2>2. token' = token
    BY <1>11 DEF ScanFamily, server
  <2>3. QED
    BY <2>1, <2>2 DEF Moves, Same
<1>12. ASSUME NEW q \in reqs, RevokeFamily(q)
      PROVE  CameFrom(r)
  <2>1. PICK p : Moves(q, p, "answer", {}, q.new)
    BY <1>12, RevokesFamily
  <2>2. QED
    BY <1>12, <2>1, Dies DEF RevokeFamily, Moves, Same, client
<1>13. ASSUME NEW q \in reqs, Logout(q)
      PROVE  CameFrom(r)
  <2>1. PICK p : Moves(q, p, "answer", q.targets, q.new)
    BY <1>13, LogsOut
  <2>2. QED
    BY <1>13, <2>1, Dies DEF Logout, Moves, Same, client
<1>14. ASSUME NEW q \in reqs, Abort(q)
      PROVE  CameFrom(r)
  <2>1. PICK p : Moves(q, p, "failed", {}, q.new)
    BY <1>14, Aborts
  <2>2. QED
    BY <1>14, <2>1 DEF Abort, Moves, Same, server, client
<1>15. ASSUME NEW q \in reqs, WebRefreshed(q)
      PROVE  CameFrom(r)
  BY <1>15 DEF WebRefreshed, Ends, Answered, server
<1>16. ASSUME NEW q \in reqs, WebFreshened(q)
      PROVE  CameFrom(r)
  <2>1. CASE q.new = 0
    BY <1>16, <2>1, Freshens
  <2>2. CASE q.new # 0
    <3>1. PICK p : Becomes(q, p) /\ Fresh(p, q.tab, q.new) /\ p.op = "logout"
      BY <1>16, <2>2, Freshens
    <3>2. QED
      BY <3>1 DEF Becomes, Fresh
  <2>3. QED
    BY <2>1, <2>2
<1>17. ASSUME NEW q \in reqs, WebLoggedOut(q)
      PROVE  CameFrom(r)
  BY <1>17 DEF WebLoggedOut, Ends, Answered, server
<1>18. ASSUME NEW q \in reqs, NativeRefreshed(q)
      PROVE  CameFrom(r)
  <2>1. CASE reqs' = reqs \ {q}
    BY <2>1
  <2>2. CASE \E p : Moves(q, p, "save", q.targets, q.new)
    BY <2>2 DEF Moves
  <2>3. CASE \E p : Becomes(q, p) /\ Fresh(p, q.tab, cred)
    BY <2>3 DEF Becomes, Fresh
  <2>4. QED
    BY <1>18, <2>1, <2>2, <2>3, NativeTakes
<1>19. ASSUME NEW q \in reqs, NativeSaved(q)
      PROVE  CameFrom(r)
  BY <1>19 DEF NativeSaved, Ends, server
<1>20. ASSUME NEW q \in reqs, NativeSignedOut(q)
      PROVE  CameFrom(r)
  BY <1>20 DEF NativeSignedOut, Ends, Answered, server
<1>21. ASSUME NEW q \in reqs, LoseAnswer(q)
      PROVE  CameFrom(r)
  <2>1. PICK p : Moves(q, p, "failed", q.targets, 0)
    BY <1>21, LosesAnswer
  <2>2. QED
    BY <1>21, <2>1 DEF LoseAnswer, Moves, Same, server, client
<1>22. ASSUME NEW q \in reqs, Timeout(q)
      PROVE  CameFrom(r)
  <2>1. PICK p : /\ Becomes(q, p) /\ p \in Request /\ p.tok = q.tok /\ p.at = q.at
                 /\ p.targets = q.targets /\ p.new = q.new /\ p.op = "orphan" /\ p.cur = FALSE
    BY <1>22, TimesOut
  <2>2. QED
    BY <1>22, <2>1 DEF Timeout, Becomes, server
<1>23. ASSUME NEW q \in reqs, Orphaned(q)
      PROVE  CameFrom(r)
  BY <1>23 DEF Orphaned, Ends, Answered, server, client
<1>24. ASSUME NEW k \in Token, Ages(k)
      PROVE  CameFrom(r)
  BY <1>24, AgesToken DEF Ages, client
<1>25. ASSUME NEW k \in Token, Expire(k)
      PROVE  CameFrom(r)
  BY <1>25, ExpiresToken DEF Expire, client
<1>26. CASE Block
  BY <1>26 DEF Block, client
<1>27. CASE UNCHANGED vars
  BY <1>27 DEF vars, server, client
<1>28. QED
  BY <1>1, <1>2, <1>3, <1>4, <1>5, <1>6, <1>7, <1>8, <1>9, <1>10, <1>11, <1>12, <1>13, <1>14, <1>15, <1>16, <1>17, <1>18, <1>19, <1>20, <1>21, <1>22, <1>23, <1>24, <1>25, <1>26, <1>27 DEF Next


\* Nothing makes a token of a scanned family live that was not seen.
LEMMA SessionScans ==
    ASSUME TypeOK, OneLive, FamiliesIssued, LockHolds, ScanTrue, [Next]_vars
    PROVE  ScanTrue'
<1> DEFINE Seen(k, T) == /\ T \subseteq Family(token[k].family)
                         /\ T = {} => \A l \in Family(token[k].family) : ~Live(l)
<1> USE DEF Family, Live
<1>0. issued \in 0..MaxTokens /\ \A k \in Token : token[k].family <= issued
  BY DEF TypeOK, FamiliesIssued
<1>1. ASSUME NEW q \in reqs, q.at = "revoking"
      PROVE  Seen(q.tok, q.targets)'
  <2>0. q.tok \in Token /\ q.tok <= issued /\ q.targets \subseteq 1..issued /\ Seen(q.tok, q.targets)
    BY <1>1, Fields DEF TypeOK, ScanTrue
  <2>1. ASSUME NEW b \in Tabs, SignIn(b)
        PROVE  Seen(q.tok, q.targets)'
    <3>1. /\ issued + 1 \in Token /\ token'[issued + 1].family = issued + 1
          /\ \A k \in Token \ {issued + 1} : token'[k] = token[k]
      BY <2>1, Issues
    <3>2. q.tok # issued + 1 /\ token[q.tok].family # issued + 1 /\ issued + 1 \notin q.targets
      BY <1>0, <2>0 DEF TypeOK, TokenRow
    <3>3. QED
      BY <2>0, <3>1, <3>2
  <2>2. ASSUME NEW p \in reqs, Rotate(p)
        PROVE  Seen(q.tok, q.targets)'
    <3>1. /\ issued + 1 \in Token /\ p.tok # issued + 1 /\ p.tok \in Token
          /\ token'[issued + 1].family = token[p.tok].family
          /\ token'[p.tok].state = "spent" /\ token'[p.tok].family = token[p.tok].family
          /\ \A k \in Token \ {issued + 1, p.tok} : token'[k] = token[k]
      BY <2>2, RotatesToken
    <3>2. q.tok # issued + 1 /\ issued + 1 \notin q.targets /\ Live(p.tok)
      BY <1>0, <2>0, <2>2 DEF LockHolds, LockStates, Rotate
    <3>3. QED
      BY <2>0, <3>1, <3>2
  <2>3. ASSUME NEW p \in reqs, RevokeUser(p) \/ RevokeFamily(p) \/ Logout(p)
        PROVE  Seen(q.tok, q.targets)'
    <3>1. \E T : token' = Dead(token, T)
      BY <2>3 DEF RevokeUser, RevokeFamily, Logout
    <3>2. QED
      BY <2>0, <3>1, Dies
  <2>4. ASSUME NEW k \in Token, Ages(k)
        PROVE  Seen(q.tok, q.targets)'
    BY <2>0, <2>4, AgesToken
  <2>5. ASSUME NEW k \in Token, Expire(k)
        PROVE  Seen(q.tok, q.targets)'
    BY <2>0, <2>5, ExpiresToken
  <2>6. CASE UNCHANGED <<token, issued, ended>>
    BY <2>0, <2>6
  <2>7. QED
    BY <2>1, <2>2, <2>3, <2>4, <2>5, <2>6, TokenActions
<1>2. ASSUME NEW r \in reqs', r.at = "revoking"
      PROVE  Seen(r.tok, r.targets)'
  <2>1. CASE \E q \in reqs : q.at = "revoking" /\ q.tok = r.tok /\ q.targets = r.targets
    BY <1>1, <2>1
  <2>2. CASE token' = token /\ r.targets = {k \in Family(token[r.tok].family) : Live(k)}
    BY <2>2
  <2>3. QED
    BY <1>2, <2>1, <2>2, Revoking DEF CameFrom
<1>3. QED
  BY <1>2 DEF ScanTrue

\* A tab that signed out shows nothing and takes no answer.
LEMMA SessionOut ==
    ASSUME TypeOK, OutStaysOut, OutOutdates, [Next]_vars
    PROVE  (OutStaysOut /\ OutOutdates)'
<1> USE DEF OutStaysOut, OutOutdates
<1>0. /\ kind \in {"native", "web"} /\ shown \in [Tabs -> BOOLEAN] /\ out \in [Tabs -> BOOLEAN]
      /\ \A q \in reqs : q.tab \in Tabs /\ q.cur \in BOOLEAN
  BY Fields DEF TypeOK
<1>1. ASSUME NEW b \in Tabs, WebSignIn(b)
      PROVE  (OutStaysOut /\ OutOutdates)'
  BY <1>0, <1>1 DEF WebSignIn, SignIn
<1>2. ASSUME NEW b \in Tabs, NativeSignIn(b)
      PROVE  (OutStaysOut /\ OutOutdates)'
  BY <1>0, <1>2 DEF NativeSignIn, SignIn
<1>3. ASSUME NEW b \in Tabs, RefreshAccessToken(b)
      PROVE  (OutStaysOut /\ OutOutdates)'
  <2>1. PICK r : reqs' = reqs \union {r} /\ Fresh(r, b, cred) /\ cred # 0 /\ r.op = "refresh"
    BY <1>3, Asks
  <2>2. QED
    BY <1>0, <1>3, <2>1 DEF RefreshAccessToken, Fresh, server, client
<1>4. ASSUME NEW b \in Tabs, NoToken(b)
      PROVE  (OutStaysOut /\ OutOutdates)'
  BY <1>0, <1>4 DEF NoToken, server
<1>5. ASSUME NEW b \in Tabs, WebSignOut(b)
      PROVE  (OutStaysOut /\ OutOutdates)'
  <2>1. ASSUME NEW r \in reqs', r.op = "refresh", r.cur
        PROVE  ~out'[r.tab]
    <3>1. r \in Outdated(b)
      BY <1>0, <1>5, <2>1, SignsOut
    <3>2. PICK q \in reqs : /\ r.tab = q.tab /\ r.op = q.op
                            /\ r.cur = (IF q.tab = b /\ q.op = "refresh" THEN FALSE ELSE q.cur)
      BY <3>1, OutdatedSame
    <3>3. q.tab # b /\ q.cur
      BY <2>1, <3>2
    <3>4. QED
      BY <1>0, <1>5, <2>1, <3>2, <3>3 DEF WebSignOut
  <2>2. QED
    BY <1>0, <1>5, <2>1 DEF WebSignOut
<1>6. ASSUME NEW b \in Tabs, NativeSignOut(b)
      PROVE  (OutStaysOut /\ OutOutdates)'
  <2>1. PICK r : reqs' = reqs \union {r} /\ Fresh(r, b, cred) /\ cred # 0 /\ r.op = "logout"
    BY <1>6, AsksOut
  <2>2. QED
    BY <1>0, <1>6, <2>1 DEF NativeSignOut, Fresh, server, client
<1>7. ASSUME NEW b \in Tabs, Reload(b)
      PROVE  (OutStaysOut /\ OutOutdates)'
  <2>1. ASSUME NEW r \in reqs', r.op = "refresh", r.cur
        PROVE  ~out'[r.tab]
    <3>1. PICK q \in reqs : /\ r.tab = q.tab /\ r.op = (IF q.tab = b THEN "orphan" ELSE q.op)
                            /\ r.cur = (IF q.tab = b THEN FALSE ELSE q.cur)
      BY <1>7, Reloads
    <3>2. q.tab # b /\ q.cur /\ q.op = "refresh"
      BY <2>1, <3>1
    <3>3. QED
      BY <1>0, <1>7, <3>1, <3>2 DEF Reload
  <2>2. QED
    BY <1>0, <1>7, <2>1 DEF Reload
<1>8. ASSUME NEW q \in reqs, Consume(q)
      PROVE  (OutStaysOut /\ OutOutdates)'
  <2>1. PICK r : Moves(q, r, Consumed(q), q.targets, q.new)
    BY <1>8, Consumes
  <2>2. QED
    BY <1>0, <1>8, <2>1 DEF Consume, Consumed, Moves, Same, server, client
<1>9. ASSUME NEW q \in reqs, Rotate(q)
      PROVE  (OutStaysOut /\ OutOutdates)'
  <2>1. PICK r : Moves(q, r, "answer", q.targets, issued + 1)
    BY <1>9, Rotates
  <2>2. QED
    BY <1>0, <1>9, <2>1 DEF Rotate, Moves, Same, client
<1>10. ASSUME NEW q \in reqs, RevokeUser(q)
      PROVE  (OutStaysOut /\ OutOutdates)'
  <2>1. PICK r : Moves(q, r, "answer", q.targets, q.new)
    BY <1>10, RevokesUser
  <2>2. QED
    BY <1>0, <1>10, <2>1 DEF RevokeUser, Moves, Same, client
<1>11. ASSUME NEW q \in reqs, ScanFamily(q)
      PROVE  (OutStaysOut /\ OutOutdates)'
  <2>1. PICK r : \/ Moves(q, r, "answer", q.targets, q.new)
                 \/ /\ token[q.tok].state = "old"
                    /\ Moves(q, r, "revoking", {k \in Family(token[q.tok].family) : Live(k)}, q.new)
    BY <1>11, Scans
  <2>2. QED
    BY <1>0, <1>11, <2>1 DEF ScanFamily, Moves, Same, server, client
<1>12. ASSUME NEW q \in reqs, RevokeFamily(q)
      PROVE  (OutStaysOut /\ OutOutdates)'
  <2>1. PICK r : Moves(q, r, "answer", {}, q.new)
    BY <1>12, RevokesFamily
  <2>2. QED
    BY <1>0, <1>12, <2>1 DEF RevokeFamily, Moves, Same, client
<1>13. ASSUME NEW q \in reqs, Logout(q)
      PROVE  (OutStaysOut /\ OutOutdates)'
  <2>1. PICK r : Moves(q, r, "answer", q.targets, q.new)
    BY <1>13, LogsOut
  <2>2. QED
    BY <1>0, <1>13, <2>1 DEF Logout, Moves, Same, client
<1>14. ASSUME NEW q \in reqs, Abort(q)
      PROVE  (OutStaysOut /\ OutOutdates)'
  <2>1. PICK r : Moves(q, r, "failed", {}, q.new)
    BY <1>14, Aborts
  <2>2. QED
    BY <1>0, <1>14, <2>1 DEF Abort, Moves, Same, server, client
<1>15. ASSUME NEW q \in reqs, WebRefreshed(q)
      PROVE  (OutStaysOut /\ OutOutdates)'
  BY <1>0, <1>15 DEF WebRefreshed, Ends, Answered, server
<1>16. ASSUME NEW q \in reqs, WebFreshened(q)
      PROVE  (OutStaysOut /\ OutOutdates)'
  <2>1. CASE q.new = 0
    BY <1>0, <1>16, <2>1, Freshens DEF WebFreshened
  <2>2. CASE q.new # 0
    <3>1. PICK r : Becomes(q, r) /\ Fresh(r, q.tab, q.new) /\ r.op = "logout"
      BY <1>0, <1>16, <2>2, Freshens
    <3>2. QED
      BY <1>0, <1>16, <3>1 DEF WebFreshened, Becomes
  <2>3. QED
    BY <2>1, <2>2
<1>17. ASSUME NEW q \in reqs, WebLoggedOut(q)
      PROVE  (OutStaysOut /\ OutOutdates)'
  BY <1>0, <1>17 DEF WebLoggedOut, Ends, Answered, server
<1>18. ASSUME NEW q \in reqs, NativeRefreshed(q)
      PROVE  (OutStaysOut /\ OutOutdates)'
  <2>1. CASE reqs' = reqs \ {q}
    BY <1>0, <1>18, <2>1 DEF NativeRefreshed, client
  <2>2. CASE \E r : Moves(q, r, "save", q.targets, q.new)
    BY <1>0, <1>18, <2>2 DEF NativeRefreshed, Moves, Same, client
  <2>3. CASE \E r : Becomes(q, r) /\ Fresh(r, q.tab, cred) /\ r.op = "logout"
    BY <1>0, <1>18, <2>3 DEF NativeRefreshed, Becomes, client
  <2>4. QED
    BY <1>0, <1>18, <2>1, <2>2, <2>3, NativeTakes
<1>19. ASSUME NEW q \in reqs, NativeSaved(q)
      PROVE  (OutStaysOut /\ OutOutdates)'
  BY <1>0, <1>19 DEF NativeSaved, Ends, server
<1>20. ASSUME NEW q \in reqs, NativeSignedOut(q)
      PROVE  (OutStaysOut /\ OutOutdates)'
  BY <1>0, <1>20 DEF NativeSignedOut, Ends, Answered, server
<1>21. ASSUME NEW q \in reqs, LoseAnswer(q)
      PROVE  (OutStaysOut /\ OutOutdates)'
  <2>1. PICK r : Moves(q, r, "failed", q.targets, 0)
    BY <1>21, LosesAnswer
  <2>2. QED
    BY <1>0, <1>21, <2>1 DEF LoseAnswer, Moves, Same, server, client
<1>22. ASSUME NEW q \in reqs, Timeout(q)
      PROVE  (OutStaysOut /\ OutOutdates)'
  <2>1. PICK r : /\ Becomes(q, r) /\ r \in Request /\ r.tok = q.tok /\ r.at = q.at
                 /\ r.targets = q.targets /\ r.new = q.new /\ r.op = "orphan" /\ r.cur = FALSE
    BY <1>22, TimesOut
  <2>2. QED
    BY <1>0, <1>22, <2>1 DEF Timeout, Becomes, server
<1>23. ASSUME NEW q \in reqs, Orphaned(q)
      PROVE  (OutStaysOut /\ OutOutdates)'
  BY <1>0, <1>23 DEF Orphaned, Ends, Answered, server, client
<1>24. ASSUME NEW k \in Token, Ages(k)
      PROVE  (OutStaysOut /\ OutOutdates)'
  BY <1>0, <1>24 DEF Ages, client
<1>25. ASSUME NEW k \in Token, Expire(k)
      PROVE  (OutStaysOut /\ OutOutdates)'
  BY <1>0, <1>25 DEF Expire, client
<1>26. CASE Block
  BY <1>0, <1>26 DEF Block, client
<1>27. CASE UNCHANGED vars
  BY <1>0, <1>27 DEF vars, server, client
<1>28. QED
  BY <1>1, <1>2, <1>3, <1>4, <1>5, <1>6, <1>7, <1>8, <1>9, <1>10, <1>11, <1>12, <1>13, <1>14, <1>15, <1>16, <1>17, <1>18, <1>19, <1>20, <1>21, <1>22, <1>23, <1>24, <1>25, <1>26, <1>27 DEF Next


\* Nothing under way grows old unnoticed.
LEMMA SessionTimely ==
    ASSUME TypeOK, Timely, Undelivered, ~lost, ~lost', [Next]_vars
    PROVE  Timely'
<1> USE DEF Timely, Running, RunStates
<1>0. /\ issued \in 0..MaxTokens /\ cred \in 0..issued
      /\ \A q \in reqs : /\ q \in Request /\ q.tok \in Token /\ q.tok <= issued
                         /\ q.new \in 0..MaxTokens /\ q.new <= issued /\ q.at \in At
  BY Fields DEF TypeOK
<1>1. ASSUME NEW b \in Tabs, WebSignIn(b)
      PROVE  Timely'
  BY <1>0, <1>1, Issues DEF WebSignIn, SignIn
<1>2. ASSUME NEW b \in Tabs, NativeSignIn(b)
      PROVE  Timely'
  BY <1>0, <1>2, Issues DEF NativeSignIn, SignIn
<1>3. ASSUME NEW b \in Tabs, RefreshAccessToken(b)
      PROVE  Timely'
  <2>1. PICK r : reqs' = reqs \union {r} /\ Fresh(r, b, cred) /\ cred # 0 /\ r.op = "refresh"
    BY <1>3, Asks
  <2>2. QED
    BY <1>0, <1>3, <2>1 DEF RefreshAccessToken, Fresh, server, client
<1>4. ASSUME NEW b \in Tabs, NoToken(b)
      PROVE  Timely'
  BY <1>0, <1>4 DEF NoToken, server
<1>5. ASSUME NEW b \in Tabs, WebSignOut(b)
      PROVE  Timely'
  <2>1. UNCHANGED <<token, issued, blocked, cred>>
    BY <1>0, <1>5 DEF WebSignOut, server
  <2>2. ASSUME NEW r \in reqs'
        PROVE  /\ r.op # "orphan" /\ r.at \notin {"barred", "revoking"}
               /\ Running(r) => token[r.tok].state # "old"
    <3>1. CASE r \in Outdated(b)
      <4>1. PICK q \in reqs : r.op = q.op /\ r.at = q.at /\ r.tok = q.tok
        BY <3>1, OutdatedSame
      <4>2. QED
        BY <4>1
    <3>2. CASE Fresh(r, b, cred) /\ cred # 0 /\ r.op \in {"freshen", "logout"}
      BY <3>2 DEF Fresh
    <3>3. QED
      BY <1>0, <1>5, <3>1, <3>2, SignsOut
  <2>3. QED
    BY <2>1, <2>2
<1>6. ASSUME NEW b \in Tabs, NativeSignOut(b)
      PROVE  Timely'
  <2>1. PICK r : reqs' = reqs \union {r} /\ Fresh(r, b, cred) /\ cred # 0 /\ r.op = "logout"
    BY <1>6, AsksOut
  <2>2. QED
    BY <1>0, <1>6, <2>1 DEF NativeSignOut, Fresh, server, client
<1>7. ASSUME NEW b \in Tabs, Reload(b)
      PROVE  Timely'
  <2>1. \A q \in reqs : q.tab # b
    BY <1>0, <1>7 DEF Reload
  <2>2. reqs' \subseteq reqs /\ UNCHANGED <<token, issued, blocked, cred>>
    BY <1>0, <1>7, <2>1 DEF Reload, server
  <2>3. QED
    BY <1>0, <1>7, <2>1, <2>2 DEF Reload
<1>8. ASSUME NEW q \in reqs, Consume(q)
      PROVE  Timely'
  <2>1. PICK r : Moves(q, r, Consumed(q), q.targets, q.new)
    BY <1>8, Consumes
  <2>2. QED
    BY <1>0, <1>8, <2>1 DEF Consume, Consumed, Moves, Same, server, client
<1>9. ASSUME NEW q \in reqs, Rotate(q)
      PROVE  Timely'
  <2>1. PICK r : Moves(q, r, "answer", q.targets, issued + 1)
    BY <1>9, Rotates
  <2>2. ASSUME NEW k \in Token
        PROVE  token'[k].state # "expired" /\ (token[k].state # "old" => token'[k].state # "old")
    BY <1>0, <1>9, RotatesToken
  <2>3. ASSUME NEW p \in reqs'
        PROVE  /\ p.op # "orphan" /\ p.at \notin {"barred", "revoking"}
               /\ Running(p) => token'[p.tok].state # "old"
    <3>1. CASE p = r
      BY <2>1, <3>1 DEF Moves, Same
    <3>2. CASE p \in reqs
      BY <1>0, <2>2, <3>2
    <3>3. QED
      BY <2>1, <3>1, <3>2 DEF Moves
  <2>4. blocked' = blocked /\ cred' = cred
    BY <1>0, <1>9 DEF Rotate, client
  <2>5. QED
    BY <1>0, <2>2, <2>3, <2>4
<1>10. ASSUME NEW q \in reqs, RevokeUser(q)
      PROVE  Timely'
  BY <1>0, <1>10 DEF RevokeUser, Timely
<1>11. ASSUME NEW q \in reqs, ScanFamily(q)
      PROVE  Timely'
  <2>1. PICK r : \/ Moves(q, r, "answer", q.targets, q.new)
                 \/ /\ token[q.tok].state = "old"
                    /\ Moves(q, r, "revoking", {k \in Family(token[q.tok].family) : Live(k)}, q.new)
    BY <1>11, Scans
  <2>2. QED
    BY <1>0, <1>11, <2>1 DEF ScanFamily, Moves, Same, server, client
<1>12. ASSUME NEW q \in reqs, RevokeFamily(q)
      PROVE  Timely'
  BY <1>0, <1>12 DEF RevokeFamily, Timely
<1>13. ASSUME NEW q \in reqs, Logout(q)
      PROVE  Timely'
  <2>1. PICK r : Moves(q, r, "answer", q.targets, q.new)
    BY <1>13, LogsOut
  <2>2. ASSUME NEW k \in Token
        PROVE  token'[k].state # "expired" /\ (token[k].state # "old" => token'[k].state # "old")
    BY <1>0, <1>13, Dies DEF Logout
  <2>3. ASSUME NEW p \in reqs'
        PROVE  /\ p.op # "orphan" /\ p.at \notin {"barred", "revoking"}
               /\ Running(p) => token'[p.tok].state # "old"
    <3>1. CASE p = r
      BY <2>1, <3>1 DEF Moves, Same
    <3>2. CASE p \in reqs
      BY <1>0, <2>2, <3>2
    <3>3. QED
      BY <2>1, <3>1, <3>2 DEF Moves
  <2>4. blocked' = blocked /\ cred' = cred
    BY <1>0, <1>13 DEF Logout, client
  <2>5. QED
    BY <1>0, <2>2, <2>3, <2>4
<1>14. ASSUME NEW q \in reqs, Abort(q)
      PROVE  Timely'
  <2>1. PICK r : Moves(q, r, "failed", {}, q.new)
    BY <1>14, Aborts
  <2>2. QED
    BY <1>0, <1>14, <2>1 DEF Abort, Moves, Same, server, client
<1>15. ASSUME NEW q \in reqs, WebRefreshed(q)
      PROVE  Timely'
  BY <1>0, <1>15 DEF WebRefreshed, Ends, server, Undelivered, Live
<1>16. ASSUME NEW q \in reqs, WebFreshened(q)
      PROVE  Timely'
  <2>1. CASE q.new = 0
    BY <1>0, <1>16, <2>1, Freshens DEF WebFreshened, server
  <2>2. CASE q.new # 0
    <3>1. PICK r : Becomes(q, r) /\ Fresh(r, q.tab, q.new) /\ r.op = "logout"
      BY <1>16, <2>2, Freshens
    <3>2. QED
      BY <1>0, <1>16, <2>2, <3>1 DEF WebFreshened, Becomes, Fresh, server, Undelivered, Live
  <2>3. QED
    BY <2>1, <2>2
<1>17. ASSUME NEW q \in reqs, WebLoggedOut(q)
      PROVE  Timely'
  BY <1>0, <1>17 DEF WebLoggedOut, Ends, Answered, server
<1>18. ASSUME NEW q \in reqs, NativeRefreshed(q)
      PROVE  Timely'
  <2>1. CASE reqs' = reqs \ {q} /\ (cred # q.tok \/ q.at = "failed" \/ q.new = 0)
    BY <1>0, <1>18, <2>1 DEF NativeRefreshed, server, client
  <2>2. CASE \E r : Moves(q, r, "save", q.targets, q.new)
    BY <1>0, <1>18, <2>2 DEF NativeRefreshed, Moves, Same, server, client
  <2>3. CASE \E r : cred = q.tok /\ q.new = 0 /\ Becomes(q, r) /\ Fresh(r, q.tab, cred) /\ r.op = "logout"
    BY <1>0, <1>18, <2>3 DEF NativeRefreshed, Becomes, Fresh, server, client
  <2>4. QED
    BY <1>18, <2>1, <2>2, <2>3, NativeTakes
<1>19. ASSUME NEW q \in reqs, NativeSaved(q)
      PROVE  Timely'
  BY <1>0, <1>19 DEF NativeSaved, Ends, server, Undelivered, Live
<1>20. ASSUME NEW q \in reqs, NativeSignedOut(q)
      PROVE  Timely'
  BY <1>0, <1>20 DEF NativeSignedOut, Ends, Answered, server
<1>21. ASSUME NEW q \in reqs, LoseAnswer(q)
      PROVE  Timely'
  BY <1>0, <1>21 DEF LoseAnswer
<1>22. ASSUME NEW q \in reqs, Timeout(q)
      PROVE  Timely'
  BY <1>0, <1>22 DEF Timeout
<1>23. ASSUME NEW q \in reqs, Orphaned(q)
      PROVE  Timely'
  BY <1>0, <1>23 DEF Orphaned, Timely
<1>24. ASSUME NEW k \in Token, Ages(k)
      PROVE  Timely'
  BY <1>0, <1>24, AgesToken DEF Ages, client
<1>25. ASSUME NEW k \in Token, Expire(k)
      PROVE  Timely'
  BY <1>0, <1>25 DEF Expire
<1>26. CASE Block
  BY <1>0, <1>26 DEF Block, client
<1>27. CASE UNCHANGED vars
  BY <1>0, <1>27 DEF vars, server, client
<1>28. QED
  BY <1>1, <1>2, <1>3, <1>4, <1>5, <1>6, <1>7, <1>8, <1>9, <1>10, <1>11, <1>12, <1>13, <1>14, <1>15, <1>16, <1>17, <1>18, <1>19, <1>20, <1>21, <1>22, <1>23, <1>24, <1>25, <1>26, <1>27 DEF Next


\* A successor on its way stays live and unknown to others.
LEMMA SessionUndelivered ==
    ASSUME TypeOK, Timely, Undelivered, ~lost, ~lost', [Next]_vars
    PROVE  Undelivered'
<1> USE DEF Undelivered, Live
<1>0. /\ issued \in 0..MaxTokens /\ cred \in 0..issued
      /\ \A q \in reqs : /\ q \in Request /\ q.tok \in Token /\ q.tok <= issued
                         /\ q.new \in 0..MaxTokens /\ q.new <= issued /\ q.at \in At
  BY Fields DEF TypeOK
<1>1. ASSUME NEW b \in Tabs, WebSignIn(b)
      PROVE  Undelivered'
  <2>1. reqs' = reqs /\ cred' = issued + 1
    BY <1>0, <1>1 DEF WebSignIn, SignIn
  <2>2. \A k \in Token \ {issued + 1} : token'[k] = token[k]
    BY <1>0, <1>1, Issues DEF WebSignIn
  <2>3. \A q \in reqs : q.new # 0 => q.new \in Token \ {issued + 1}
    BY <1>0
  <2>4. QED
    BY <2>1, <2>2, <2>3
<1>2. ASSUME NEW b \in Tabs, NativeSignIn(b)
      PROVE  Undelivered'
  <2>1. reqs' = reqs /\ cred' = issued + 1
    BY <1>0, <1>2 DEF NativeSignIn, SignIn
  <2>2. \A k \in Token \ {issued + 1} : token'[k] = token[k]
    BY <1>0, <1>2, Issues DEF NativeSignIn
  <2>3. \A q \in reqs : q.new # 0 => q.new \in Token \ {issued + 1}
    BY <1>0
  <2>4. QED
    BY <2>1, <2>2, <2>3
<1>3. ASSUME NEW b \in Tabs, RefreshAccessToken(b)
      PROVE  Undelivered'
  <2>1. PICK r : reqs' = reqs \union {r} /\ Fresh(r, b, cred) /\ cred # 0 /\ r.op = "refresh"
    BY <1>3, Asks
  <2>2. QED
    BY <1>0, <1>3, <2>1 DEF RefreshAccessToken, Fresh, server, client
<1>4. ASSUME NEW b \in Tabs, NoToken(b)
      PROVE  Undelivered'
  BY <1>0, <1>4 DEF NoToken, server
<1>5. ASSUME NEW b \in Tabs, WebSignOut(b)
      PROVE  Undelivered'
  <2>1. UNCHANGED <<token, cred>>
    BY <1>0, <1>5 DEF WebSignOut, server
  <2>2. ASSUME NEW r \in reqs'
        PROVE  \/ \E q \in reqs : /\ r = Disowned(q, b)
                                  /\ r.tok = q.tok /\ r.at = q.at /\ r.new = q.new
               \/ r.tok = cred /\ cred # 0 /\ r.new = 0
    <3>1. CASE r \in Outdated(b)
      BY <3>1, OutdatedSame
    <3>2. CASE Fresh(r, b, cred) /\ cred # 0
      BY <3>2 DEF Fresh
    <3>3. QED
      BY <1>0, <1>5, <3>1, <3>2, SignsOut
  <2>3. ASSUME NEW r \in reqs', r.new # 0
        PROVE  /\ r.at \in {"answer", "failed", "save"} /\ Live(r.new) /\ cred # r.new
               /\ \A p \in reqs' : p.tok # r.new /\ (p.new = r.new => p = r)
    <3>1. PICK q \in reqs : /\ r = Disowned(q, b)
                            /\ r.tok = q.tok /\ r.at = q.at /\ r.new = q.new
      BY <2>2, <2>3
    <3>2. ASSUME NEW p \in reqs' PROVE p.tok # r.new /\ (p.new = r.new => p = r)
      BY <2>2, <2>3, <3>1
    <3>3. QED
      BY <2>3, <3>1, <3>2
  <2>4. QED
    BY <2>1, <2>3
<1>6. ASSUME NEW b \in Tabs, NativeSignOut(b)
      PROVE  Undelivered'
  <2>1. PICK r : reqs' = reqs \union {r} /\ Fresh(r, b, cred) /\ cred # 0 /\ r.op = "logout"
    BY <1>6, AsksOut
  <2>2. QED
    BY <1>0, <1>6, <2>1 DEF NativeSignOut, Fresh, server, client
<1>7. ASSUME NEW b \in Tabs, Reload(b)
      PROVE  Undelivered'
  <2>1. \A q \in reqs : q.tab # b
    BY <1>0, <1>7 DEF Reload
  <2>2. reqs' \subseteq reqs /\ UNCHANGED <<token, issued, blocked, cred>>
    BY <1>0, <1>7, <2>1 DEF Reload, server
  <2>3. QED
    BY <1>0, <1>7, <2>1, <2>2 DEF Reload
<1>8. ASSUME NEW q \in reqs, Consume(q)
      PROVE  Undelivered'
  <2>1. PICK r : Moves(q, r, Consumed(q), q.targets, q.new)
    BY <1>8, Consumes
  <2>2. QED
    BY <1>0, <1>8, <2>1 DEF Consume, Consumed, Moves, Same, server, client
<1>9. ASSUME NEW q \in reqs, Rotate(q)
      PROVE  Undelivered'
  <2>1. PICK r : Moves(q, r, "answer", q.targets, issued + 1)
    BY <1>9, Rotates
  <2>2. /\ issued + 1 \in Token /\ token'[issued + 1].state = "live"
        /\ \A k \in Token \ {issued + 1, q.tok} : token'[k] = token[k]
    BY <1>0, <1>9, RotatesToken
  <2>3. cred' = cred /\ cred # issued + 1
    BY <1>0, <1>9 DEF Rotate, client
  <2>4. ASSUME NEW p \in reqs, p # q, p.new # 0
        PROVE  /\ p.at \in {"answer", "failed", "save"} /\ Live(p.new)' /\ cred # p.new
               /\ \A u \in reqs' : u.tok # p.new /\ (u.new = p.new => u = p)
    <3>1. p.new \in Token \ {issued + 1, q.tok}
      BY <1>0, <2>4
    <3>2. r.tok = q.tok /\ r.new = issued + 1
      BY <2>1 DEF Moves, Same
    <3>3. QED
      BY <2>1, <2>2, <2>4, <3>1, <3>2 DEF Moves
  <2>5. \A u \in reqs' : u.tok # issued + 1 /\ (u.new = issued + 1 => u = r)
    BY <1>0, <2>1 DEF Moves, Same
  <2>6. QED
    BY <2>1, <2>2, <2>3, <2>4, <2>5 DEF Moves
<1>10. ASSUME NEW q \in reqs, RevokeUser(q)
      PROVE  Undelivered'
  BY <1>0, <1>10 DEF RevokeUser, Timely
<1>11. ASSUME NEW q \in reqs, ScanFamily(q)
      PROVE  Undelivered'
  <2>1. PICK r : \/ Moves(q, r, "answer", q.targets, q.new)
                 \/ /\ token[q.tok].state = "old"
                    /\ Moves(q, r, "revoking", {k \in Family(token[q.tok].family) : Live(k)}, q.new)
    BY <1>11, Scans
  <2>2. QED
    BY <1>0, <1>11, <2>1 DEF ScanFamily, Moves, Same, server, client
<1>12. ASSUME NEW q \in reqs, RevokeFamily(q)
      PROVE  Undelivered'
  BY <1>0, <1>12 DEF RevokeFamily, Timely
<1>13. ASSUME NEW q \in reqs, Logout(q)
      PROVE  Undelivered'
  <2>1. PICK r : Moves(q, r, "answer", q.targets, q.new)
    BY <1>13, LogsOut
  <2>2. cred' = cred /\ q.new = 0
    BY <1>0, <1>13 DEF Logout, client
  <2>3. ASSUME NEW k \in Token, k # q.tok PROVE token'[k].state = token[k].state
    <3>1. token' = Dead(token, {q.tok})
      BY <1>13 DEF Logout
    <3>2. token'[k].state = IF k \in {q.tok} /\ token[k].state = "live" THEN "spent" ELSE token[k].state
      BY <3>1, Dies
    <3>3. QED
      BY <2>3, <3>2
  <2>4. ASSUME NEW p \in reqs, p.new # 0
        PROVE  Live(p.new)'
    BY <1>0, <2>3, <2>4
  <2>5. QED
    BY <2>1, <2>2, <2>4 DEF Moves, Same
<1>14. ASSUME NEW q \in reqs, Abort(q)
      PROVE  Undelivered'
  <2>1. PICK r : Moves(q, r, "failed", {}, q.new)
    BY <1>14, Aborts
  <2>2. QED
    BY <1>0, <1>14, <2>1 DEF Abort, Moves, Same, server, client
<1>15. ASSUME NEW q \in reqs, WebRefreshed(q)
      PROVE  Undelivered'
  BY <1>0, <1>15 DEF WebRefreshed, Ends, Answered, server
<1>16. ASSUME NEW q \in reqs, WebFreshened(q)
      PROVE  Undelivered'
  <2>1. CASE q.new = 0
    BY <1>0, <1>16, <2>1, Freshens DEF WebFreshened, server
  <2>2. CASE q.new # 0
    <3>1. PICK r : Becomes(q, r) /\ Fresh(r, q.tab, q.new) /\ r.op = "logout"
      BY <1>16, <2>2, Freshens
    <3>2. QED
      BY <1>0, <1>16, <2>2, <3>1 DEF WebFreshened, Becomes, Fresh, server
  <2>3. QED
    BY <2>1, <2>2
<1>17. ASSUME NEW q \in reqs, WebLoggedOut(q)
      PROVE  Undelivered'
  BY <1>0, <1>17 DEF WebLoggedOut, Ends, Answered, server
<1>18. ASSUME NEW q \in reqs, NativeRefreshed(q)
      PROVE  Undelivered'
  <2>1. CASE reqs' = reqs \ {q} /\ (cred # q.tok \/ q.at = "failed" \/ q.new = 0)
    BY <1>0, <1>18, <2>1 DEF NativeRefreshed, server, client
  <2>2. CASE \E r : Moves(q, r, "save", q.targets, q.new)
    BY <1>0, <1>18, <2>2 DEF NativeRefreshed, Moves, Same, server, client
  <2>3. CASE \E r : cred = q.tok /\ q.new = 0 /\ Becomes(q, r) /\ Fresh(r, q.tab, cred) /\ r.op = "logout"
    BY <1>0, <1>18, <2>3 DEF NativeRefreshed, Becomes, Fresh, server, client
  <2>4. QED
    BY <1>18, <2>1, <2>2, <2>3, NativeTakes
<1>19. ASSUME NEW q \in reqs, NativeSaved(q)
      PROVE  Undelivered'
  BY <1>0, <1>19 DEF NativeSaved, Ends, server
<1>20. ASSUME NEW q \in reqs, NativeSignedOut(q)
      PROVE  Undelivered'
  BY <1>0, <1>20 DEF NativeSignedOut, Ends, Answered, server
<1>21. ASSUME NEW q \in reqs, LoseAnswer(q)
      PROVE  Undelivered'
  BY <1>0, <1>21 DEF LoseAnswer
<1>22. ASSUME NEW q \in reqs, Timeout(q)
      PROVE  Undelivered'
  BY <1>0, <1>22 DEF Timeout
<1>23. ASSUME NEW q \in reqs, Orphaned(q)
      PROVE  Undelivered'
  BY <1>0, <1>23 DEF Orphaned, Timely
<1>24. ASSUME NEW k \in Token, Ages(k)
      PROVE  Undelivered'
  BY <1>0, <1>24, AgesToken DEF Ages, client
<1>25. ASSUME NEW k \in Token, Expire(k)
      PROVE  Undelivered'
  BY <1>0, <1>25 DEF Expire
<1>26. CASE Block
  BY <1>0, <1>26 DEF Block, client
<1>27. CASE UNCHANGED vars
  BY <1>0, <1>27 DEF vars, server, client
<1>28. QED
  BY <1>1, <1>2, <1>3, <1>4, <1>5, <1>6, <1>7, <1>8, <1>9, <1>10, <1>11, <1>12, <1>13, <1>14, <1>15, <1>16, <1>17, <1>18, <1>19, <1>20, <1>21, <1>22, <1>23, <1>24, <1>25, <1>26, <1>27 DEF Next


\* A spent token is replaced by an answer under way.
LEMMA SessionReplaced ==
    ASSUME TypeOK, Timely, Undelivered, Replaced, ~lost, ~lost', [Next]_vars
    PROVE  Replaced'
<1> USE DEF Replaced, Live
<1>0. /\ issued \in 0..MaxTokens /\ cred \in 0..issued
      /\ \A q \in reqs : /\ q \in Request /\ q.tok \in Token /\ q.tok <= issued
                         /\ q.new \in 0..MaxTokens /\ q.new <= issued /\ q.at \in At
  BY Fields DEF TypeOK
<1>1. ASSUME NEW b \in Tabs, WebSignIn(b)
      PROVE  Replaced'
  BY <1>0, <1>1, Issues DEF WebSignIn, SignIn
<1>2. ASSUME NEW b \in Tabs, NativeSignIn(b)
      PROVE  Replaced'
  BY <1>0, <1>2, Issues DEF NativeSignIn, SignIn
<1>3. ASSUME NEW b \in Tabs, RefreshAccessToken(b)
      PROVE  Replaced'
  <2>1. PICK r : reqs' = reqs \union {r} /\ Fresh(r, b, cred) /\ cred # 0 /\ r.op = "refresh"
    BY <1>3, Asks
  <2>2. QED
    BY <1>0, <1>3, <2>1 DEF RefreshAccessToken, Fresh, server, client
<1>4. ASSUME NEW b \in Tabs, NoToken(b)
      PROVE  Replaced'
  BY <1>0, <1>4 DEF NoToken, server
<1>5. ASSUME NEW b \in Tabs, WebSignOut(b)
      PROVE  Replaced'
  <2>1. UNCHANGED <<token, cred>> /\ Outdated(b) \subseteq reqs'
    BY <1>0, <1>5 DEF WebSignOut, server
  <2>2. ASSUME cred # 0, ~Live(cred)
        PROVE  \E r \in reqs' : r.tok = cred /\ r.at \in {"answer", "save"} /\ (r.op = "logout" \/ r.new # 0)
    <3>1. PICK p \in reqs : p.tok = cred /\ p.at \in {"answer", "save"} /\ (p.op = "logout" \/ p.new # 0)
      BY <2>2
    <3>2. CASE p.tab = b /\ p.op = "refresh"
      <4> DEFINE r == [p EXCEPT !.cur = FALSE]
      <4>1. r \in Outdated(b)
        BY <3>2 DEF Outdated
      <4>2. r.tok = p.tok /\ r.at = p.at /\ r.new = p.new
        BY <1>0, Left
      <4>3. QED
        BY <2>1, <3>1, <3>2, <4>1, <4>2
    <3>3. CASE ~(p.tab = b /\ p.op = "refresh")
      BY <2>1, <3>1, <3>3 DEF Outdated
    <3>4. QED
      BY <3>2, <3>3
  <2>3. QED
    BY <2>1, <2>2
<1>6. ASSUME NEW b \in Tabs, NativeSignOut(b)
      PROVE  Replaced'
  <2>1. PICK r : reqs' = reqs \union {r} /\ Fresh(r, b, cred) /\ cred # 0 /\ r.op = "logout"
    BY <1>6, AsksOut
  <2>2. QED
    BY <1>0, <1>6, <2>1 DEF NativeSignOut, Fresh, server, client
<1>7. ASSUME NEW b \in Tabs, Reload(b)
      PROVE  Replaced'
  <2>1. \A q \in reqs : q.tab # b /\ q.op # "orphan"
    BY <1>0, <1>7 DEF Reload, Timely
  <2>2. reqs' = reqs /\ UNCHANGED <<token, cred>>
    BY <1>0, <1>7, <2>1 DEF Reload, server
  <2>3. QED
    BY <2>2
<1>8. ASSUME NEW q \in reqs, Consume(q)
      PROVE  Replaced'
  <2>1. PICK r : Moves(q, r, Consumed(q), q.targets, q.new)
    BY <1>8, Consumes
  <2>2. QED
    BY <1>0, <1>8, <2>1 DEF Consume, Consumed, Moves, Same, server, client
<1>9. ASSUME NEW q \in reqs, Rotate(q)
      PROVE  Replaced'
  <2>1. PICK r : Moves(q, r, "answer", q.targets, issued + 1)
    BY <1>9, Rotates
  <2>2. cred' = cred
    BY <1>0, <1>9 DEF Rotate, client
  <2>3. CASE cred = q.tok
    BY <1>0, <2>1, <2>2, <2>3 DEF Moves, Same
  <2>4. CASE cred # q.tok
    <3>1. cred # 0 => token'[cred] = token[cred]
      BY <1>0, <1>9, <2>4, RotatesToken
    <3>2. ASSUME cred # 0, ~Live(cred)
          PROVE  \E p \in reqs' : p.tok = cred /\ p.at \in {"answer", "save"} /\ (p.op = "logout" \/ p.new # 0)
      BY <1>0, <1>9, <2>1, <3>2 DEF Moves, Rotate
    <3>3. QED
      BY <2>2, <3>1, <3>2
  <2>5. QED
    BY <2>3, <2>4
<1>10. ASSUME NEW q \in reqs, RevokeUser(q)
      PROVE  Replaced'
  BY <1>0, <1>10 DEF RevokeUser, Timely
<1>11. ASSUME NEW q \in reqs, ScanFamily(q)
      PROVE  Replaced'
  <2>1. PICK r : \/ Moves(q, r, "answer", q.targets, q.new)
                 \/ /\ token[q.tok].state = "old"
                    /\ Moves(q, r, "revoking", {k \in Family(token[q.tok].family) : Live(k)}, q.new)
    BY <1>11, Scans
  <2>2. QED
    BY <1>0, <1>11, <2>1 DEF ScanFamily, Moves, Same, server, client
<1>12. ASSUME NEW q \in reqs, RevokeFamily(q)
      PROVE  Replaced'
  BY <1>0, <1>12 DEF RevokeFamily, Timely
<1>13. ASSUME NEW q \in reqs, Logout(q)
      PROVE  Replaced'
  <2>1. PICK r : Moves(q, r, "answer", q.targets, q.new)
    BY <1>13, LogsOut
  <2>2. cred' = cred
    BY <1>0, <1>13 DEF Logout, client
  <2>3. CASE cred = q.tok
    BY <1>0, <1>13, <2>1, <2>2, <2>3 DEF Moves, Same, Logout
  <2>4. CASE cred # q.tok
    <3>1. cred # 0 => token'[cred].state = token[cred].state
      <4>1. token' = Dead(token, {q.tok})
        BY <1>13 DEF Logout
      <4>2. ASSUME NEW k \in Token, k # q.tok PROVE token'[k].state = token[k].state
        <5>1. token'[k].state = IF k \in {q.tok} /\ token[k].state = "live" THEN "spent" ELSE token[k].state
          BY <4>1, Dies
        <5>2. QED
          BY <4>2, <5>1
      <4>3. QED
        BY <1>0, <2>4, <4>2
    <3>2. ASSUME cred # 0, ~Live(cred)
          PROVE  \E p \in reqs' : p.tok = cred /\ p.at \in {"answer", "save"} /\ (p.op = "logout" \/ p.new # 0)
      BY <1>0, <1>13, <2>1, <3>2 DEF Moves, Logout
    <3>3. QED
      BY <2>2, <3>1, <3>2
  <2>5. QED
    BY <2>3, <2>4
<1>14. ASSUME NEW q \in reqs, Abort(q)
      PROVE  Replaced'
  <2>1. PICK r : Moves(q, r, "failed", {}, q.new)
    BY <1>14, Aborts
  <2>2. q.at \notin {"answer", "save"}
    BY <1>0, <1>14 DEF Abort, Running, RunStates
  <2>3. QED
    BY <1>0, <1>14, <2>1, <2>2 DEF Abort, Moves, server, client
<1>15. ASSUME NEW q \in reqs, WebRefreshed(q)
      PROVE  Replaced'
  BY <1>0, <1>15 DEF WebRefreshed, Ends, server, Undelivered
<1>16. ASSUME NEW q \in reqs, WebFreshened(q)
      PROVE  Replaced'
  <2>1. CASE q.new = 0
    BY <1>0, <1>16, <2>1, Freshens DEF WebFreshened, server
  <2>2. CASE q.new # 0
    <3>1. PICK r : Becomes(q, r) /\ Fresh(r, q.tab, q.new) /\ r.op = "logout"
      BY <1>16, <2>2, Freshens
    <3>2. QED
      BY <1>0, <1>16, <2>2, <3>1 DEF WebFreshened, Becomes, Fresh, server, Undelivered
  <2>3. QED
    BY <2>1, <2>2
<1>17. ASSUME NEW q \in reqs, WebLoggedOut(q)
      PROVE  Replaced'
  BY <1>0, <1>17 DEF WebLoggedOut, Ends, Answered, server
<1>18. ASSUME NEW q \in reqs, NativeRefreshed(q)
      PROVE  Replaced'
  <2>1. CASE reqs' = reqs \ {q} /\ (cred # q.tok \/ q.at = "failed" \/ q.new = 0)
    BY <1>0, <1>18, <2>1 DEF NativeRefreshed, server, client
  <2>2. CASE \E r : Moves(q, r, "save", q.targets, q.new)
    BY <1>0, <1>18, <2>2 DEF NativeRefreshed, Moves, Same, server, client
  <2>3. CASE \E r : cred = q.tok /\ q.new = 0 /\ Becomes(q, r) /\ Fresh(r, q.tab, cred) /\ r.op = "logout"
    BY <1>0, <1>18, <2>3 DEF NativeRefreshed, Becomes, Fresh, server, client
  <2>4. QED
    BY <1>18, <2>1, <2>2, <2>3, NativeTakes
<1>19. ASSUME NEW q \in reqs, NativeSaved(q)
      PROVE  Replaced'
  BY <1>0, <1>19 DEF NativeSaved, Ends, server, Undelivered
<1>20. ASSUME NEW q \in reqs, NativeSignedOut(q)
      PROVE  Replaced'
  BY <1>0, <1>20 DEF NativeSignedOut, Ends, Answered, server
<1>21. ASSUME NEW q \in reqs, LoseAnswer(q)
      PROVE  Replaced'
  BY <1>0, <1>21 DEF LoseAnswer
<1>22. ASSUME NEW q \in reqs, Timeout(q)
      PROVE  Replaced'
  BY <1>0, <1>22 DEF Timeout
<1>23. ASSUME NEW q \in reqs, Orphaned(q)
      PROVE  Replaced'
  BY <1>0, <1>23 DEF Orphaned, Timely
<1>24. ASSUME NEW k \in Token, Ages(k)
      PROVE  Replaced'
  BY <1>0, <1>24, AgesToken DEF Ages, client
<1>25. ASSUME NEW k \in Token, Expire(k)
      PROVE  Replaced'
  BY <1>0, <1>25 DEF Expire
<1>26. CASE Block
  BY <1>0, <1>26 DEF Block, client
<1>27. CASE UNCHANGED vars
  BY <1>0, <1>27 DEF vars, server, client
<1>28. QED
  BY <1>1, <1>2, <1>3, <1>4, <1>5, <1>6, <1>7, <1>8, <1>9, <1>10, <1>11, <1>12, <1>13, <1>14, <1>15, <1>16, <1>17, <1>18, <1>19, <1>20, <1>21, <1>22, <1>23, <1>24, <1>25, <1>26, <1>27 DEF Next



-----------------------------------------------------------------------------
(* The theorems.                                                           *)

\* The first state satisfies the inductive invariant.
LEMMA SessionInit == Init => SInv
<1> SUFFICES ASSUME Init PROVE SInv
  OBVIOUS
<1>1. TypeOK
  BY DEF Init, TypeOK, TokenRow
<1>2. OneLive /\ ReplayEnds /\ OutStaysOut
  BY <1>1 DEF Init, OneLive, ReplayEnds, OutStaysOut, Live
<1>3. FamiliesIssued /\ LockHolds /\ ScanTrue /\ OutOutdates
  BY DEF Init, FamiliesIssued, LockHolds, ScanTrue, OutOutdates
<1>4. Timely /\ Undelivered /\ Replaced
  BY DEF Init, Timely, Undelivered, Replaced
<1>5. QED
  BY <1>2, <1>3, <1>4 DEF SInv

\* Nothing takes back that an answer was lost or late.
LEMMA LostStays ==
    ASSUME [Next]_vars, ~lost'
    PROVE  ~lost
<1>1. ASSUME NEW b \in Tabs, \/ WebSignIn(b) \/ NativeSignIn(b) \/ RefreshAccessToken(b) \/ NoToken(b)
                             \/ WebSignOut(b) \/ NativeSignOut(b) \/ Reload(b)
      PROVE  ~lost
  BY <1>1 DEF WebSignIn, NativeSignIn, SignIn, RefreshAccessToken, NoToken, WebSignOut,
              NativeSignOut, Reload
<1>2. ASSUME NEW q \in reqs, \/ Consume(q) \/ Rotate(q) \/ RevokeUser(q)
                             \/ ScanFamily(q) \/ RevokeFamily(q) \/ Logout(q) \/ Abort(q)
      PROVE  ~lost
  BY <1>2 DEF Consume, Rotate, RevokeUser, ScanFamily, RevokeFamily, Logout, Abort
<1>3. ASSUME NEW q \in reqs, \/ WebRefreshed(q) \/ WebFreshened(q) \/ WebLoggedOut(q)
                             \/ NativeRefreshed(q) \/ NativeSaved(q) \/ NativeSignedOut(q)
                             \/ LoseAnswer(q) \/ Timeout(q) \/ Orphaned(q)
      PROVE  ~lost
  BY <1>3 DEF WebRefreshed, WebFreshened, WebLoggedOut, NativeRefreshed, NativeSaved,
              NativeSignedOut, LoseAnswer, Timeout, Orphaned
<1>4. ASSUME NEW k \in Token, Ages(k) \/ Expire(k)
      PROVE  ~lost
  BY <1>4 DEF Ages, Expire
<1>5. CASE Block
  BY <1>5 DEF Block
<1>6. CASE UNCHANGED vars
  BY <1>6 DEF vars
<1>7. QED
  BY <1>1, <1>2, <1>3, <1>4, <1>5, <1>6 DEF Next

\* Every step keeps the inductive invariant.
LEMMA SessionStep == SInv /\ [Next]_vars => SInv'
<1> SUFFICES ASSUME SInv, [Next]_vars PROVE SInv'
  OBVIOUS
<1>1. (OneLive /\ ReplayEnds /\ FamiliesIssued)'
  BY SessionTokens DEF SInv, OneLive
<1>2. LockHolds'
  BY SessionLocks DEF SInv, OneLive
<1>3. ScanTrue'
  BY SessionScans DEF SInv, OneLive
<1>4. (OutStaysOut /\ OutOutdates)'
  BY SessionOut DEF SInv, OneLive
<1>5. ASSUME ~lost' PROVE (Timely /\ Undelivered /\ Replaced)'
  <2>1. ~lost
    BY <1>5, LostStays DEF SInv
  <2>2. TypeOK /\ Timely /\ Undelivered /\ Replaced
    BY <2>1 DEF SInv, OneLive
  <2>3. QED
    BY <1>5, <2>1, <2>2, SessionTimely, SessionUndelivered, SessionReplaced
<1>6. QED
  BY <1>1, <1>2, <1>3, <1>4, <1>5 DEF SInv

\* The inductive invariant holds throughout.
THEOREM SessionInvariance == Spec => []SInv
  BY SessionInit, SessionStep, PTL DEF Spec

\* A family of refresh tokens never has two live ones, however many requests
\* present the same token (the conditional UPDATE of refresh).
THEOREM OneLiveAlways == Spec => []OneLive
<1>1. SInv => OneLive
  BY DEF SInv
<1>2. QED
  BY <1>1, SessionInvariance, PTL

\* A replay that no rotation overlapped ends its family for good.
THEOREM ReplayEndsAlways == Spec => []ReplayEnds
<1>1. SInv => ReplayEnds
  BY DEF SInv
<1>2. QED
  BY <1>1, SessionInvariance, PTL

\* A client whose answers arrive in time keeps a live token, however its tabs or
\* its parallel requests refresh.
THEOREM HoldsLiveAlways == Spec => []HoldsLive
<1>1. SInv => HoldsLive
  BY DEF SInv, HoldsLive, Replaced
<1>2. QED
  BY <1>1, SessionInvariance, PTL

\* A tab that signed out shows no session until it signs in again.
THEOREM OutStaysOutAlways == Spec => []OutStaysOut
<1>1. SInv => OutStaysOut
  BY DEF SInv
<1>2. QED
  BY <1>1, SessionInvariance, PTL
=============================================================================
