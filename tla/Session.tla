------------------------------- MODULE Session -------------------------------
(***************************************************************************)
(* Refresh tokens of one user: the rotation transaction of the API, split  *)
(* at its statements, and a client that keeps the token: the driver app    *)
(* with its secure storage, or the tabs of a browser with their one cookie.*)
(*                                                                         *)
(* Tokens are numbered as they are issued; a sign-in starts a family, a    *)
(* rotation stays in it.  Under READ COMMITTED a statement sees what was   *)
(* committed when it began, waits for a row another transaction has        *)
(* changed, and looks at that row again.                                   *)
(***************************************************************************)
EXTENDS Integers, FiniteSets

CONSTANTS MaxTabs,      \* bound: tabs of the browser
          MaxTokens,    \* bound: tokens issued
          MaxRequests,  \* bound: requests under way at a time
          MaxFaults     \* bound: failed transactions, lost and late answers, reloads

ASSUME SessionAssumption ==
    /\ MaxTabs \in Nat \ {0} /\ MaxTokens \in Nat /\ MaxRequests \in Nat
    /\ MaxFaults \in Nat

VARIABLES kind,     \* "native" or "web"; never changes
          token,    \* auth_refresh_token: [state, family]
          issued,   \* tokens issued so far
          blocked,  \* app_user.status is suspended or deleted
          reqs,     \* requests under way
          cred,     \* the refresh token the client keeps (0: none)
          shown,    \* the client shows a signed-in user
          out,      \* signedOut of a tab
          ended,    \* history: families a replay has ended
          lost,     \* history: an answer with a token was lost or came late
          faults

server == <<token, issued, blocked>>
client == <<cred, shown, out>>
vars   == <<kind, server, reqs, client, ended, lost, faults>>

None    == 0
Token   == 1..MaxTokens
Tabs    == 1..MaxTabs
Clients == IF kind = "web" THEN Tabs ELSE {1}

Init ==
    /\ kind \in {"native", "web"}
    /\ token = [k \in Token |-> [state |-> "none", family |-> 0]]
    /\ issued = 0 /\ blocked = FALSE /\ reqs = {}
    /\ cred = None /\ shown = [b \in Tabs |-> FALSE] /\ out = [b \in Tabs |-> FALSE]
    /\ ended = {} /\ lost = FALSE /\ faults = 0

Fault == faults < MaxFaults /\ faults' = faults + 1

Live(k)   == token[k].state = "live"
Family(f) == {k \in Token : token[k].family = f}
Dead(tk, ks) == [k \in Token |-> IF k \in ks /\ tk[k].state = "live"
                                 THEN [tk[k] EXCEPT !.state = "spent"] ELSE tk[k]]

\* issueSession: a fresh token of a family, visible with its transaction.
IssueSession(tk, f) == [tk EXCEPT ![issued + 1] = [state |-> "live", family |-> f]]

RunStates  == {"begin", "consumed", "barred", "missed", "revoking"}
LockStates == {"consumed", "barred"}
TokenRow == [state : {"none", "live", "spent", "old", "expired"}, family : 0..MaxTokens]
Request  == [tab : Tabs, op : {"refresh", "freshen", "logout", "orphan"}, tok : Token,
             at : RunStates \union {"answer", "failed", "save"},
             targets : SUBSET Token, new : 0..MaxTokens, cur : BOOLEAN]

Send(b, op, k) == [tab |-> b, op |-> op, tok |-> k, at |-> "begin",
                   targets |-> {}, new |-> None, cur |-> TRUE]

Running(q)  == q.at \in RunStates
\* The row of a token is changed by a transaction still open.
Locked(k)   == \E q \in reqs : q.tok = k /\ q.at \in LockStates
Becomes(q, r) == reqs' = (reqs \ {q}) \union {r}
Ends(q)     == reqs' = reqs \ {q}

-----------------------------------------------------------------------------
(* The API.                                                                *)

\* exchangeFirebaseToken, loginWithGoogle: a blocked account gets no session.
SignIn(b) ==
    /\ b \in Clients /\ ~shown[b] /\ ~blocked /\ issued < MaxTokens
    /\ token' = IssueSession(token, issued + 1)
    /\ issued' = issued + 1
    /\ cred' = issued + 1
    /\ shown' = [shown EXCEPT ![b] = TRUE]
    /\ UNCHANGED <<kind, blocked, reqs, ended, lost, faults>>

\* The browser is given the cookie, and setAuth forgets an earlier sign-out.
WebSignIn(b)    == kind = "web" /\ SignIn(b) /\ out' = [out EXCEPT ![b] = FALSE]
\* The app saves the pair.
NativeSignIn(b) == kind = "native" /\ SignIn(b) /\ UNCHANGED out

Consume_NoLock(q) ==
    /\ q \in reqs /\ q.op # "logout" /\ q.at = "begin"
    /\ Becomes(q, [q EXCEPT !.at = IF ~Live(q.tok) THEN "missed"
                                   ELSE IF blocked THEN "barred" ELSE "consumed"])
    /\ UNCHANGED <<kind, server, client, ended, lost, faults>>
\* refresh: the token is checked and consumed by one conditional UPDATE, which
\* also reads the account's status.
Consume(q) ==
    /\ q \in reqs /\ q.op # "logout" /\ q.at = "begin"
    /\ ~Locked(q.tok)
    /\ Becomes(q, [q EXCEPT !.at = IF ~Live(q.tok) THEN "missed"
                                   ELSE IF blocked THEN "barred" ELSE "consumed"])
    /\ UNCHANGED <<kind, server, client, ended, lost, faults>>

\* Consumed: the successor is inserted and the transaction commits.
Rotate(q) ==
    /\ q \in reqs /\ q.at = "consumed" /\ issued < MaxTokens
    /\ token' = IssueSession([token EXCEPT ![q.tok].state = "spent"], token[q.tok].family)
    /\ issued' = issued + 1
    /\ Becomes(q, [q EXCEPT !.at = "answer", !.new = issued + 1])
    /\ UNCHANGED <<kind, blocked, client, ended, lost, faults>>

\* Consumed for a blocked account: every live token of the user goes with it.
RevokeUser(q) ==
    /\ q \in reqs /\ q.at = "barred"
    /\ \A k \in Token \ {q.tok} : Live(k) => ~Locked(k)
    /\ token' = Dead(token, Token)
    /\ Becomes(q, [q EXCEPT !.at = "answer"])
    /\ UNCHANGED <<kind, issued, blocked, client, ended, lost, faults>>

ScanFamily_NoGrace(q) ==
    /\ q \in reqs /\ q.at = "missed"
    /\ Becomes(q, IF token[q.tok].state \notin {"old", "spent"} THEN [q EXCEPT !.at = "answer"]
                  ELSE [q EXCEPT !.at = "revoking",
                                 !.targets = {k \in Family(token[q.tok].family) : Live(k)}])
    /\ UNCHANGED <<kind, server, client, ended, lost, faults>>
ScanFamily_Own(q) ==
    /\ q \in reqs /\ q.at = "missed"
    /\ Becomes(q, IF token[q.tok].state # "old" THEN [q EXCEPT !.at = "answer"]
                  ELSE [q EXCEPT !.at = "revoking", !.targets = {k \in {q.tok} : Live(k)}])
    /\ UNCHANGED <<kind, server, client, ended, lost, faults>>
\* Not consumed: for a token revoked longer ago than the grace window, what is
\* live of its family is to be revoked ...
ScanFamily(q) ==
    /\ q \in reqs /\ q.at = "missed"
    /\ Becomes(q, IF token[q.tok].state # "old" THEN [q EXCEPT !.at = "answer"]
                  ELSE [q EXCEPT !.at = "revoking",
                                 !.targets = {k \in Family(token[q.tok].family) : Live(k)}])
    /\ UNCHANGED <<kind, server, client, ended, lost, faults>>

\* ... row by row, after any rotation that holds one.  A row rotated meanwhile is
\* passed over, and its successor is not among those seen.
RevokeFamily(q) ==
    /\ q \in reqs /\ q.at = "revoking"
    /\ \A k \in q.targets : ~Locked(k)
    /\ token' = Dead(token, q.targets)
    /\ ended' = IF \A k \in q.targets : Live(k) THEN ended \union {token[q.tok].family} ELSE ended
    /\ Becomes(q, [q EXCEPT !.at = "answer", !.targets = {}])
    /\ UNCHANGED <<kind, issued, blocked, client, lost, faults>>

\* revoke, revokePresented.
Logout(q) ==
    /\ q \in reqs /\ q.op = "logout" /\ q.at = "begin"
    /\ ~Locked(q.tok)
    /\ token' = Dead(token, {q.tok})
    /\ Becomes(q, [q EXCEPT !.at = "answer"])
    /\ UNCHANGED <<kind, issued, blocked, client, ended, lost, faults>>

\* An error rolls the transaction back.
Abort(q) ==
    /\ q \in reqs /\ Running(q) /\ Fault
    /\ Becomes(q, [q EXCEPT !.at = "failed", !.targets = {}])
    /\ UNCHANGED <<kind, server, client, ended, lost>>

\* REFRESH_REUSE_GRACE_SECONDS pass.  That a token is still to be presented by
\* then, or still kept by the client, is the late answer the window is made for.
Ages(k) ==
    /\ k \in Token /\ token[k].state = "spent"
    /\ token' = [token EXCEPT ![k].state = "old"]
    /\ IF ~lost /\ (cred = k \/ \E q \in reqs : q.tok = k /\ Running(q))
       THEN Fault /\ lost' = TRUE ELSE UNCHANGED <<lost, faults>>
    /\ UNCHANGED <<kind, issued, blocked, reqs, client, ended>>

\* The account is suspended; a token runs into its expires_at.
Block ==
    /\ ~blocked /\ Fault
    /\ blocked' = TRUE /\ lost' = TRUE
    /\ UNCHANGED <<kind, token, issued, reqs, client, ended>>

Expire(k) ==
    /\ k \in Token /\ Live(k) /\ ~Locked(k) /\ Fault
    /\ token' = [token EXCEPT ![k].state = "expired"] /\ lost' = TRUE
    /\ UNCHANGED <<kind, issued, blocked, reqs, client, ended>>

-----------------------------------------------------------------------------
(* The clients.                                                            *)

InFlight(b) == \E q \in reqs : q.tab = b /\ q.op = "refresh" /\ q.cur
SigningOut(b) == \E q \in reqs : q.tab = b /\ q.op # "refresh" /\ q.cur
Outdated(b) == {IF q.tab = b /\ q.op = "refresh" THEN [q EXCEPT !.cur = FALSE] ELSE q : q \in reqs}

\* refreshAccessToken, _refresh: one in flight per tab or app, none after a
\* sign-out.
RefreshAccessToken(b) ==
    /\ b \in Clients /\ ~out[b] /\ ~InFlight(b) /\ cred # None /\ Cardinality(reqs) < MaxRequests
    /\ reqs' = reqs \union {Send(b, "refresh", cred)}
    /\ UNCHANGED <<kind, server, client, ended, lost, faults>>

\* Without a token a refresh ends the session shown.
NoToken(b) ==
    /\ b \in Clients /\ shown[b] /\ ~InFlight(b) /\ cred = None
    /\ shown' = [shown EXCEPT ![b] = FALSE]
    /\ UNCHANGED <<kind, server, reqs, cred, out, ended, lost, faults>>

Answered(q) == q \in reqs /\ q.at \in {"answer", "failed"}

WebRefreshed_AnyGen(q) ==
    /\ kind = "web" /\ q.op = "refresh" /\ Answered(q)
    /\ cred' = IF q.new # None THEN q.new ELSE cred
    /\ shown' = IF q.cur \/ q.new # None THEN [shown EXCEPT ![q.tab] = (q.new # None)] ELSE shown
    /\ Ends(q)
    /\ UNCHANGED <<kind, server, out, ended, lost, faults>>
\* The browser takes the cookie of every answer; the store takes the answer only
\* in the session generation that asked.
WebRefreshed(q) ==
    /\ kind = "web" /\ q.op = "refresh" /\ Answered(q)
    /\ cred' = IF q.new # None THEN q.new ELSE cred
    /\ shown' = IF q.cur THEN [shown EXCEPT ![q.tab] = (q.new # None)] ELSE shown
    /\ Ends(q)
    /\ UNCHANGED <<kind, server, out, ended, lost, faults>>

\* signOut of a tab: local state first; with an access token about to expire it
\* refreshes the cookie for the sake of the logout.
WebSignOut(b) ==
    /\ kind = "web" /\ b \in Clients /\ shown[b] /\ Cardinality(reqs) < MaxRequests
    /\ shown' = [shown EXCEPT ![b] = FALSE] /\ out' = [out EXCEPT ![b] = TRUE]
    /\ \E op \in {"freshen", "logout"} :
          reqs' = Outdated(b) \union (IF cred # None THEN {Send(b, op, cred)} ELSE {})
    /\ UNCHANGED <<kind, server, cred, ended, lost, faults>>

WebFreshened(q) ==
    /\ kind = "web" /\ q.op = "freshen" /\ Answered(q)
    /\ cred' = IF q.new # None THEN q.new ELSE cred
    /\ IF q.new # None THEN Becomes(q, Send(q.tab, "logout", q.new)) ELSE Ends(q)
    /\ UNCHANGED <<kind, server, shown, out, ended, lost, faults>>

\* The answer of the logout clears the cookie.
WebLoggedOut(q) ==
    /\ kind = "web" /\ q.op = "logout" /\ Answered(q)
    /\ cred' = IF q.at = "answer" THEN None ELSE cred
    /\ Ends(q)
    /\ UNCHANGED <<kind, server, shown, out, ended, lost, faults>>

\* The app stores a rotated pair if the token it was asked with is still stored;
\* a refusal signs out under the same condition, an error leaves all as it is.
NativeRefreshed(q) ==
    /\ kind = "native" /\ q.op = "refresh" /\ Answered(q)
    /\ reqs' = (reqs \ {q}) \union
          CASE cred # q.tok \/ q.at = "failed" -> {}
            [] cred = q.tok /\ q.at = "answer" /\ q.new # None -> {[q EXCEPT !.at = "save"]}
            [] OTHER -> IF SigningOut(q.tab) THEN {} ELSE {Send(q.tab, "logout", cred)}
    /\ UNCHANGED <<kind, server, client, ended, lost, faults>>

\* saveTokens: the check is one call to the secure storage, the write another.
NativeSaved(q) ==
    /\ q \in reqs /\ q.at = "save"
    /\ cred' = q.new
    /\ Ends(q)
    /\ UNCHANGED <<kind, server, shown, out, ended, lost, faults>>

\* AuthNotifier.signOut: the server first, then, whatever it said, the device.
NativeSignOut(b) ==
    /\ kind = "native" /\ b \in Clients /\ shown[b] /\ cred # None /\ ~SigningOut(b)
    /\ Cardinality(reqs) < MaxRequests
    /\ reqs' = reqs \union {Send(b, "logout", cred)}
    /\ UNCHANGED <<kind, server, client, ended, lost, faults>>

NativeSignedOut(q) ==
    /\ kind = "native" /\ q.op = "logout" /\ Answered(q)
    /\ cred' = None /\ shown' = [shown EXCEPT ![q.tab] = FALSE]
    /\ Ends(q)
    /\ UNCHANGED <<kind, server, out, ended, lost, faults>>

\* The answer is lost on the way.
LoseAnswer(q) ==
    /\ q \in reqs /\ q.at = "answer" /\ Fault
    /\ Becomes(q, [q EXCEPT !.at = "failed", !.new = None])
    /\ lost' = TRUE
    /\ UNCHANGED <<kind, server, client, ended>>

\* The client gives up on a request that goes on at the server.
Timeout(q) ==
    /\ q \in reqs /\ q.op = "refresh" /\ q.cur /\ Running(q) /\ Fault
    /\ Becomes(q, [q EXCEPT !.cur = FALSE, !.op = "orphan"])
    /\ shown' = IF kind = "web" THEN [shown EXCEPT ![q.tab] = FALSE] ELSE shown
    /\ lost' = TRUE
    /\ UNCHANGED <<kind, server, cred, out, ended>>

\* A page reload or a cold start: memory is lost, answers go to nobody.
Reload(b) ==
    /\ b \in Clients /\ Fault
    /\ shown' = [shown EXCEPT ![b] = (kind = "native" /\ cred # None)]
    /\ out' = [out EXCEPT ![b] = FALSE]
    /\ reqs' = {q \in {IF q.tab = b THEN [q EXCEPT !.cur = FALSE, !.op = "orphan"] ELSE q : q \in reqs} :
                  q.op = "orphan" => Running(q)}
    /\ lost' = (lost \/ \E q \in reqs : q.tab = b)
    /\ UNCHANGED <<kind, server, cred, ended>>

Orphaned(q) ==
    /\ q.op = "orphan" /\ Answered(q)
    /\ Ends(q)
    /\ UNCHANGED <<kind, server, client, ended, lost, faults>>

-----------------------------------------------------------------------------

Next ==
    \/ \E b \in Tabs : \/ WebSignIn(b) \/ NativeSignIn(b) \/ RefreshAccessToken(b) \/ NoToken(b)
                       \/ WebSignOut(b) \/ NativeSignOut(b) \/ Reload(b)
    \/ \E q \in reqs : \/ Consume(q) \/ Rotate(q) \/ RevokeUser(q)
                       \/ ScanFamily(q) \/ RevokeFamily(q) \/ Logout(q) \/ Abort(q)
                       \/ WebRefreshed(q) \/ WebFreshened(q) \/ WebLoggedOut(q)
                       \/ NativeRefreshed(q) \/ NativeSaved(q) \/ NativeSignedOut(q)
                       \/ LoseAnswer(q) \/ Timeout(q) \/ Orphaned(q)
    \/ \E k \in Token : Ages(k) \/ Expire(k)
    \/ Block

Spec == Init /\ [][Next]_vars

-----------------------------------------------------------------------------
(* Properties.                                                             *)

\* Every piece of state holds a value it can hold, and a token of the client or
\* of a request is one that was issued.
TypeOK ==
    /\ kind \in {"native", "web"} /\ issued \in 0..MaxTokens
    /\ token \in [Token -> TokenRow]
    /\ \A k \in Token : token[k].state = "none" <=> k > issued
    /\ reqs \subseteq Request
    /\ \A q \in reqs : q.tok <= issued /\ q.new <= issued /\ q.targets \subseteq 1..issued
    /\ cred \in 0..issued
    /\ shown \in [Tabs -> BOOLEAN] /\ out \in [Tabs -> BOOLEAN]

\* F12: of all the requests that present a token only one consumes it: a family
\* never has two live tokens (and the state is well typed).
OneLive ==
    /\ TypeOK
    /\ \A k, l \in Token : Live(k) /\ Live(l) /\ token[k].family = token[l].family => k = l

\* A replay ends its family for good, unless a rotation overlapped it and took a
\* row away from it: no token of the family is live again.
ReplayEnds == \A f \in ended : \A k \in Family(f) : ~Live(k)

\* A client whose answers arrive, and within the grace window, keeps its session:
\* what it stores is live once its requests are done.  Tabs that refresh together
\* and the app's parallel 401s do not trip the replay detection.
HoldsLive == cred # None /\ reqs = {} /\ ~lost => Live(cred)

\* "cannot restore the old session": a tab that signed out shows no session until
\* it signs in again, whatever answers arrive late.
OutStaysOut == \A b \in Tabs : out[b] => ~shown[b]

-----------------------------------------------------------------------------
(* What the properties rest on.                                            *)

\* Families are numbered by their first token; only an issued token has one.
FamiliesIssued ==
    /\ \A k \in Token : token[k].family <= issued
    /\ ended \subseteq 0..issued

\* The row lock of the conditional UPDATE: one transaction at a time has consumed
\* a token, and until it ends the token is live for everybody else.
LockHolds ==
    /\ \A q \in reqs : q.at \in LockStates => Live(q.tok)
    /\ \A q, r \in reqs : q.at \in LockStates /\ r.at \in LockStates /\ q.tok = r.tok => q = r

\* What a replay is about to revoke is of its family; if it saw nothing live,
\* nothing is.
ScanTrue ==
    \A q \in reqs : q.at = "revoking" =>
        /\ q.targets \subseteq Family(token[q.tok].family)
        /\ q.targets = {} => \A k \in Family(token[q.tok].family) : ~Live(k)

\* A refresh whose answer a tab will take was sent by a session not signed out of;
\* the app has no such flag.
OutOutdates ==
    /\ \A q \in reqs : q.op = "refresh" /\ q.cur => ~out[q.tab]
    /\ kind = "native" => \A b \in Tabs : ~out[b]

\* While nothing is lost or late, no token under way or kept is old ...
Timely ==
    /\ ~blocked
    /\ \A k \in Token : token[k].state # "expired"
    /\ \A q \in reqs : /\ q.op # "orphan" /\ q.at \notin {"barred", "revoking"}
                       /\ Running(q) => token[q.tok].state # "old"
    /\ cred # None => token[cred].state # "old"

\* ... a successor on its way to the client is live and known to nobody else ...
Undelivered ==
    \A q \in reqs : q.new # None =>
        /\ q.at \in {"answer", "failed", "save"} /\ Live(q.new) /\ cred # q.new
        /\ \A r \in reqs : r.tok # q.new /\ (r.new = q.new => r = q)

\* ... and for a kept token that is spent the answer that replaces it is under way.
Replaced ==
    cred # None /\ ~Live(cred) =>
        \E q \in reqs : /\ q.tok = cred /\ q.at \in {"answer", "save"}
                        /\ q.op = "logout" \/ q.new # None

SInv == /\ OneLive /\ ReplayEnds /\ OutStaysOut
        /\ FamiliesIssued /\ LockHolds /\ ScanTrue /\ OutOutdates
        /\ ~lost => Timely /\ Undelivered /\ Replaced
=============================================================================
