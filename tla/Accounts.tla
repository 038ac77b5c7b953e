------------------------------ MODULE Accounts ------------------------------
(***************************************************************************)
(* Logging in with GitHub: a state that may be used once within a day, a    *)
(* user row that is found or created in two statements, and tokens (JWTs)   *)
(* that name the row.  GitHub is external: it answers a code with a token   *)
(* of the account that gave it, or with an error.                           *)
(***************************************************************************)
EXTENDS Naturals, FiniteSets

CONSTANTS
    OAuthStates,    \* states /github-auth/url may draw
    Githubs,        \* GitHub accounts
    MaxLogins       \* bound: callbacks, which may repeat one another

ASSUME AccountsConstants == MaxLogins \in Nat

Ids == 1..MaxLogins

VARIABLES
    stateRow,   \* OAuthStates -> unused, fresh, expired or gone
    users,      \* rows: id, GitHub account and the account its access token is of
    logins,     \* callbacks under way
    loggedIn,   \* callbacks so far
    tokens,     \* tokens issued: the account that logged in, the id they name
    passedState    \* OAuthStates -> callbacks it was valid for (history)

accountVars == <<stateRow, users, logins, loggedIn, tokens, passedState>>

UserRows == [id : Ids, github : Githubs, access : Githubs]
Tokens == [github : Githubs, id : Ids, valid : BOOLEAN]
Logins == [state : OAuthStates \cup {"none"}, github : Githubs,
           step : {"verify", "clean", "exchange", "find", "insert", "update"},
           id : Ids, found : SUBSET UserRows]

AccountsTypeOK ==
    /\ stateRow \in [OAuthStates -> {"unused", "fresh", "expired", "gone"}]
    /\ users \subseteq UserRows /\ logins \subseteq Logins
    /\ loggedIn \in 0..MaxLogins
    /\ tokens \subseteq Tokens
    /\ passedState \in [OAuthStates -> Nat]

-----------------------------------------------------------------------------
(* GET /github-auth/url *)
GetUrl(s) ==
    /\ stateRow[s] = "unused"
    /\ stateRow' = [stateRow EXCEPT ![s] = "fresh"]
    /\ UNCHANGED <<users, logins, loggedIn, tokens, passedState>>

(* A day passes. *)
StateExpires(s) ==
    /\ stateRow[s] = "fresh"
    /\ stateRow' = [stateRow EXCEPT ![s] = "expired"]
    /\ UNCHANGED <<users, logins, loggedIn, tokens, passedState>>

(* GET and POST /github/callback; a POST brings no state. *)
Callback(s, github, step) ==
    /\ loggedIn < MaxLogins
    /\ loggedIn' = loggedIn + 1
    /\ logins' = logins \cup {[state |-> s, github |-> github, step |-> step,
                               id |-> loggedIn + 1, found |-> {}]}
    /\ UNCHANGED <<stateRow, users, tokens, passedState>>

(* The browser follows GitHub's redirect, once or again. *)
GetCallback(s, github) == stateRow[s] # "unused" /\ Callback(s, github, "verify")
PostCallback(github) == Callback("none", github, "exchange")

Moves(l, step) == logins' = (logins \ {l}) \cup {[l EXCEPT !.step = step]}
Answered(l) == logins' = logins \ {l}

(* Mutant of VerifyAndConsume: the state is found now and deleted later. *)
Bug_FindThenDelete(l) ==
    /\ l.step = "verify"
    /\ IF stateRow[l.state] = "fresh"
       THEN passedState' = [passedState EXCEPT ![l.state] = @ + 1] /\ Moves(l, "clean")
       ELSE UNCHANGED passedState /\ Answered(l)
    /\ UNCHANGED <<stateRow, users, loggedIn, tokens>>

(* verifyAndConsume: one DELETE ... RETURNING of a state that is not expired. *)
VerifyAndConsume(l) ==
    /\ l.step = "verify"
    /\ IF stateRow[l.state] = "fresh"
       THEN /\ stateRow' = [stateRow EXCEPT ![l.state] = "gone"]
            /\ passedState' = [passedState EXCEPT ![l.state] = @ + 1]
            /\ Moves(l, "exchange")
       ELSE UNCHANGED <<stateRow, passedState>> /\ Moves(l, "clean")
    /\ UNCHANGED <<users, loggedIn, tokens>>

(* a state that was not accepted is deleted, and the callback refused. *)
CleanState(l) ==
    /\ l.step = "clean"
    /\ stateRow' = [stateRow EXCEPT ![l.state] = "gone"]
    /\ Answered(l)
    /\ UNCHANGED <<users, loggedIn, tokens, passedState>>

(* GitHub exchanges the code and names the account ... *)
Exchange(l) ==
    /\ l.step = "exchange" /\ Moves(l, "find")
    /\ UNCHANGED <<stateRow, users, loggedIn, tokens, passedState>>

(* ... or refuses it; or a statement throws: the answer is an error. *)
LoginFails(l) ==
    /\ l.step \in {"exchange", "find", "insert", "update"} /\ Answered(l)
    /\ UNCHANGED <<stateRow, users, loggedIn, tokens, passedState>>

(* findOrCreate reads the row of the account. *)
FindByGithubId(l) ==
    /\ l.step = "find"
    /\ LET found == {u \in users : u.github = l.github}
       IN logins' = (logins \ {l}) \cup
             {[l EXCEPT !.found = found, !.step = IF found = {} THEN "insert" ELSE "update"]}
    /\ UNCHANGED <<stateRow, users, loggedIn, tokens, passedState>>

GenerateToken(github, id) == tokens' = tokens \cup {[github |-> github, id |-> id, valid |-> TRUE]}

(* github_id is UNIQUE: another INSERT throws. *)
InsertAllowed(github) == \A u \in users : u.github # github

InsertUser(l) ==
    /\ l.step = "insert"
    /\ InsertAllowed(l.github)
    /\ users' = users \cup {[id |-> l.id, github |-> l.github, access |-> l.github]}
    /\ GenerateToken(l.github, l.id)
    /\ Answered(l)
    /\ UNCHANGED <<stateRow, loggedIn, passedState>>

(* The row that was found gets the new access token. *)
UpdateUser(l) ==
    /\ l.step = "update"
    /\ \E u \in l.found :
          /\ users' = (users \ {u}) \cup {[u EXCEPT !.access = l.github]}
          /\ GenerateToken(u.github, u.id)
    /\ Answered(l)
    /\ UNCHANGED <<stateRow, loggedIn, passedState>>

(* Seven days pass. *)
TokenExpires(t) ==
    /\ t.valid
    /\ tokens' = (tokens \ {t}) \cup {[t EXCEPT !.valid = FALSE]}
    /\ UNCHANGED <<stateRow, users, logins, loggedIn, passedState>>

(* authMiddleware: the row the token names, if it has not expired. *)
Authorised(t) == IF t.valid THEN {u \in users : u.id = t.id} ELSE {}

(* POST /refresh reissues a token for the row the old one names. *)
Refresh(t) ==
    /\ \E u \in Authorised(t) : GenerateToken(u.github, u.id)
    /\ UNCHANGED <<stateRow, users, logins, loggedIn, passedState>>

-----------------------------------------------------------------------------
AccountsInit ==
    /\ stateRow = [s \in OAuthStates |-> "unused"]
    /\ users = {} /\ logins = {} /\ loggedIn = 0 /\ tokens = {}
    /\ passedState = [s \in OAuthStates |-> 0]

AccountsNext ==
    \/ \E s \in OAuthStates : GetUrl(s) \/ StateExpires(s)
    \/ \E github \in Githubs :
          (\E s \in OAuthStates : GetCallback(s, github)) \/ PostCallback(github)
    \/ \E l \in logins :
          \/ VerifyAndConsume(l) \/ CleanState(l) \/ Exchange(l) \/ LoginFails(l)
          \/ FindByGithubId(l) \/ InsertUser(l) \/ UpdateUser(l)
    \/ \E t \in tokens : TokenExpires(t) \/ Refresh(t)

AccountsSpec == AccountsInit /\ [][AccountsNext]_accountVars

-----------------------------------------------------------------------------
(* A state lets at most one callback pass, however often and at once the
   redirect is followed. *)
StateUsedOnce == \A s \in OAuthStates : passedState[s] <= 1

(* An account keeps its identity: the tokens of all its logins, those of
   simultaneous first logins included, name one row, and it is the account's. *)
IdentityIsStable ==
    /\ \A t, u \in tokens : t.github = u.github => t.id = u.id
    /\ \A t \in tokens : \E u \in users : u.id = t.id /\ u.github = t.github /\ u.access = t.github

(* An account has one row, and a row's id is its own: a token lets in at most
   one account. *)
OneRowPerAccount ==
    \A u, v \in users : u.id = v.id \/ u.github = v.github => u = v

(* Why: a state that can still be consumed has let nobody pass ... *)
FreshIsUnused == \A s \in OAuthStates : stateRow[s] \in {"unused", "fresh"} => passedState[s] = 0

(* ... and a callback brings an id of its own and finds rows of its account,
   whose access token is always the account's. *)
LoginsAreOwn ==
    /\ \A l \in logins : /\ l.step \in {"verify", "clean"} => l.state \in OAuthStates
                         /\ l.id <= loggedIn /\ \A u \in users : u.id # l.id
                         /\ \A u \in l.found : u \in users /\ u.github = l.github
    /\ \A l, m \in logins : l.id = m.id => l = m
    /\ \A u \in users : u.id <= loggedIn /\ u.access = u.github

(* A login is made once, and for the account that made it. *)
AccountsInv ==
    /\ AccountsTypeOK /\ StateUsedOnce /\ IdentityIsStable
    /\ OneRowPerAccount /\ FreshIsUnused /\ LoginsAreOwn
=============================================================================
