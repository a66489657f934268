---------------------------- MODULE AccountService ----------------------------
(***************************************************************************)
(* The tokens of an account: device logins that store them, callers that   *)
(* need one and refresh it when it is about to expire, and removal         *)
(* (account/AccountService.hx over account/AccountRepo.hx).  A caller      *)
(* reads its row and enters resolveToken without an await; awaits are for  *)
(* HTTP answers, and what an answer sets off runs to the next await.       *)
(*                                                                         *)
(* A token is a number, in the order of issue, with the login it descends  *)
(* from: a refresh names the account by the row its caller has read, and   *)
(* its answer is taken to be of the login that row was of.  A refresh is   *)
(* known by the caller that began it.                                      *)
(***************************************************************************)
EXTENDS Naturals

CONSTANTS Accounts,
          TokenCalls,  (* calls of token, config and orgs                     *)
          Logins,   (* calls of poll                                       *)
          None

ASSUME AccountAssumption ==
  /\ None \notin Accounts \cup TokenCalls \cup Logins
  /\ Accounts # {} /\ TokenCalls # {} /\ Logins # {}

VARIABLES rows,       (* the account table                                 *)
          active,     (* account_state                                     *)
          refreshes,  (* AccountService.refreshes                          *)
          pending,    (* the refreshes                                     *)
          call,       (* the callers                                       *)
          poll,       (* the logins                                        *)
          issued,     (* the last token issued                             *)
          settled,    (* refreshes that have settled; history only         *)
          last,       (* the last login of each account, and whether a     *)
          crossed     (* refresh was in flight when it ended; history only *)

accountVars == <<rows, active, refreshes, pending, call, poll, issued, settled, last, crossed>>

history == <<last, crossed>>

Token == [login : Logins, number : Nat]

NoToken == None

Row == [token : Token, fresh : BOOLEAN]

Idle == [phase |-> "idle", account |-> None, kind |-> "token", on |-> None, token |-> NoToken,
         held |-> NoToken, began |-> 0, refused |-> FALSE]

NoRefresh == [state |-> "none", account |-> None, login |-> None, token |-> NoToken, ended |-> 0]

NoPoll == [phase |-> "idle", token |-> NoToken, account |-> None]

Stored == DOMAIN rows

Flying(a) == {c \in TokenCalls : pending[c].state = "flying" /\ pending[c].account = a}

Put(a, row) == [b \in Stored \cup {a} |-> IF b = a THEN row ELSE rows[b]]

-----------------------------------------------------------------------------
(* The token of caller w is there: token returns it, config and orgs send  *)
(* it with their request.                                                  *)
Resolved(w, t) ==
  [w EXCEPT !.phase = IF w.kind = "token" THEN "done" ELSE "fetching", !.token = t]

Refused(w) == [w EXCEPT !.phase = "failed"]

After(w, refresh) ==
  IF refresh.state = "ok" THEN Resolved(w, refresh.token) ELSE Refused(w)

Called(a, kind) ==
  [Idle EXCEPT !.account = a, !.kind = kind, !.began = settled,
               !.held = IF a \in Stored /\ rows[a].fresh THEN rows[a].token ELSE NoToken]

(* No account: there is nothing to return.                                 *)
CallNothing(c, a, kind) ==
  /\ call[c].phase = "idle"
  /\ a \notin Stored
  /\ call' = [call EXCEPT ![c] = [Called(a, kind) EXCEPT !.phase = "done"]]
  /\ UNCHANGED <<rows, active, refreshes, pending, poll, issued, settled, history>>

CallFresh(c, a, kind) ==
  /\ call[c].phase = "idle"
  /\ a \in Stored
  /\ rows[a].fresh
  /\ call' = [call EXCEPT ![c] = Resolved(Called(a, kind), rows[a].token)]
  /\ UNCHANGED <<rows, active, refreshes, pending, poll, issued, settled, history>>

(* NoneInFlight, EntryStays and TokensStay are forms a defect would give,  *)
(* for the mutation checks only.                                           *)
NoneInFlight(a) == None

(* The refresh of the account that is in flight.                           *)
Existing(a) == refreshes[a]

(* A caller waits for that refresh.                                        *)
CallJoins(c, a, kind) ==
  /\ call[c].phase = "idle"
  /\ a \in Stored
  /\ ~rows[a].fresh
  /\ Existing(a) # None
  /\ LET r == Existing(a)
         w == [Called(a, kind) EXCEPT !.phase = "waiting", !.on = r]
     IN call' = [call EXCEPT ![c] =
                   IF pending[r].state = "flying" THEN w ELSE After(w, pending[r])]
  /\ UNCHANGED <<rows, active, refreshes, pending, poll, issued, settled, history>>

(* Or it begins one, with the row it has read.                             *)
CallRefreshes(c, a, kind) ==
  /\ call[c].phase = "idle"
  /\ a \in Stored
  /\ ~rows[a].fresh
  /\ Existing(a) = None
  /\ refreshes' = [refreshes EXCEPT ![a] = c]
  /\ pending' = [pending EXCEPT ![c] = [NoRefresh EXCEPT !.state = "flying", !.account = a,
                                                        !.login = rows[a].token.login]]
  /\ call' = [call EXCEPT ![c] = [Called(a, kind) EXCEPT !.phase = "waiting", !.on = c]]
  /\ UNCHANGED <<rows, active, poll, issued, settled, history>>

EntryStays(a) == refreshes

(* Removed by the caller that began the refresh, however it ended.         *)
Cleared(a) == [refreshes EXCEPT ![a] = None]

(* All that wait for refresh r go on, r being what it has become.          *)
Resume(c, r) == [w \in TokenCalls |->
  IF call[w].phase = "waiting" /\ call[w].on = c THEN After(call[w], r) ELSE call[w]]

(* The refresh is answered: the tokens are stored if the account is still  *)
(* there, whatever row there is by now.                                    *)
RefreshEnds(c) ==
  LET a == pending[c].account
      t == [login |-> pending[c].login, number |-> issued + 1]
  IN
  /\ pending[c].state = "flying"
  /\ issued' = issued + 1
  /\ settled' = settled + 1
  /\ pending' = [pending EXCEPT ![c] =
                   [@ EXCEPT !.state = "ok", !.token = t, !.ended = settled + 1]]
  /\ \E fresh \in BOOLEAN :
       rows' = IF a \in Stored THEN Put(a, [token |-> t, fresh |-> fresh]) ELSE rows
  /\ refreshes' = Cleared(a)
  /\ call' = Resume(c, pending'[c])
  /\ UNCHANGED <<active, poll, history>>

RefreshFails(c) ==
  /\ pending[c].state = "flying"
  /\ settled' = settled + 1
  /\ pending' = [pending EXCEPT ![c] = [@ EXCEPT !.state = "failed", !.ended = settled + 1]]
  /\ refreshes' = Cleared(pending[c].account)
  /\ call' = Resume(c, pending'[c])
  /\ UNCHANGED <<rows, active, poll, issued, history>>

(* The request of config or orgs is answered, or fails.                    *)
FetchEnds(c) ==
  /\ call[c].phase = "fetching"
  /\ \/ call' = [call EXCEPT ![c].phase = "done"]
     \/ call' = [call EXCEPT ![c].phase = "failed", ![c].refused = TRUE]
  /\ UNCHANGED <<rows, active, refreshes, pending, poll, issued, settled, history>>

-----------------------------------------------------------------------------
(* poll: the token, the user it is of, the user's orgs; then it is stored. *)
PollToken(l) ==
  /\ poll[l].phase = "idle"
  /\ issued' = issued + 1
  /\ poll' = [poll EXCEPT ![l] = [NoPoll EXCEPT !.phase = "user",
                                    !.token = [login |-> l, number |-> issued + 1]]]
  /\ UNCHANGED <<rows, active, refreshes, pending, call, settled, history>>

PollUser(l, a) ==
  /\ poll[l].phase = "user"
  /\ poll' = [poll EXCEPT ![l].phase = "orgs", ![l].account = a]
  /\ UNCHANGED <<rows, active, refreshes, pending, call, issued, settled, history>>

TokensStay(l, fresh) ==
  LET a == poll[l].account IN
  IF a \in Stored THEN rows ELSE Put(a, [token |-> poll[l].token, fresh |-> fresh])

(* The upsert replaces every column.                                       *)
LoggedIn(l, fresh) == Put(poll[l].account, [token |-> poll[l].token, fresh |-> fresh])

PollOrgs(l) ==
  /\ poll[l].phase = "orgs"
  /\ \E fresh \in BOOLEAN : rows' = LoggedIn(l, fresh)
  /\ active' = poll[l].account
  /\ poll' = [poll EXCEPT ![l].phase = "done"]
  /\ last' = [last EXCEPT ![poll[l].account] = l]
  /\ crossed' = [crossed EXCEPT ![poll[l].account] = Flying(poll[l].account) # {}]
  /\ UNCHANGED <<refreshes, pending, call, issued, settled>>

(* Not authorised yet, denied, or any of the three requests fails.         *)
PollFails(l) ==
  /\ poll[l].phase \in {"idle", "user", "orgs"}
  /\ poll' = [poll EXCEPT ![l].phase = "failed"]
  /\ UNCHANGED <<rows, active, refreshes, pending, call, issued, settled, history>>

Remove(a) ==
  /\ a \in Stored
  /\ rows' = [b \in Stored \ {a} |-> rows[b]]
  /\ active' = IF active = a THEN None ELSE active
  /\ UNCHANGED <<refreshes, pending, call, poll, issued, settled, history>>

(* use of an account that is not stored violates the foreign key.          *)
Use(a) ==
  /\ a \in Stored
  /\ active' = a
  /\ UNCHANGED <<rows, refreshes, pending, call, poll, issued, settled, history>>

(* Time passes: less than five minutes are left of the token.              *)
Expires(a) ==
  /\ a \in Stored
  /\ rows[a].fresh
  /\ rows' = [rows EXCEPT ![a].fresh = FALSE]
  /\ UNCHANGED <<active, refreshes, pending, call, poll, issued, settled, history>>

-----------------------------------------------------------------------------
AccountInit ==
  /\ rows = [a \in {} |-> None]
  /\ active = None
  /\ refreshes = [a \in Accounts |-> None]
  /\ pending = [c \in TokenCalls |-> NoRefresh]
  /\ call = [c \in TokenCalls |-> Idle]
  /\ poll = [l \in Logins |-> NoPoll]
  /\ issued = 0
  /\ settled = 0
  /\ last = [a \in Accounts |-> None]
  /\ crossed = [a \in Accounts |-> FALSE]

CallSteps(c) == \E a \in Accounts, kind \in {"token", "config"} :
  \/ CallNothing(c, a, kind)
  \/ CallFresh(c, a, kind)
  \/ CallJoins(c, a, kind)
  \/ CallRefreshes(c, a, kind)

AccountNext ==
  \/ \E c \in TokenCalls : CallSteps(c) \/ RefreshEnds(c) \/ RefreshFails(c) \/ FetchEnds(c)
  \/ \E l \in Logins : PollToken(l) \/ PollOrgs(l) \/ PollFails(l)
  \/ \E l \in Logins, a \in Accounts : PollUser(l, a)
  \/ \E a \in Accounts : Remove(a) \/ Use(a) \/ Expires(a)

AccountSpec == AccountInit /\ [][AccountNext]_accountVars

-----------------------------------------------------------------------------
(* "concurrent config/token refresh coalescing", docs/account-repo.md:     *)
(* whoever calls, however the rows change meanwhile, an account is in one  *)
(* refresh at a time (refreshes, resolveToken).                            *)
OneRefreshAtATime ==
  \A a \in Accounts : \A c, d \in Flying(a) : c = d

(* What a call gets is of its own time and account: the token that was     *)
(* stored and fresh when it began, or what a refresh that ended since has  *)
(* given; and it fails only with such a refresh or with its own request.   *)
(* No result of a refresh is kept for later callers.                       *)
AnswersAreCurrent ==
  \A c \in TokenCalls :
    LET Ended(state) == {r \in TokenCalls : /\ pending[r].state = state
                                            /\ pending[r].account = call[c].account
                                            /\ pending[r].ended > call[c].began} IN
    /\ (call[c].phase = "done" /\ call[c].token # NoToken) =>
         \/ call[c].token = call[c].held
         \/ \E r \in Ended("ok") : call[c].token = pending[r].token
    /\ call[c].phase = "failed" => call[c].refused \/ Ended("failed") # {}

(* The tokens stored of an account descend from its last login, unless a   *)
(* refresh was in flight when that login ended: its answer then puts the   *)
(* tokens of the older login back (persistToken, persistAccount).          *)
LoginsHold ==
  \A a \in Stored : ~crossed[a] => rows[a].token.login = last[a]
=============================================================================
