------------------------------ MODULE Accounts ------------------------------
(***************************************************************************)
(* The accounts of one mailbox, the orders they own, and the operator's    *)
(* way into the cockpit: password reset links, the e-mailed second factor  *)
(* and the sessions it opens.                                              *)
(*                                                                         *)
(* Accounts are keyed by the address as typed, orders are found by it in   *)
(* lower case: Spellings are the addresses of one mailbox that differ in   *)
(* case only.  The mailbox is an operator's; a customer's is the same with *)
(* no challenge ever made.  Rate limits only delay and are left out.       *)
(***************************************************************************)
EXTENDS Naturals, FiniteSets

CONSTANTS
  Spellings,               \* of the mailbox's address
  Orders,                  \* placed with that address
  Links,                   \* auth_recovery_tokens for password resets
  Challenges,              \* auth_mfa_challenges
  Sessions,                \* admin_sessions
  ADMIN_MFA_MAX_ATTEMPTS,
  MaxRestarts

NoUser == "no user"
NoOrder == "no order"
AdminToken == "admin token"
NoSource == "no source"

\* An address is none of the stand-ins, nor is the id of a challenge.
ASSUME AccountsAssumption ==
  /\ ADMIN_MFA_MAX_ATTEMPTS \in Nat \ {0}
  /\ MaxRestarts \in Nat
  /\ {NoUser, NoOrder} \cap Spellings = {}
  /\ {AdminToken, NoSource} \cap Challenges = {}

VARIABLES
  user,       \* users, by address
  first,      \* the address of the oldest account: the one a lookup finds
  owner,      \* orders.user_id
  link,       \* where each reset link stands
  challenge,  \* auth_mfa_challenges, and whether the code reached its reader
  session,    \* admin_sessions, and the challenge each was opened for
  restarts

vars == <<user, first, owner, link, challenge, session, restarts>>
accounts == <<user, first, owner, link>>
cockpit == <<challenge, session>>

TypeOK ==
  /\ user \in [Spellings -> [provider : {"none", "email", "oauth"},
                             password : {"none", "legacy", "pbkdf2"}]]
  /\ first \in Spellings \cup {NoUser}
  /\ owner \in [Orders -> Spellings \cup {NoUser, NoOrder}]
  /\ link \in [Links -> {"none", "sent", "used", "expired"}]
  /\ challenge \in [Challenges -> [state : {"none", "open", "used", "expired"},
                                   told : BOOLEAN,
                                   attempts : 0..ADMIN_MFA_MAX_ATTEMPTS]]
  /\ session \in [Sessions -> [state : {"none", "active", "revoked", "expired"},
                               of : Challenges \cup {AdminToken, NoSource}]]
  /\ restarts \in 0..MaxRestarts

\* Accounts older than PBKDF2 still have a plain digest.
Init ==
  /\ \/ /\ user = [a \in Spellings |-> [provider |-> "none", password |-> "none"]]
        /\ first = NoUser
     \/ \E a \in Spellings :
          /\ user = [b \in Spellings |->
                       IF b = a THEN [provider |-> "email", password |-> "legacy"]
                       ELSE [provider |-> "none", password |-> "none"]]
          /\ first = a
  /\ owner = [o \in Orders |-> NoOrder]
  /\ link = [l \in Links |-> "none"]
  /\ challenge = [c \in Challenges |-> [state |-> "none", told |-> FALSE, attempts |-> 0]]
  /\ session = [s \in Sessions |-> [state |-> "none", of |-> NoSource]]
  /\ restarts = 0

Registered(a) == user[a].provider # "none"

-----------------------------------------------------------------------------
(* Orders and their owners.                                                  *)

\* Faulty: whoever signs in takes the mailbox's orders over.
link_all_orders_to_user(a) ==
  owner' = [o \in Orders |-> IF owner[o] = NoOrder THEN NoOrder ELSE a]

link_orders_to_user_by_email(a) ==
  owner' = [o \in Orders |-> IF owner[o] = NoUser THEN a ELSE owner[o]]

create_formation(o) ==
  /\ owner[o] = NoOrder
  /\ owner' = [owner EXCEPT ![o] = NoUser]
  /\ UNCHANGED <<user, first, link, cockpit, restarts>>

\* By a signed-in user, or with the token of a parent order.
create_service_order(o, by) ==
  /\ owner[o] = NoOrder
  /\ by \in {a \in Spellings : Registered(a)} \cup {owner[p] : p \in Orders \ {o}}
  /\ by # NoOrder
  /\ owner' = [owner EXCEPT ![o] = by]
  /\ UNCHANGED <<user, first, link, cockpit, restarts>>

Enters(a, provider, password) ==
  /\ user' = [user EXCEPT ![a] = [provider |-> provider, password |-> password]]
  /\ first' = IF first = NoUser THEN a ELSE first

auth_signup(a) ==
  /\ ~Registered(a)
  /\ Enters(a, "email", "pbkdf2")
  /\ link_orders_to_user_by_email(a)
  /\ UNCHANGED <<link, cockpit, restarts>>

\* An old digest is replaced on the way.
auth_login(a) ==
  /\ user[a].provider = "email"
  /\ user' = [user EXCEPT ![a].password = "pbkdf2"]
  /\ link_orders_to_user_by_email(a)
  /\ UNCHANGED <<first, link, cockpit, restarts>>

\* An account of any provider is taken for the address's own.
handle_oauth_login(a) ==
  /\ IF Registered(a) THEN UNCHANGED <<user, first>> ELSE Enters(a, "oauth", "none")
  /\ link_orders_to_user_by_email(a)
  /\ UNCHANGED <<link, cockpit, restarts>>

\* The dashboard's requests link as a login does.
get_user_orders(a) ==
  /\ Registered(a)
  /\ link_orders_to_user_by_email(a)
  /\ UNCHANGED <<user, first, link, cockpit, restarts>>

-----------------------------------------------------------------------------
(* Reset links: one lookup in lower case, whoever asks.                      *)

request_password_reset(l) ==
  /\ first # NoUser
  /\ user[first].provider = "email"
  /\ link[l] = "none"
  /\ link' = [link EXCEPT ![l] = "sent"]
  /\ UNCHANGED <<user, first, owner, cockpit, restarts>>

confirm_password_reset(l) ==
  /\ link[l] = "sent"
  /\ user[first].provider = "email"
  /\ user' = [user EXCEPT ![first].password = "pbkdf2"]
  /\ link' = [link EXCEPT ![l] = "used"]
  /\ UNCHANGED <<first, owner, cockpit, restarts>>

LinkExpires(l) ==
  /\ link[l] = "sent"
  /\ link' = [link EXCEPT ![l] = "expired"]
  /\ UNCHANGED <<user, first, owner, cockpit, restarts>>

-----------------------------------------------------------------------------
(* The cockpit.                                                              *)

\* The row comes before the e-mail.
create_admin_mfa_challenge(c) ==
  /\ challenge[c].state = "none"
  /\ challenge' = [challenge EXCEPT ![c].state = "open"]

start_admin_password_login(a, c) ==
  /\ user[a].provider = "email"
  /\ user' = [user EXCEPT ![a].password = "pbkdf2"]
  /\ create_admin_mfa_challenge(c)
  /\ UNCHANGED <<first, owner, link, session, restarts>>

start_admin_account_login(c) ==
  /\ \E a \in Spellings : Registered(a)
  /\ create_admin_mfa_challenge(c)
  /\ UNCHANGED <<accounts, session, restarts>>

send_login_code(c) ==
  /\ challenge[c].state = "open" /\ ~challenge[c].told
  /\ challenge' = [challenge EXCEPT ![c].told = TRUE]
  /\ UNCHANGED <<accounts, session, restarts>>

CodeExpires(c) ==
  /\ challenge[c].state = "open"
  /\ challenge' = [challenge EXCEPT ![c].state = "expired"]
  /\ UNCHANGED <<accounts, session, restarts>>

\* Faulty: the limit is not looked at.
MayTryFrom(c) == challenge[c].state = "open"

MayTry(c) ==
  /\ challenge[c].state = "open"
  /\ challenge[c].attempts < ADMIN_MFA_MAX_ATTEMPTS

wrong_code(c) ==
  /\ MayTry(c)
  /\ challenge' = [challenge EXCEPT ![c].attempts = @ + 1]
  /\ UNCHANGED <<accounts, session, restarts>>

insert_admin_session(s, source) ==
  /\ session[s].state = "none"
  /\ session' = [session EXCEPT ![s] = [state |-> "active", of |-> source]]

\* Faulty: the right code is taken before the limit is looked at.
verify_before_limit(c, s) ==
  /\ challenge[c].state = "open"
  /\ challenge[c].told
  /\ challenge' = [challenge EXCEPT ![c].state = "used"]
  /\ insert_admin_session(s, c)
  /\ UNCHANGED <<accounts, restarts>>

verify_admin_mfa_and_create_session(c, s) ==
  /\ MayTry(c)
  /\ challenge[c].told
  /\ challenge' = [challenge EXCEPT ![c].state = "used"]
  /\ insert_admin_session(s, c)
  /\ UNCHANGED <<accounts, restarts>>

\* Faulty: the session is inserted before the challenge is marked used.
session_before_used(c) ==
  /\ MayTry(c)
  /\ challenge[c].told
  /\ \E s \in Sessions : insert_admin_session(s, c)
  /\ restarts < MaxRestarts
  /\ restarts' = restarts + 1
  /\ UNCHANGED <<accounts, challenge>>

\* A restart between the two commits: the challenge is used, for nothing.
verify_cut_short(c) ==
  /\ MayTry(c)
  /\ challenge[c].told
  /\ challenge' = [challenge EXCEPT ![c].state = "used"]
  /\ restarts < MaxRestarts
  /\ restarts' = restarts + 1
  /\ UNCHANGED <<accounts, session>>

\* The token of the environment, without a second factor.
create_admin_session(s) ==
  /\ insert_admin_session(s, AdminToken)
  /\ UNCHANGED <<accounts, challenge, restarts>>

revoke_admin_session(s) ==
  /\ session[s].state \in {"active", "expired"}
  /\ session' = [session EXCEPT ![s].state = "revoked"]
  /\ UNCHANGED <<accounts, challenge, restarts>>

SessionExpires(s) ==
  /\ session[s].state = "active"
  /\ session' = [session EXCEPT ![s].state = "expired"]
  /\ UNCHANGED <<accounts, challenge, restarts>>

-----------------------------------------------------------------------------
OrderStep(o) ==
  \/ create_formation(o)
  \/ \E by \in Spellings \cup {NoUser} : create_service_order(o, by)

UserStep(a) ==
  \/ auth_signup(a)
  \/ auth_login(a)
  \/ handle_oauth_login(a)
  \/ get_user_orders(a)

LinkStep(l) == request_password_reset(l) \/ confirm_password_reset(l) \/ LinkExpires(l)

ChallengeStep(c) ==
  \/ \E a \in Spellings : start_admin_password_login(a, c)
  \/ start_admin_account_login(c)
  \/ send_login_code(c)
  \/ CodeExpires(c)
  \/ wrong_code(c)
  \/ \E s \in Sessions : verify_admin_mfa_and_create_session(c, s)
  \/ verify_cut_short(c)

SessionStep(s) == create_admin_session(s) \/ revoke_admin_session(s) \/ SessionExpires(s)

Next ==
  \/ \E o \in Orders : OrderStep(o)
  \/ \E a \in Spellings : UserStep(a)
  \/ \E l \in Links : LinkStep(l)
  \/ \E c \in Challenges : ChallengeStep(c)
  \/ \E s \in Sessions : SessionStep(s)

Spec == Init /\ [][Next]_vars

-----------------------------------------------------------------------------
(* Properties.                                                               *)

SessionsOf(c) == {s \in Sessions : session[s].of = c}

\* One code opens one session at most, although the challenge and the session
\* are committed apart and the server may stop in between.
OneSessionPerChallenge == \A c \in Challenges : Cardinality(SessionsOf(c)) <= 1

\* A challenge whose guesses are spent opens no session any more, whatever
\* restarts, which forget the rate limits, have come in between.
SpentChallengeOpensNothing ==
  \A c \in Challenges :
    challenge[c].attempts = ADMIN_MFA_MAX_ATTEMPTS => SessionsOf(c) = {}

\* An order that is in an account stays there, whichever accounts of the same
\* mailbox sign up, sign in and look at their dashboards later.
OwnerIsFinal ==
  [][\A o \in Orders : owner[o] \in Spellings => owner'[o] = owner[o]]_vars
=============================================================================
