---------------------------- MODULE AccountsProofs ----------------------------
(***************************************************************************)
(* Type correctness, the two promises of the second factor and the owner   *)
(* of an order, for every mailbox and every number of orders, challenges,  *)
(* sessions, guesses and restarts.                                         *)
(***************************************************************************)
EXTENDS Accounts, FiniteSetTheorems, TLAPS

\* What opens a session is a challenge used up, with guesses to spare, that
\* has opened no other: the cockpit's invariant.
UsedForSession ==
  \A s \in Sessions :
    /\ session[s].state = "none" => session[s].of = NoSource
    /\ session[s].of \in Challenges =>
         /\ challenge[session[s].of].state = "used"
         /\ challenge[session[s].of].attempts < ADMIN_MFA_MAX_ATTEMPTS

OneEach ==
  \A s, t \in Sessions :
    session[s].of \in Challenges /\ session[s].of = session[t].of => s = t

CockpitInv == TypeOK /\ UsedForSession /\ OneEach

-----------------------------------------------------------------------------
\* An empty cockpit, with or without an old account, is well typed.
LEMMA InitType == Init => TypeOK
<1> SUFFICES ASSUME Init PROVE TypeOK
  OBVIOUS
<1>1. /\ user \in [Spellings -> [provider : {"none", "email", "oauth"},
                               password : {"none", "legacy", "pbkdf2"}]]
      /\ first \in Spellings \cup {NoUser}
  BY DEF Init
<1>2. /\ challenge \in [Challenges -> [state : {"none", "open", "used", "expired"},
                                     told : BOOLEAN,
                                     attempts : 0..ADMIN_MFA_MAX_ATTEMPTS]]
      /\ session \in [Sessions -> [state : {"none", "active", "revoked", "expired"},
                                 of : Challenges \cup {AdminToken, NoSource}]]
      /\ restarts \in 0..MaxRestarts
  BY AccountsAssumption DEF Init
<1> QED BY <1>1, <1>2 DEF Init, TypeOK

\* The orders' steps keep to the types: an owner is a user or nobody.
LEMMA OrdersKeepType ==
  ASSUME TypeOK, NEW o \in Orders, OrderStep(o)
  PROVE  TypeOK'
<1> USE DEF TypeOK, cockpit
<1>1. CASE create_formation(o) BY <1>1 DEF create_formation
<1>2. ASSUME NEW by \in Spellings \cup {NoUser}, create_service_order(o, by)
      PROVE  TypeOK'
  BY <1>2 DEF create_service_order
<1> QED BY <1>1, <1>2 DEF OrderStep

\* So do sign-up, sign-in and the dashboard.
LEMMA UsersKeepType ==
  ASSUME TypeOK, NEW a \in Spellings, UserStep(a)
  PROVE  TypeOK'
<1> USE DEF TypeOK, cockpit, link_orders_to_user_by_email, Enters
<1>1. CASE auth_signup(a) BY <1>1 DEF auth_signup
<1>2. CASE auth_login(a) BY <1>2 DEF auth_login
<1>3. CASE handle_oauth_login(a) BY <1>3 DEF handle_oauth_login
<1>4. CASE get_user_orders(a) BY <1>4 DEF get_user_orders
<1> QED BY <1>1, <1>2, <1>3, <1>4 DEF UserStep

\* So do the reset links.
LEMMA LinksKeepType ==
  ASSUME TypeOK, NEW l \in Links, LinkStep(l)
  PROVE  TypeOK'
<1> USE DEF TypeOK, cockpit
<1>1. CASE request_password_reset(l) BY <1>1 DEF request_password_reset
<1>2. CASE confirm_password_reset(l) BY <1>2 DEF confirm_password_reset
<1>3. CASE LinkExpires(l) BY <1>3 DEF LinkExpires
<1> QED BY <1>1, <1>2, <1>3 DEF LinkStep

\* So do the challenges: a guess is counted below the limit only.
LEMMA ChallengesKeepType ==
  ASSUME TypeOK, NEW c \in Challenges, ChallengeStep(c)
  PROVE  TypeOK'
<1> USE AccountsAssumption
    DEF TypeOK, accounts, create_admin_mfa_challenge, MayTry, insert_admin_session
<1>1. ASSUME NEW a \in Spellings, start_admin_password_login(a, c) PROVE TypeOK'
  BY <1>1 DEF start_admin_password_login
<1>2. CASE start_admin_account_login(c) BY <1>2 DEF start_admin_account_login
<1>3. CASE send_login_code(c) BY <1>3 DEF send_login_code
<1>4. CASE CodeExpires(c) BY <1>4 DEF CodeExpires
<1>5. CASE wrong_code(c) BY <1>5 DEF wrong_code
<1>6. ASSUME NEW s \in Sessions, verify_admin_mfa_and_create_session(c, s) PROVE TypeOK'
  BY <1>6 DEF verify_admin_mfa_and_create_session
<1>7. CASE verify_cut_short(c) BY <1>7 DEF verify_cut_short
<1> QED BY <1>1, <1>2, <1>3, <1>4, <1>5, <1>6, <1>7 DEF ChallengeStep

\* So do the sessions.
LEMMA SessionsKeepType ==
  ASSUME TypeOK, NEW s \in Sessions, SessionStep(s)
  PROVE  TypeOK'
<1> USE DEF TypeOK, accounts, insert_admin_session
<1>1. CASE create_admin_session(s) BY <1>1 DEF create_admin_session
<1>2. CASE revoke_admin_session(s) BY <1>2 DEF revoke_admin_session
<1>3. CASE SessionExpires(s) BY <1>3 DEF SessionExpires
<1> QED BY <1>1, <1>2, <1>3 DEF SessionStep

\* Every variable of the accounts keeps to its set of values.
THEOREM TypeCorrect == Spec => []TypeOK
<1>1. TypeOK /\ [Next]_vars => TypeOK'
  <2>1. CASE Next
    BY <2>1, OrdersKeepType, UsersKeepType, LinksKeepType, ChallengesKeepType,
       SessionsKeepType DEF Next
  <2>2. CASE UNCHANGED vars BY <2>2 DEF vars, TypeOK
  <2> QED BY <2>1, <2>2
<1> QED BY <1>1, InitType, PTL DEF Spec

-----------------------------------------------------------------------------
\* No session is open at first.
LEMMA InitCockpit == Init => CockpitInv
BY InitType, AccountsAssumption DEF Init, CockpitInv, UsedForSession, OneEach

\* A challenge is never used twice: what uses it finds it open, and a session's
\* own is used.  A code that is only tried or sent leaves used ones alone.
LEMMA ChallengesKeepCockpit ==
  ASSUME CockpitInv, NEW c \in Challenges, ChallengeStep(c)
  PROVE  UsedForSession' /\ OneEach'
<1> USE AccountsAssumption DEF CockpitInv, TypeOK, UsedForSession, OneEach
<1>1. ASSUME NEW a \in Spellings, start_admin_password_login(a, c)
      PROVE  UsedForSession' /\ OneEach'
  BY <1>1 DEF start_admin_password_login, create_admin_mfa_challenge
<1>2. CASE start_admin_account_login(c)
  BY <1>2 DEF start_admin_account_login, create_admin_mfa_challenge
<1>3. CASE send_login_code(c) BY <1>3 DEF send_login_code
<1>4. CASE CodeExpires(c) BY <1>4 DEF CodeExpires
<1>5. CASE wrong_code(c) BY <1>5 DEF wrong_code, MayTry
<1>6. ASSUME NEW s \in Sessions, verify_admin_mfa_and_create_session(c, s)
      PROVE  UsedForSession' /\ OneEach'
  <2>1. /\ challenge[c].state = "open"
        /\ challenge[c].attempts < ADMIN_MFA_MAX_ATTEMPTS
        /\ challenge' = [challenge EXCEPT ![c].state = "used"]
        /\ session' = [session EXCEPT ![s] = [state |-> "active", of |-> c]]
    BY <1>6 DEF verify_admin_mfa_and_create_session, MayTry, insert_admin_session
  <2>2. \A t \in Sessions : session[t].of # c BY <2>1
  <2>3. UsedForSession' BY <2>1, <2>2
  <2>4. OneEach' BY <2>1, <2>2
  <2> QED BY <2>3, <2>4
<1>7. CASE verify_cut_short(c) BY <1>7 DEF verify_cut_short, MayTry, accounts
<1> QED BY <1>1, <1>2, <1>3, <1>4, <1>5, <1>6, <1>7 DEF ChallengeStep

\* A session keeps its source, and the environment's token is no challenge.
LEMMA SessionsKeepCockpit ==
  ASSUME CockpitInv, NEW s \in Sessions, SessionStep(s)
  PROVE  UsedForSession' /\ OneEach'
<1> USE AccountsAssumption DEF CockpitInv, TypeOK, UsedForSession, OneEach, insert_admin_session
<1>1. CASE create_admin_session(s) BY <1>1 DEF create_admin_session
<1>2. CASE revoke_admin_session(s) BY <1>2 DEF revoke_admin_session
<1>3. CASE SessionExpires(s) BY <1>3 DEF SessionExpires
<1> QED BY <1>1, <1>2, <1>3 DEF SessionStep

\* Orders, users and links leave the cockpit alone.
LEMMA OthersLeaveCockpit ==
  ASSUME \/ \E o \in Orders : OrderStep(o)
         \/ \E a \in Spellings : UserStep(a)
         \/ \E l \in Links : LinkStep(l)
  PROVE  UNCHANGED cockpit
<1>1. ASSUME NEW o \in Orders, OrderStep(o) PROVE UNCHANGED cockpit
  BY <1>1 DEF OrderStep, create_formation, create_service_order
<1>2. ASSUME NEW a \in Spellings, UserStep(a) PROVE UNCHANGED cockpit
  BY <1>2 DEF UserStep, auth_signup, auth_login, handle_oauth_login, get_user_orders
<1>3. ASSUME NEW l \in Links, LinkStep(l) PROVE UNCHANGED cockpit
  BY <1>3 DEF LinkStep, request_password_reset, confirm_password_reset, LinkExpires
<1> QED BY <1>1, <1>2, <1>3

\* The cockpit's invariant holds in every behaviour.
LEMMA CockpitCorrect == Spec => []CockpitInv
<1>1. CockpitInv /\ [Next]_vars => UsedForSession' /\ OneEach'
  <2> SUFFICES ASSUME CockpitInv, [Next]_vars PROVE UsedForSession' /\ OneEach'
    OBVIOUS
  <2>1. CASE UNCHANGED cockpit
    BY <2>1 DEF CockpitInv, UsedForSession, OneEach, cockpit
  <2>2. CASE Next
    BY <2>1, <2>2, ChallengesKeepCockpit, SessionsKeepCockpit, OthersLeaveCockpit DEF Next
  <2>3. CASE UNCHANGED vars BY <2>1, <2>3 DEF vars, cockpit
  <2> QED BY <2>2, <2>3
<1>2. CockpitInv /\ [Next]_vars /\ TypeOK' => CockpitInv' BY <1>1 DEF CockpitInv
<1> QED BY <1>2, InitCockpit, TypeCorrect, PTL DEF Spec

\* One code opens one session at most, in every behaviour.
THEOREM OneSessionPerCode == Spec => []OneSessionPerChallenge
<1>1. CockpitInv => OneSessionPerChallenge
  <2> SUFFICES ASSUME CockpitInv, NEW c \in Challenges
               PROVE  Cardinality(SessionsOf(c)) <= 1
    BY DEF OneSessionPerChallenge
  <2>1. CASE SessionsOf(c) = {} BY <2>1, FS_EmptySet
  <2>2. ASSUME NEW s \in SessionsOf(c) PROVE Cardinality(SessionsOf(c)) <= 1
    <3>1. SessionsOf(c) = {s} BY <2>2 DEF SessionsOf, CockpitInv, OneEach
    <3>2. Cardinality({s}) = 1 BY FS_Singleton
    <3> QED BY <3>1, <3>2
  <2> QED BY <2>1, <2>2
<1> QED BY <1>1, CockpitCorrect, PTL

\* A challenge whose guesses are spent has opened no session, in every behaviour.
THEOREM SpentCodeOpensNothing == Spec => []SpentChallengeOpensNothing
<1>1. CockpitInv => SpentChallengeOpensNothing
  BY AccountsAssumption
  DEF CockpitInv, TypeOK, UsedForSession, SpentChallengeOpensNothing, SessionsOf
<1> QED BY <1>1, CockpitCorrect, PTL

-----------------------------------------------------------------------------
\* An owner is written over a stand-in for nobody only, and never with one of
\* the two that would free an order again.
LEMMA StepKeepsOwner ==
  ASSUME TypeOK, [Next]_vars, NEW o \in Orders, owner[o] \in Spellings
  PROVE  owner'[o] = owner[o]
<1> USE AccountsAssumption DEF TypeOK
<1>1. ASSUME NEW p \in Orders, OrderStep(p) PROVE owner'[o] = owner[o]
  BY <1>1 DEF OrderStep, create_formation, create_service_order
<1>2. ASSUME NEW a \in Spellings, UserStep(a) PROVE owner'[o] = owner[o]
  BY <1>2 DEF UserStep, auth_signup, auth_login, handle_oauth_login, get_user_orders,
              link_orders_to_user_by_email
<1>3. ASSUME NEW l \in Links, LinkStep(l) PROVE owner'[o] = owner[o]
  BY <1>3 DEF LinkStep, request_password_reset, confirm_password_reset, LinkExpires
<1>4. ASSUME NEW c \in Challenges, ChallengeStep(c) PROVE owner'[o] = owner[o]
  BY <1>4 DEF ChallengeStep, start_admin_password_login, start_admin_account_login,
              send_login_code, CodeExpires, wrong_code, verify_cut_short,
              verify_admin_mfa_and_create_session, accounts
<1>5. ASSUME NEW s \in Sessions, SessionStep(s) PROVE owner'[o] = owner[o]
  BY <1>5 DEF SessionStep, create_admin_session, revoke_admin_session,
              SessionExpires, accounts
<1>6. CASE UNCHANGED vars BY <1>6 DEF vars
<1> QED BY <1>1, <1>2, <1>3, <1>4, <1>5, <1>6 DEF Next

\* An order in an account stays there, in every behaviour.
THEOREM OwnersAreFinal == Spec => OwnerIsFinal
<1>1. TypeOK /\ [Next]_vars =>
        [\A o \in Orders : owner[o] \in Spellings => owner'[o] = owner[o]]_vars
  BY StepKeepsOwner
<1> QED BY <1>1, TypeCorrect, PTL DEF Spec, OwnerIsFinal
=============================================================================
