---------------------------- MODULE RecordsProofs ----------------------------
(***************************************************************************)
(* Proofs about the handlers over rows of the database (Records), for any  *)
(* accounts, threads, projects and requests beside one another. Each       *)
(* component has its inductive invariant; the theorems at the end are      *)
(* about Records, each of whose behaviours is one of a component.          *)
(***************************************************************************)
EXTENDS Records, FiniteSetTheorems, SequenceTheorems, WellFoundedInduction, TLAPS

\* A set of integers with an upper bound has a greatest element, and that is
\* what Max picks.
LEMMA BoundedMax ==
  ASSUME NEW S \in SUBSET Int, S # {}, NEW n \in Int, \A x \in S : x =< n
  PROVE  Max(S) \in S /\ \A x \in S : x =< Max(S)
<1> DEFINE Gaps == {n - x : x \in S}
           Below == OpToRel(<, Nat)
<1>1. Gaps \subseteq Nat
  OBVIOUS
<1>2. Gaps # {}
  OBVIOUS
<1>3. IsWellFoundedOn(Below, Nat)
  BY NatLessThanWellFounded
<1>4. \A g, h \in Nat : h < g => <<h, g>> \in Below
  BY DEF OpToRel
<1> HIDE DEF Gaps, Below
<1>5. PICK g \in Gaps : \A h \in Gaps : ~ (<<h, g>> \in Below)
  BY <1>1, <1>2, <1>3, WFMin
<1>6. ASSUME NEW h \in Gaps
      PROVE  g =< h
  <2>1. g \in Nat /\ h \in Nat
    BY <1>1
  <2>2. ~ (h < g)
    BY <1>4, <1>5, <2>1
  <2> QED
    BY <2>1, <2>2
<1>7. PICK m \in S : g = n - m
  BY DEF Gaps
<1>8. \A x \in S : m >= x
  BY <1>6, <1>7 DEF Gaps
<1> QED
  BY <1>8 DEF Max

-----------------------------------------------------------------------------
(* Accounts *)

\* Dev mode skips the bootstrap of the first account.
AccountInv ==
  /\ AccountTypeOK
  /\ boot.at \in {"count", "create", "crown"} => boot.mode # "dev"
  /\ LocalIsOwner

\* What a manager is about to do.
Tasks ==
  [at : {"idle", "create", "update"}, name : Username,
   password : BOOLEAN, flag : {"keep", "disable", "enable"}]

\* A password that is set leaves the rest of the request to do.
LEMMA PasswordIsDone ==
  /\ NotManaging \in Tasks
  /\ \A task \in Tasks : [task EXCEPT !.password = FALSE] \in Tasks
  BY AccountConstants DEF NotManaging, Task, Tasks

\* A row that is made an owner is a row.
LEMMA CrownKeepsAccounts ==
  ASSUME NEW n \in Username, account \in [Username -> Account], Crown(n)
  PROVE  account' \in [Username -> Account]
<1>1. account[n] \in Account
  OBVIOUS
<1>2. [account[n] EXCEPT !.owner = TRUE] \in Account
  BY <1>1 DEF Account
<1> QED
  BY <1>2 DEF Crown

\* Boots and requests keep the table well-formed and the local account an owner
\* wherever the server acts as it.
LEMMA AccountInvStep == AccountInv /\ [AccountNext]_accountVars => AccountInv'
<1> SUFFICES ASSUME AccountInv, [AccountNext]_accountVars
             PROVE  AccountInv'
  OBVIOUS
<1> USE AccountConstants
    DEF AccountInv, AccountTypeOK, Account, LocalIsOwner, Task, NotManaging, Exists
<1>1. CASE Boots
  BY <1>1 DEF Boots
<1>2. CASE CountsUsers
  BY <1>2 DEF CountsUsers, BootGoes, AfterBootstrap
<1>3. CASE CreatesFirst
  BY <1>3 DEF CreatesFirst, BootGoes, Insert
<1>4. CASE CrownsFirst
  <2>1. /\ boot.at = "crown" /\ boot' = [boot EXCEPT !.at = AfterBootstrap]
        /\ account' = [account EXCEPT ![Configured].owner = TRUE]
        /\ UNCHANGED <<managing, setups, managed>>
    BY <1>4 DEF CrownsFirst, BootGoes, Crown
  <2>2. AfterBootstrap \in {"find_local", "up"} /\ (boot.mode # "bundled" => AfterBootstrap = "up")
    BY DEF AfterBootstrap
  <2>3. account' \in [Username -> Account]
    BY <2>1, CrownKeepsAccounts DEF Crown
  <2>4. boot' \in [mode : {"plain", "bundled", "dev"}, password : BOOLEAN,
                  at : {"down", "count", "create", "crown", "find_local", "create_local",
                        "crown_local", "up"}]
    BY <2>1, <2>2
  <2>5. /\ boot'.at \in {"find_local", "up"} /\ boot'.mode = boot.mode
        /\ boot.mode # "bundled" => boot'.at = "up"
    BY <2>1, <2>2
  <2>6. boot.mode # "dev" /\ boot.mode \in {"plain", "bundled", "dev"}
    BY <2>1
  <2>7. boot'.at = "up" => boot'.mode = "plain"
    BY <2>1, <2>5, <2>6 DEF AfterBootstrap
  <2> QED
    BY <2>1, <2>3, <2>4, <2>5, <2>7
<1>5. CASE FindsLocal
  BY <1>5 DEF FindsLocal, BootGoes
<1>6. CASE CreatesLocal
  BY <1>6 DEF CreatesLocal, BootGoes, Insert
<1>7. CASE CrownsLocal
  BY <1>7 DEF CrownsLocal, BootGoes, Crown
<1>8. CASE GoesDown
  BY <1>8 DEF GoesDown
<1>9. ASSUME NEW m \in Manager, NEW n \in Username, AsksToCreate(m, n)
      PROVE  AccountInv'
  BY <1>9 DEF AsksToCreate, Manages
<1>10. ASSUME NEW m \in Manager, NEW n \in Username, AsksToUpdate(m, n)
       PROVE  AccountInv'
  <2>1. PICK p \in BOOLEAN, f \in {"keep", "disable", "enable"} :
              Manages(m, Task("update", n, p, f))
    BY <1>10 DEF AsksToUpdate, Changes
  <2> QED
    BY <2>1 DEF Manages
<1>11. ASSUME NEW m \in Manager, Creates(m) \/ SetsPassword(m) \/ SetsDisabled(m)
       PROVE  AccountInv'
  <2>1. PICK n \in Username : n = managing[m].name
    OBVIOUS
  <2>2. UNCHANGED <<boot, setups, managed>>
    BY <1>11 DEF Creates, SetsPassword, SetsDisabled, Goes
  <2>3. managing' \in [Manager -> [at : {"idle", "create", "update"}, name : Username,
                                   password : BOOLEAN, flag : {"keep", "disable", "enable"}]]
    <3>1. CASE Creates(m) \/ SetsDisabled(m)
      <4>1. managing' = [managing EXCEPT ![m] = NotManaging]
        BY <3>1 DEF Creates, SetsDisabled, Goes
      <4> QED
        BY <4>1
    <3>2. CASE SetsPassword(m)
      <4>1. PICK task \in {NotManaging, [managing[m] EXCEPT !.password = FALSE]} :
              managing' = [managing EXCEPT ![m] = task]
        BY <3>2 DEF SetsPassword, Goes
      <4>2. task \in [at : {"idle", "create", "update"}, name : Username,
                      password : BOOLEAN, flag : {"keep", "disable", "enable"}]
        <5>1. managing \in [Manager -> Tasks]
          BY DEF Tasks
        <5>2. task \in Tasks
          BY <4>1, <5>1, PasswordIsDone
        <5> QED
          BY <5>2 DEF Tasks
      <4> QED
        BY <4>1, <4>2
    <3> QED
      BY <1>11, <3>1, <3>2
  <2>4. CASE Creates(m) /\ Exists(n)
    <3>1. account' = account
      BY <2>1, <2>4 DEF Creates
    <3> QED
      BY <2>2, <2>3, <3>1
  <2>5. CASE Creates(m) /\ ~ Exists(n)
    <3>1. account' = [account EXCEPT ![n] =
                                [hash |-> "real", owner |-> FALSE, disabled |-> FALSE]]
      BY <2>1, <2>5 DEF Creates, Insert
    <3> QED
      BY <2>2, <2>3, <2>5, <3>1
  <2>6. CASE SetsPassword(m)
    <3>1. account' = [account EXCEPT ![n].hash = "real"]
      BY <2>1, <2>6 DEF SetsPassword
    <3> QED
      BY <2>2, <2>3, <3>1
  <2>7. CASE SetsDisabled(m)
    <3>1. PICK d \in BOOLEAN : account' = [account EXCEPT ![n].disabled = d]
      BY <2>1, <2>7 DEF SetsDisabled
    <3> QED
      BY <2>2, <2>3, <3>1
  <2> QED
    BY <1>11, <2>4, <2>5, <2>6, <2>7
<1>12. CASE UNCHANGED accountVars
  BY <1>12 DEF accountVars
<1> QED
  BY <1>1, <1>2, <1>3, <1>4, <1>5, <1>6, <1>7, <1>8, <1>9, <1>10, <1>11, <1>12
  DEF AccountNext

\* There is no account before the first boot.
LEMMA AccountInvInit == AccountInit => AccountInv
  BY AccountConstants
  DEF AccountInit, AccountInv, AccountTypeOK, Account, NoAccount, LocalIsOwner, Task, NotManaging

-----------------------------------------------------------------------------

\* The bootstrap makes accounts that are not there yet while nobody manages
\* any, and who is managed is there and no owner.
ManagedArePlain ==
  /\ boot.at = "create" => \A n \in Username : ~ Exists(n)
  /\ boot.at = "create_local" => ~ Exists(Local)
  /\ boot.at = "crown" => Exists(Configured)
  /\ boot.at = "crown_local" => Exists(Local)
  /\ \A m \in Manager :
       managing[m].at # "idle" =>
         /\ boot.at = "up"
         /\ managing[m].at = "update" =>
              Exists(managing[m].name) /\ ~ account[managing[m].name].owner

\* Nobody manages accounts before the first boot.
LEMMA ManagedArePlainInit == AccountInit => ManagedArePlain
  BY DEF AccountInit, ManagedArePlain, NotManaging, Task

\* A step leaves the owners as they are, and those who are managed plain.
LEMMA OwnersStep ==
  ASSUME AccountInv, ManagedArePlain, [AccountNext]_accountVars
  PROVE  /\ ManagedArePlain'
         /\ \A n \in Username : Exists(n) =>
              /\ account'[n].hash # "none"
              /\ account[n].owner => account'[n] = account[n]
<1> USE AccountConstants DEF AccountInv, AccountTypeOK, Account, Task, NotManaging, Exists
<1> DEFINE Respects == \A n \in Username : Exists(n) =>
                         /\ account'[n].hash # "none"
                         /\ account[n].owner => account'[n] = account[n]
<1>1. CASE Boots
  BY <1>1 DEF Boots, ManagedArePlain
<1>2. CASE CountsUsers
  BY <1>2 DEF CountsUsers, BootGoes, AfterBootstrap, ManagedArePlain
<1>3. CASE CreatesFirst
  BY <1>3 DEF CreatesFirst, BootGoes, Insert, ManagedArePlain
<1>4. CASE CrownsFirst
  BY <1>4 DEF CrownsFirst, BootGoes, AfterBootstrap, Crown, ManagedArePlain
<1>5. CASE FindsLocal
  BY <1>5 DEF FindsLocal, BootGoes, ManagedArePlain
<1>6. CASE CreatesLocal
  BY <1>6 DEF CreatesLocal, BootGoes, Insert, ManagedArePlain
<1>7. CASE CrownsLocal
  BY <1>7 DEF CrownsLocal, BootGoes, Crown, ManagedArePlain
<1>8. CASE GoesDown
  BY <1>8 DEF GoesDown, ManagedArePlain
<1>9. ASSUME NEW m \in Manager, NEW n \in Username, AsksToCreate(m, n)
      PROVE  ManagedArePlain' /\ Respects
  BY <1>9 DEF AsksToCreate, Manages, ManagedArePlain
<1>10. ASSUME NEW m \in Manager, NEW n \in Username, AsksToUpdate(m, n)
       PROVE  ManagedArePlain' /\ Respects
  <2>1. PICK p \in BOOLEAN, f \in {"keep", "disable", "enable"} :
              Manages(m, Task("update", n, p, f))
    BY <1>10 DEF AsksToUpdate, Changes
  <2> QED
    BY <1>10, <2>1 DEF AsksToUpdate, Manages, ManagedArePlain
<1>11. ASSUME NEW m \in Manager, Creates(m) \/ SetsPassword(m) \/ SetsDisabled(m)
       PROVE  ManagedArePlain' /\ Respects
  <2>1. PICK n \in Username : n = managing[m].name
    OBVIOUS
  <2>2. /\ UNCHANGED boot
        /\ \A o \in Manager \ {m} : managing'[o] = managing[o]
        /\ managing[m].at # "idle"
        /\ managing[m].at = "update" => managing'[m].name = n \/ managing'[m].at = "idle"
        /\ managing[m].at = "create" => managing'[m].at = "idle"
    BY <1>11, <2>1 DEF Creates, SetsPassword, SetsDisabled, Goes
  <2>3. boot.at = "up"
    BY <2>2 DEF ManagedArePlain
  <2>4. CASE account' = account
    BY <2>1, <2>2, <2>3, <2>4 DEF ManagedArePlain
  <2>5. CASE /\ managing[m].at = "create" /\ ~ Exists(n)
             /\ account' = [account EXCEPT ![n] =
                                [hash |-> "real", owner |-> FALSE, disabled |-> FALSE]]
    BY <2>1, <2>2, <2>3, <2>5 DEF ManagedArePlain
  <2>6. CASE managing[m].at = "update" /\ account' = [account EXCEPT ![n].hash = "real"]
    BY <2>1, <2>2, <2>3, <2>6 DEF ManagedArePlain
  <2>7. CASE /\ managing[m].at = "update"
             /\ \E d \in BOOLEAN : account' = [account EXCEPT ![n].disabled = d]
    BY <2>1, <2>2, <2>3, <2>7 DEF ManagedArePlain
  <2> QED
    BY <1>11, <2>1, <2>4, <2>5, <2>6, <2>7 DEF Creates, SetsPassword, SetsDisabled, Insert
<1>12. CASE UNCHANGED accountVars
  BY <1>12 DEF accountVars, ManagedArePlain
<1> QED
  BY <1>1, <1>2, <1>3, <1>4, <1>5, <1>6, <1>7, <1>8, <1>9, <1>10, <1>11, <1>12
  DEF AccountNext

-----------------------------------------------------------------------------
(* Sign-in *)

\* Requests are numbered from one, and a verification that is under way goes by
\* a secret whose code was shown.
VisitInv ==
  /\ visit \in [Visit -> [op : Op \cup {"none", "revoke", "disable"}, pending : 0..MaxSecret,
                          flag : BOOLEAN]]
  /\ visits \in 0..MaxVisits
  /\ \A v \in Visit : visit[v].op # "none" => visits > 0
  /\ \A v \in Visit : visit[v].op = "verify" => visit[v].pending \in confirmed

\* A factor, the visits that may turn it on, and that a factor that is on was
\* confirmed.
SignInv == SignTypeOK /\ VisitInv /\ FactorIsConfirmed

\* However requests overlap, a factor is only turned on with a confirmed secret.
LEMMA SignInvStep == SignInv /\ [SignNext]_signVars => SignInv'
<1> SUFFICES ASSUME SignInv, [SignNext]_signVars
             PROVE  SignInv'
  OBVIOUS
<1> USE SignInConstants
<1>a. /\ user \in Row /\ visits \in 0..MaxVisits /\ fresh \in 0..MaxSecret
      /\ sessions \subseteq [id : 1..MaxVisits, alive : BOOLEAN]
      /\ confirmed \subseteq 1..MaxSecret /\ halves \subseteq Visit
      /\ FactorIsConfirmed /\ VisitInv
  BY DEF SignInv, SignTypeOK
<1>b. /\ user' \in Row /\ fresh' \in 0..MaxSecret
      /\ sessions' \subseteq [id : 1..MaxVisits, alive : BOOLEAN]
      /\ confirmed' \subseteq 1..MaxSecret /\ halves' \subseteq Visit
      /\ FactorIsConfirmed' /\ VisitInv'
      => SignInv'
  BY DEF SignInv, SignTypeOK, VisitInv
<1>c. ASSUME NEW v \in Visit, Leave(v), UNCHANGED <<visits, confirmed>>
      PROVE  VisitInv'
  <2>1. Away \in [op : Op \cup {"none", "revoke", "disable"}, pending : 0..MaxSecret,
                  flag : BOOLEAN] /\ Away.op = "none"
    BY DEF Away, Asked, Op
  <2>2. visit' = [visit EXCEPT ![v] = Away]
    BY <1>c DEF Leave
  <2> HIDE DEF Away
  <2> QED
    BY <1>a, <1>c, <2>1, <2>2 DEF VisitInv
<1>d. ASSUME NEW v \in Visit, NEW op \in Op, NEW f \in BOOLEAN, Arrive(v, op, f),
             confirmed \subseteq confirmed', op = "verify" => user.pending \in confirmed'
      PROVE  VisitInv'
  <2> DEFINE new == Asked(op, user.pending, f)
  <2>1. user.pending \in 0..MaxSecret
    BY <1>a DEF Row
  <2>2. /\ new \in [op : Op \cup {"none", "revoke", "disable"}, pending : 0..MaxSecret,
                    flag : BOOLEAN]
        /\ new.op = op /\ new.pending = user.pending
    BY <2>1 DEF Asked
  <2>3. visit' = [visit EXCEPT ![v] = new]
    BY <1>d DEF Arrive
  <2>4. visits' \in 1..MaxVisits
    BY <1>a, <1>d DEF Arrive
  <2> HIDE DEF new
  <2> QED
    BY <1>a, <1>d, <2>2, <2>3, <2>4 DEF VisitInv
<1>e. ASSUME NEW v \in Visit, NEW op \in Op \ {"verify"}, NEW f \in BOOLEAN, Arrive(v, op, f),
             UNCHANGED <<user, sessions, fresh, confirmed, halves>>
      PROVE  SignInv'
  <2>1. VisitInv'
    BY <1>d, <1>e
  <2>2. FactorIsConfirmed'
    BY <1>a, <1>e DEF FactorIsConfirmed
  <2> QED
    BY <1>a, <1>b, <1>e, <2>1, <2>2
<1>1. ASSUME NEW v \in Visit, LoginReads(v)
      PROVE  SignInv'
  BY <1>1, <1>e DEF LoginReads, Op
<1>2. ASSUME NEW v \in Visit, LoginEnds(v)
      PROVE  SignInv'
  <2>1. visits \in 1..MaxVisits
    BY <1>2, <1>a DEF LoginEnds, Is, VisitInv
  <2>2. [id |-> visits, alive |-> TRUE] \in [id : 1..MaxVisits, alive : BOOLEAN]
    BY <2>1
  <2>3. sessions' \subseteq [id : 1..MaxVisits, alive : BOOLEAN]
    BY Zenon, <1>2, <1>a, <2>2 DEF LoginEnds
  <2> QED
    BY <1>2, <1>a, <1>b, <1>c, <2>3 DEF LoginEnds, FactorIsConfirmed
<1>3. ASSUME NEW v \in Visit, SetupBegins(v)
      PROVE  SignInv'
  BY <1>3, <1>e DEF SetupBegins, Op
<1>4. ASSUME NEW v \in Visit, SetupStages(v)
      PROVE  SignInv'
  <2>1. fresh' \in 0..MaxSecret /\ user' = [user EXCEPT !.pending = fresh']
    BY <1>4, <1>a DEF SetupStages
  <2>2. user' \in Row /\ FactorIsConfirmed'
    BY <1>4, <1>a, <2>1 DEF SetupStages, Row, FactorIsConfirmed
  <2> QED
    BY <1>4, <1>a, <1>b, <1>c, <2>1, <2>2 DEF SetupStages
<1>5. ASSUME NEW v \in Visit, VerifyBegins(v)
      PROVE  SignInv'
  <2>1. confirmed' \subseteq 1..MaxSecret /\ FactorIsConfirmed'
    <3>1. user.pending \in 1..MaxSecret
      BY <1>5, <1>a DEF VerifyBegins, Row
    <3> QED
      BY <1>5, <1>a, <3>1 DEF VerifyBegins, FactorIsConfirmed
  <2>2. Arrive(v, "verify", FALSE) /\ confirmed' = confirmed \cup {user.pending}
    BY <1>5 DEF VerifyBegins
  <2>3. VisitInv'
    BY <1>d, <2>2 DEF Op
  <2> QED
    BY <1>5, <1>a, <1>b, <2>1, <2>3 DEF VerifyBegins
<1>6. ASSUME NEW v \in Visit, VerifyPromotes(v)
      PROVE  SignInv'
  <2>1. visit[v].pending \in 0..MaxSecret /\ visit[v].pending \in confirmed
    BY <1>6, <1>a DEF VerifyPromotes, Is, VisitInv
  <2>2. user' = [user EXCEPT !.secret = visit[v].pending, !.on = TRUE, !.pending = 0]
    BY <1>6 DEF VerifyPromotes
  <2>3. 0 \in 0..MaxSecret
    BY DEF SignInConstants
  <2>4. user' \in Row
    BY Zenon, <1>a, <2>1, <2>2, <2>3 DEF Row
  <2>5. user'.secret = visit[v].pending
    BY <1>a, <2>2 DEF Row
  <2>6. FactorIsConfirmed'
    BY <1>6, <2>1, <2>5 DEF VerifyPromotes, FactorIsConfirmed
  <2> QED
    BY <1>6, <1>a, <1>b, <1>c, <2>4, <2>6 DEF VerifyPromotes
<1>7. ASSUME NEW v \in Visit, DisableBegins(v)
      PROVE  SignInv'
  BY <1>7, <1>e DEF DisableBegins, Op
<1>8. ASSUME NEW v \in Visit, DisableClears(v)
      PROVE  SignInv'
  <2>1. user' = [user EXCEPT !.secret = 0, !.on = FALSE, !.pending = 0]
    BY <1>8 DEF DisableClears
  <2>2. 0 \in 0..MaxSecret
    BY DEF SignInConstants
  <2>3. user' \in Row
    BY Zenon, <1>a, <2>1, <2>2 DEF Row
  <2>4. ~ user'.on
    BY Zenon, <1>a, <2>1 DEF Row
  <2>5. FactorIsConfirmed'
    BY <2>4 DEF FactorIsConfirmed
  <2> QED
    BY <1>8, <1>a, <1>b, <1>c, <2>3, <2>5 DEF DisableClears
<1>9. ASSUME NEW v \in Visit, ChangeBegins(v)
      PROVE  SignInv'
  BY <1>9, <1>e DEF ChangeBegins, Op
<1>10. ASSUME NEW v \in Visit, ResetBegins(v)
      PROVE  SignInv'
  <2>1. PICK flag \in BOOLEAN : Arrive(v, "reset", flag)
    BY <1>10 DEF ResetBegins
  <2> QED
    BY <1>10, <1>e, <2>1 DEF ResetBegins, Op
<1>11. ASSUME NEW v \in Visit, PasswordIsSet(v)
      PROVE  SignInv'
  <2>1. PICK p \in 1..MaxSecret : user' = [user EXCEPT !.password = p]
    BY <1>11 DEF PasswordIsSet
  <2>2. user' \in Row /\ FactorIsConfirmed'
    BY <1>11, <1>a, <2>1 DEF PasswordIsSet, Row, FactorIsConfirmed
  <2>3. /\ visit' = [visit EXCEPT ![v].op = "revoke"]
        /\ visit[v].op # "none"
        /\ UNCHANGED <<sessions, visits, fresh, confirmed, halves>>
    BY <1>11 DEF PasswordIsSet
  <2>4. VisitInv'
    BY <1>a, <2>3 DEF VisitInv
  <2> QED
    BY <1>a, <1>b, <2>2, <2>3, <2>4
<1>12. ASSUME NEW v \in Visit, SessionsAreRevoked(v)
      PROVE  SignInv'
  <2>1. PICK op \in {"disable", "none"}, f \in BOOLEAN :
          visit' = [visit EXCEPT ![v] = Asked(op, 0, f)]
    BY <1>12 DEF SessionsAreRevoked, Away
  <2>2. /\ Asked(op, 0, f) \in [op : Op \cup {"none", "revoke", "disable"},
                               pending : 0..MaxSecret, flag : BOOLEAN]
        /\ Asked(op, 0, f).op # "verify"
    BY DEF Asked, SignInConstants
  <2>3. /\ sessions' = {}
        /\ UNCHANGED <<user, visits, fresh, confirmed, halves>>
        /\ visit[v].op # "none"
    BY <1>12 DEF SessionsAreRevoked, Is
  <2>4. VisitInv'
    BY <1>a, <2>1, <2>2, <2>3 DEF VisitInv
  <2> QED
    BY <1>a, <1>b, <2>3, <2>4 DEF FactorIsConfirmed
<1>13. ASSUME NEW v \in Visit, UserIsDisabled(v)
      PROVE  SignInv'
  <2>1. user' \in Row /\ FactorIsConfirmed'
    BY <1>13, <1>a DEF UserIsDisabled, Row, FactorIsConfirmed
  <2> QED
    BY <1>13, <1>a, <1>b, <1>c, <2>1 DEF UserIsDisabled
<1>14. ASSUME NEW v \in Visit, StatementFails(v)
      PROVE  SignInv'
  <2>1. halves' \subseteq Visit
    BY <1>14, <1>a DEF StatementFails
  <2> QED
    BY <1>14, <1>a, <1>b, <1>c, <2>1 DEF StatementFails, Leave, FactorIsConfirmed
<1>15. ASSUME sessions' \subseteq [id : 1..MaxVisits, alive : BOOLEAN],
              UNCHANGED <<user, visit, visits, fresh, confirmed, halves>>
       PROVE  SignInv'
  BY <1>15, <1>a, <1>b DEF FactorIsConfirmed, VisitInv
<1>16. ASSUME NEW s \in sessions, Logout(s) \/ SessionRevoked(s) \/ Expires(s)
       PROVE  SignInv'
  BY <1>16, <1>a, <1>15 DEF Logout, SessionRevoked, Expires
<1>17. CASE Purges
  BY <1>17, <1>a, <1>15 DEF Purges
<1>18. CASE UNCHANGED signVars
  BY <1>18, <1>a, <1>15 DEF signVars
<1> QED
  BY <1>1, <1>2, <1>3, <1>4, <1>5, <1>6, <1>7, <1>8, <1>9, <1>10, <1>11, <1>12, <1>13, <1>14,
     <1>16, <1>17, <1>18 DEF SignNext

\* No factor is on before the first visit.
LEMMA SignInvInit == SignInit => SignInv
  BY SignInConstants
  DEF SignInit, SignInv, SignTypeOK, VisitInv, FactorIsConfirmed, Row, Away, Asked

-----------------------------------------------------------------------------
(* The provider an owner has chosen *)

\* Requests in flight, by the row they were given.
ChoiceInv ==
  /\ chosen \in Choice
  /\ patcher \in [Patcher -> [wish : Wish, row : Choice, fresh : BOOLEAN]]

\* A command that a request names for a provider runs for that provider, by
\* whatever row the request goes.
LEMMA PatchNamesCommand ==
  ASSUME NEW row \in Choice, NEW old \in Choice, NEW wish \in Wish, wish.command # Keep
  PROVE  CommandFor(Patched(row, wish, old), Effective(wish, old)) = wish.command
<1> DEFINE p == Effective(wish, old)
           c == wish.command
           patch == Patch(wish, old)
<1>1. c \in Command /\ c \notin {Keep, Removed}
  BY ChoiceConstants DEF Wish, Keep, Removed
<1>2. p \in Provider
  BY DEF Effective, Wish, Choice
<1>3. NewCommand(wish, old) = c
  BY DEF NewCommand
<1>4. patch[p] = c
  <2>1. ~ (wish.id # Keep /\ p # old.id /\ p = old.id)
    OBVIOUS
  <2> HIDE DEF p
  <2> QED
    BY <1>1, <1>2, <1>3, <2>1 DEF Patch, p
<1>5. Patched(row, wish, old).commands[p] = c
  <2> HIDE DEF p, patch
  <2> QED
    BY <1>1, <1>2, <1>4 DEF Patched, patch
<1> HIDE DEF p, c
<1> QED
  BY <1>1, <1>5 DEF CommandFor, p, c

\* What a request writes is a choice again.
LEMMA PatchIsChoice ==
  ASSUME NEW row \in Choice, NEW old \in Choice, NEW wish \in Wish
  PROVE  Patched(row, wish, old) \in Choice
<1> USE DEF AnyCommand, Default
<1>1. \A p \in Provider : CommandFor(old, p) \in AnyCommand
  BY DEF CommandFor, Choice
<1>2. Effective(wish, old) \in Provider
  BY DEF Effective, Wish, Choice
<1>3. NewCommand(wish, old) \in AnyCommand \cup {Keep}
  BY <1>1, <1>2 DEF NewCommand, Wish
<1>4. \A p \in Provider : Patch(wish, old)[p] \in AnyCommand \cup {Keep, Removed}
  <2> SUFFICES ASSUME NEW p \in Provider
               PROVE  Patch(wish, old)[p] \in AnyCommand \cup {Keep, Removed}
    OBVIOUS
  <2>1. wish.commands[p] \in Command \cup {Keep, Removed} /\ old.command \in AnyCommand
    BY DEF Wish, Choice
  <2>2. Patch(wish, old)[p] \in {old.command, NewCommand(wish, old), wish.commands[p]}
    BY DEF Patch
  <2> QED
    BY <1>3, <2>1, <2>2
<1>5. [p \in Provider |-> CASE Patch(wish, old)[p] = Keep -> row.commands[p]
                            [] Patch(wish, old)[p] = Removed -> Keep
                            [] OTHER -> Patch(wish, old)[p]]
      \in [Provider -> AnyCommand \cup {Keep}]
  BY <1>4 DEF Choice
<1>6. (IF wish.id = Keep THEN row.id ELSE wish.id) \in Provider
  BY DEF Wish, Choice
<1>7. (IF NewCommand(wish, old) = Keep THEN row.command ELSE NewCommand(wish, old)) \in AnyCommand
  BY <1>3 DEF Choice
<1> QED
  BY <1>5, <1>6, <1>7 DEF Patched, Choice

\* The provider of a fresh database is a choice.
LEMMA ChoiceInvInit == ChoiceInit => ChoiceInv
<1> SUFFICES ASSUME ChoiceInit PROVE ChoiceInv
  OBVIOUS
<1>1. chosen \in Choice
  BY ChoiceConstants DEF ChoiceInit, Choice, AnyCommand, Default
<1>2. NoWish \in Wish
  BY DEF NoWish, Wish
<1>3. patcher = [r \in Patcher |-> Asking(NoWish, chosen, FALSE)]
  BY DEF ChoiceInit
<1> QED
  BY <1>1, <1>2, <1>3 DEF ChoiceInv, Asking

\* A request that writes a command writes it for the provider it is about.
LEMMA ChoiceInvStep ==
  ASSUME ChoiceInv, [ChoiceNext]_choiceVars
  PROVE  /\ ChoiceInv'
         /\ \A r \in Patcher :
              chosen' # chosen /\ patcher[r].wish.command # Keep /\ patcher'[r].wish = NoWish =>
                CommandFor(chosen', Effective(patcher[r].wish, patcher[r].row))
                  = patcher[r].wish.command
<1> DEFINE Requests == [wish : Wish, row : Choice, fresh : BOOLEAN]
<1>a. chosen \in Choice /\ patcher \in [Patcher -> Requests]
  BY DEF ChoiceInv
<1>b. chosen' \in Choice /\ patcher' \in [Patcher -> Requests] => ChoiceInv'
  BY DEF ChoiceInv
<1>c. NoWish \in Wish /\ NoWish.command = Keep
  BY DEF NoWish, Wish
<1>1. ASSUME NEW r \in Patcher, Asks(r)
      PROVE  ChoiceInv' /\ chosen' = chosen
  <2>1. PICK wish \in Wish : patcher' = [patcher EXCEPT ![r] = Asking(wish, chosen, TRUE)]
    BY <1>1 DEF Asks
  <2>2. Asking(wish, chosen, TRUE) \in Requests
    BY <1>a DEF Asking
  <2>3. chosen' = chosen
    BY <1>1 DEF Asks
  <2> HIDE DEF Requests
  <2>4. patcher' \in [Patcher -> Requests]
    BY <1>a, <2>1, <2>2
  <2> QED
    BY <1>a, <1>b, <2>3, <2>4
<1>2. ASSUME NEW r \in Patcher, Writes(r)
      PROVE  /\ ChoiceInv'
             /\ \A o \in Patcher :
                  patcher[o].wish.command # Keep /\ patcher'[o].wish = NoWish =>
                    CommandFor(chosen', Effective(patcher[o].wish, patcher[o].row))
                      = patcher[o].wish.command
  <2>1. PICK w \in Requests : w = patcher[r]
    BY <1>a
  <2>2. chosen' = Patched(chosen, w.wish, w.row) /\ w.wish \in Wish /\ w.row \in Choice
    BY <1>2, <2>1 DEF Writes
  <2>3. chosen' \in Choice
    BY <1>a, <2>2, PatchIsChoice
  <2>4. patcher' = [q \in Patcher |-> IF q = r THEN Asking(NoWish, chosen', FALSE)
                                      ELSE [patcher[q] EXCEPT !.fresh = FALSE]]
    BY <1>2 DEF Writes
  <2>5. Asking(NoWish, chosen', FALSE) \in Requests
    BY <1>c, <2>3 DEF Asking
  <2>6. \A q \in Patcher : /\ [patcher[q] EXCEPT !.fresh = FALSE] \in Requests
                           /\ [patcher[q] EXCEPT !.fresh = FALSE].wish = patcher[q].wish
    BY <1>a
  <2>7. patcher' \in [Patcher -> Requests]
    BY <2>4, <2>5, <2>6
  <2>8. \A q \in Patcher \ {r} : patcher'[q].wish = patcher[q].wish
    BY <2>4, <2>6
  <2>9. w.wish.command # Keep => CommandFor(chosen', Effective(w.wish, w.row)) = w.wish.command
    BY <1>a, <2>2, PatchNamesCommand
  <2> HIDE DEF Requests
  <2> QED
    BY <1>b, <1>c, <2>1, <2>3, <2>7, <2>8, <2>9
<1>3. CASE UNCHANGED choiceVars
  BY <1>3, <1>a, <1>b DEF choiceVars
<1> QED
  BY <1>1, <1>2, <1>3 DEF ChoiceNext

-----------------------------------------------------------------------------
(* Probes of a provider *)

\* Until the first probe is over there is one lock, which everyone waits for.
FirstProbeIsJoined ==
  ~ cached /\ drops = 0 =>
    \A c \in Prober :
      /\ prober[c].at # "clears"
      /\ prober[c].at \in {"waits", "looks", "probes"} => inflight # 0 /\ prober[c].lock = inflight

\* What a cached probe may have replaced: nothing before the first is over.
ProbeInv == ProbeTypeOK /\ FirstProbeIsJoined

\* Nobody probes at first.
LEMMA ProbeInvInit == ProbeInit => ProbeInv
<1>1. ASSUME ProbeInit
      PROVE  /\ cached = FALSE /\ inflight = 0 /\ locks = 0 /\ drops = 0
             /\ prober = [c \in Prober |-> Gone]
  BY <1>1 DEF ProbeInit
<1> QED
  BY <1>1, ProbeConstants
  DEF ProbeInv, ProbeTypeOK, FirstProbeIsJoined, Gone, Holds

\* Callers join the probe that is under way.
LEMMA ProbeInvStep ==
  ASSUME ProbeInv, [ProbeNext]_probeVars
  PROVE  /\ ProbeInv'
         /\ \A c \in Prober : ~ At(c, "probes") /\ prober'[c].at = "probes" =>
              ~ cached /\ (drops > 0 \/ \A d \in Prober : ~ At(d, "probes"))
<1> USE ProbeConstants DEF ProbeInv, Gone, Holds, At
<1> DEFINE Shared == \A c \in Prober : ~ At(c, "probes") /\ prober'[c].at = "probes" =>
                       ~ cached /\ (drops > 0 \/ \A d \in Prober : ~ At(d, "probes"))
<1>1. ASSUME NEW c \in Prober, Misses(c)
      PROVE  ProbeInv' /\ Shared
  BY <1>1 DEF Misses, Moves, ProbeTypeOK, FirstProbeIsJoined
<1>2. ASSUME NEW c \in Prober, TakesEntry(c)
      PROVE  ProbeInv' /\ Shared
  <2>1. /\ locks' \in 0..MaxLocks /\ inflight' \in 1..locks' /\ locks' >= locks
        /\ inflight # 0 => inflight' = inflight
    BY <1>2 DEF TakesEntry, ProbeTypeOK
  <2>2. /\ prober' = [prober EXCEPT ![c] = [at |-> "waits", lock |-> inflight']]
        /\ UNCHANGED <<cached, drops>> /\ prober[c].at = "asks"
    BY <1>2 DEF TakesEntry
  <2>3. inflight' \in 0..MaxLocks
    BY <2>1 DEF ProbeTypeOK
  <2>4. ProbeTypeOK'
    BY <2>1, <2>2, <2>3 DEF ProbeTypeOK
  <2>5. FirstProbeIsJoined'
    BY <2>1, <2>2 DEF ProbeTypeOK, FirstProbeIsJoined
  <2>6. Shared
    BY <2>2 DEF ProbeTypeOK
  <2> QED
    BY <2>4, <2>5, <2>6
<1>3. ASSUME NEW c \in Prober, Locks(c)
      PROVE  ProbeInv' /\ Shared
  BY <1>3 DEF Locks, Moves, ProbeTypeOK, FirstProbeIsJoined
<1>4. ASSUME NEW c \in Prober, LooksAgain(c)
      PROVE  ProbeInv' /\ Shared
  <2>1. CASE cached
    BY <1>4, <2>1 DEF LooksAgain, Moves, ProbeTypeOK, FirstProbeIsJoined
  <2>2. CASE ~ cached
    BY <1>4, <2>2 DEF LooksAgain, Moves, ProbeTypeOK, FirstProbeIsJoined
  <2> QED
    BY <2>1, <2>2
<1>5. ASSUME NEW c \in Prober, ProbeEnds(c)
      PROVE  ProbeInv' /\ Shared
  BY <1>5 DEF ProbeEnds, Moves, ProbeTypeOK, FirstProbeIsJoined
<1>6. ASSUME NEW c \in Prober, Clears(c)
      PROVE  ProbeInv' /\ Shared
  BY <1>6 DEF Clears, Moves, ProbeTypeOK, FirstProbeIsJoined
<1>7. ASSUME NEW c \in Prober, IsDropped(c)
      PROVE  ProbeInv' /\ Shared
  BY <1>7 DEF IsDropped, ProbeTypeOK, FirstProbeIsJoined
<1>8. CASE EntryGoes
  <2>1. drops' \in 1..MaxDrops /\ cached' = FALSE /\ UNCHANGED <<inflight, locks, prober>>
    BY <1>8 DEF EntryGoes, ProbeTypeOK
  <2>2. drops' # 0 /\ drops' \in 0..MaxDrops
    BY <2>1
  <2>3. FirstProbeIsJoined'
    BY <2>2 DEF FirstProbeIsJoined
  <2>4. ProbeTypeOK'
    BY <2>1, <2>2 DEF ProbeTypeOK
  <2>5. Shared
    BY <2>1 DEF ProbeTypeOK
  <2> QED
    BY <2>3, <2>4, <2>5
<1>9. CASE UNCHANGED probeVars
  BY <1>9 DEF probeVars, ProbeTypeOK, FirstProbeIsJoined
<1> QED
  BY <1>1, <1>2, <1>3, <1>4, <1>5, <1>6, <1>7, <1>8, <1>9 DEF ProbeNext

-----------------------------------------------------------------------------
(* The row of a thread *)

\* A session that a run has made is of the provider the run was given.
FreshFits == \A s \in Send : sends[s].fresh => sends[s].session.of = sends[s].provider

\* A reset that is under way is one of those that are counted.
ResetterIsFine ==
  /\ resetter \in {"idle", "writes"} /\ resets \in 0..MaxResets
  /\ resetter = "writes" => resets < MaxResets

\* The row of a thread, the runs that are about to write it, and the reset.
ThreadRowInv == ThreadRowTypeOK /\ FreshFits /\ SessionFitsProvider /\ ResetterIsFine

\* The rows of ThreadRowTypeOK, one by one.
ThreadRows == [provider : Agent, session : Session, named : BOOLEAN,
               title : {"new", "prompt", "agent", "user"}, group : BOOLEAN]
SendRows == [at : {"idle", "accepted", "begun", "titled", "working", "over"},
             provider : Agent \cup {"none"}, session : Session,
             fresh : BOOLEAN, stopped : BOOLEAN]
EditRows == [at : {"idle", "title", "group", "settings", "refused"},
             wish : EditWish, wrote : BOOLEAN]

\* What a step may make of the row of the thread.
RowIsFine == thread \in ThreadRows /\ SessionFitsProvider /\ (thread.title # "new" => thread.named)

\* A new thread has no session.
LEMMA ThreadRowInvInit == ThreadRowInit => ThreadRowInv
<1> SUFFICES ASSUME ThreadRowInit PROVE ThreadRowInv
  OBVIOUS
<1> USE ThreadRowConstants
<1>1. NoSession \in Session
  BY DEF NoSession, Session
<1>2. PICK a \in Agent, own \in BOOLEAN :
        thread = [provider |-> a, session |-> NoSession, named |-> own,
                  title |-> IF own THEN "user" ELSE "new", group |-> FALSE]
  BY DEF ThreadRowInit
<1>3. RowIsFine
  <2>1. CASE own
    BY <1>1, <1>2, <2>1 DEF RowIsFine, ThreadRows, SessionFitsProvider
  <2>2. CASE ~ own
    BY <1>1, <1>2, <2>2 DEF RowIsFine, ThreadRows, SessionFitsProvider
  <2> QED
    BY <2>1, <2>2
<1>4. NoSend \in SendRows /\ ~ NoSend.fresh
  BY <1>1 DEF NoSend, SendRows
<1>5. NoEdit(NoEditWish) \in EditRows
  BY DEF NoEdit, NoEditWish, EditRows, EditWish
<1>6. sends \in [Send -> SendRows] /\ FreshFits
  BY <1>4 DEF ThreadRowInit, FreshFits
<1>7. edit \in [Editor -> EditRows]
  BY <1>5 DEF ThreadRowInit
<1>8. resetter = "idle" /\ resets = 0 /\ edits = 0
  BY DEF ThreadRowInit
<1> QED
  BY <1>3, <1>6, <1>7, <1>8
  DEF ThreadRowInv, ResetterIsFine, ThreadRowTypeOK, RowIsFine, ThreadRows, SendRows, EditRows

\* Whatever sends, updates and resets do to each other, the session that is
\* stored is one of the provider of the thread.
LEMMA ThreadRowInvStep == ThreadRowInv /\ [ThreadRowNext]_threadRowVars => ThreadRowInv'
<1> SUFFICES ASSUME ThreadRowInv, [ThreadRowNext]_threadRowVars
             PROVE  ThreadRowInv'
  OBVIOUS
<1> USE ThreadRowConstants
<1>a. /\ RowIsFine /\ FreshFits
      /\ sends \in [Send -> SendRows] /\ edit \in [Editor -> EditRows]
      /\ ResetterIsFine /\ edits \in 0..MaxEdits
  BY DEF ThreadRowInv, ThreadRowTypeOK, RowIsFine, ThreadRows, SendRows, EditRows, ResetterIsFine
<1>b. /\ RowIsFine' /\ FreshFits'
      /\ sends' \in [Send -> SendRows] /\ edit' \in [Editor -> EditRows]
      /\ ResetterIsFine' /\ edits' \in 0..MaxEdits
      => ThreadRowInv'
  BY DEF ThreadRowInv, ThreadRowTypeOK, RowIsFine, ThreadRows, SendRows, EditRows, ResetterIsFine
<1>c. NoSession \in Session
  BY DEF NoSession, Session
<1>d. ASSUME NEW s \in Send, NEW r \in SendRows, sends' = [sends EXCEPT ![s] = r],
             r.fresh => r.session.of = r.provider
      PROVE  sends' \in [Send -> SendRows] /\ FreshFits'
  BY <1>a, <1>d DEF FreshFits
<1>e. ASSUME NEW s \in Send,
             NEW to \in {"idle", "accepted", "begun", "titled", "working", "over"},
             sends' = [sends EXCEPT ![s].at = to]
      PROVE  sends' \in [Send -> SendRows] /\ FreshFits'
  <2>1. PICK r \in SendRows : r = sends[s]
    BY <1>a
  <2> DEFINE new == [r EXCEPT !.at = to]
  <2>2. sends' = [sends EXCEPT ![s] = new]
    BY <1>e, <2>1
  <2>3. /\ new \in SendRows /\ new.fresh = r.fresh
        /\ new.session = r.session /\ new.provider = r.provider
    BY DEF SendRows
  <2>4. new.fresh => new.session.of = new.provider
    BY <1>a, <2>1, <2>3 DEF FreshFits
  <2> HIDE DEF new
  <2> QED
    BY <1>d, <2>2, <2>3, <2>4
<1>f. ASSUME NEW e \in Editor, NEW r \in EditRows, edit' = [edit EXCEPT ![e] = r]
      PROVE  edit' \in [Editor -> EditRows]
  BY <1>a, <1>f
<1>g. ASSUME UNCHANGED thread
      PROVE  RowIsFine'
  BY <1>a, <1>g DEF RowIsFine, SessionFitsProvider
<1>h. ASSUME NEW s \in Send, sends[s].fresh, NEW titled \in BOOLEAN, StoreSession(s, titled)
      PROVE  RowIsFine'
  <2>1. CASE thread.provider # sends[s].provider
    BY <1>g, <1>h, <2>1 DEF StoreSession
  <2>2. CASE thread.provider = sends[s].provider
    <3>1. sends[s].session \in Session /\ sends[s].session.of = thread.provider
      BY <1>a, <1>h, <2>2 DEF SendRows, FreshFits
    <3>2. CASE titled /\ ~ thread.named
      <4>1. thread' = [thread EXCEPT !.session = sends[s].session,
                                        !.title = "agent", !.named = TRUE]
        BY <1>h, <1>a, <2>2, <3>2 DEF StoreSession, RowIsFine, ThreadRows
      <4> QED
        BY <1>a, <3>1, <4>1 DEF RowIsFine, ThreadRows, SessionFitsProvider
    <3>3. CASE thread.named
      <4>1. thread' = [thread EXCEPT !.session = sends[s].session, !.named = TRUE]
        BY <1>h, <1>a, <2>2, <3>3 DEF StoreSession, RowIsFine, ThreadRows
      <4> QED
        BY <1>a, <3>1, <4>1 DEF RowIsFine, ThreadRows, SessionFitsProvider
    <3>4. CASE ~ titled /\ ~ thread.named
      <4>1. thread' = [thread EXCEPT !.session = sends[s].session]
        BY <1>h, <1>a, <2>2, <3>4 DEF StoreSession, RowIsFine, ThreadRows
      <4> QED
        BY <1>a, <3>1, <4>1 DEF RowIsFine, ThreadRows, SessionFitsProvider
    <3> QED
      BY <3>2, <3>3, <3>4
  <2> QED
    BY <2>1, <2>2
<1>1. ASSUME NEW s \in Send, SendReads(s)
      PROVE  ThreadRowInv'
  <2> DEFINE r == [at |-> "accepted", provider |-> thread.provider, session |-> thread.session,
                   fresh |-> FALSE, stopped |-> FALSE]
  <2>1. r \in SendRows /\ ~ r.fresh
    BY <1>a DEF RowIsFine, ThreadRows, SendRows
  <2>2. sends' = [sends EXCEPT ![s] = r] /\ UNCHANGED <<thread, edit, resetter, resets, edits>>
    BY <1>1 DEF SendReads
  <2> HIDE DEF r
  <2> QED
    BY <1>a, <1>b, <1>d, <1>g, <2>1, <2>2 DEF ResetterIsFine
<1>2. ASSUME NEW s \in Send, SendStarts(s)
      PROVE  ThreadRowInv'
  <2>1. PICK to \in {"over", "begun"} : SendGoes(s, to)
    BY <1>2 DEF SendStarts
  <2>2. UNCHANGED <<thread, edit, resetter, resets, edits>> /\ sends' = [sends EXCEPT ![s].at = to]
    BY <1>2, <2>1 DEF SendStarts, SendGoes
  <2> QED
    BY <1>a, <1>b, <1>e, <1>g, <2>2 DEF ResetterIsFine
<1>3. ASSUME NEW s \in Send, PromptNames(s)
      PROVE  ThreadRowInv'
  <2>1. UNCHANGED <<edit, resetter, resets, edits>> /\ sends' = [sends EXCEPT ![s].at = "titled"]
    BY <1>3 DEF PromptNames, SendGoes
  <2>2. CASE thread.named
    BY <1>3, <1>a, <1>b, <1>e, <1>g, <2>1, <2>2 DEF PromptNames, ResetterIsFine
  <2>3. CASE ~ thread.named
    <3>1. thread' = [thread EXCEPT !.title = "prompt", !.named = TRUE]
      BY <1>3, <2>3 DEF PromptNames
    <3>2. RowIsFine'
      BY <1>a, <3>1 DEF RowIsFine, ThreadRows, SessionFitsProvider
    <3> QED
      BY <1>a, <1>b, <1>e, <2>1, <3>2 DEF ResetterIsFine
  <2> QED
    BY <2>2, <2>3
<1>4. ASSUME NEW s \in Send, AgentOpens(s)
      PROVE  ThreadRowInv'
  <2>1. UNCHANGED <<thread, edit, resetter, resets, edits>>
    BY <1>4 DEF AgentOpens
  <2>2. CASE sends' = [sends EXCEPT ![s].at = "working"]
    BY <1>a, <1>b, <1>e, <1>g, <2>1, <2>2 DEF ResetterIsFine
  <2>3. CASE sends' = [sends EXCEPT ![s].at = "working", ![s].fresh = TRUE,
                         ![s].session = [of |-> sends[s].provider, born |-> resets]]
    <3>1. PICK o \in SendRows : o = sends[s]
      BY <1>a
    <3> DEFINE new == [o EXCEPT !.at = "working", !.fresh = TRUE,
                         !.session = [of |-> o.provider, born |-> resets]]
    <3>2. sends' = [sends EXCEPT ![s] = new]
      BY <1>a, <2>3, <3>1
    <3>3. [of |-> o.provider, born |-> resets] \in Session
      BY <1>a DEF SendRows, Session, ResetterIsFine
    <3>4. new \in SendRows /\ new.session.of = new.provider
      BY <3>3 DEF SendRows
    <3> HIDE DEF new
    <3>5. sends' \in [Send -> SendRows] /\ FreshFits'
      BY <1>d, <3>2, <3>4
    <3> QED
      BY <1>a, <1>b, <1>g, <2>1, <3>5 DEF ResetterIsFine
  <2> QED
    BY <1>4, <2>2, <2>3 DEF AgentOpens
<1>5. ASSUME NEW s \in Send, SessionIsTold(s)
      PROVE  ThreadRowInv'
  <2>1. /\ UNCHANGED <<sends, edit, resetter, resets, edits>>
        /\ sends[s].fresh /\ StoreSession(s, FALSE)
    BY <1>5 DEF SessionIsTold
  <2>2. RowIsFine'
    BY <1>h, <2>1
  <2> QED
    BY <1>a, <1>b, <2>1, <2>2 DEF FreshFits, ResetterIsFine
<1>6. ASSUME NEW s \in Send, RunIsStopped(s)
      PROVE  ThreadRowInv'
  <2>1. PICK o \in SendRows : o = sends[s]
    BY <1>a
  <2> DEFINE new == [o EXCEPT !.stopped = TRUE]
  <2>2. sends' = [sends EXCEPT ![s] = new] /\ UNCHANGED <<thread, edit, resetter, resets, edits>>
    BY <1>6, <2>1 DEF RunIsStopped
  <2>3. /\ new \in SendRows /\ new.fresh = o.fresh
        /\ new.session = o.session /\ new.provider = o.provider
    BY DEF SendRows
  <2>4. o.fresh => o.session.of = o.provider
    BY <1>a, <2>1 DEF FreshFits
  <2> HIDE DEF new
  <2>5. sends' \in [Send -> SendRows] /\ FreshFits'
    BY <1>d, <2>2, <2>3, <2>4
  <2> QED
    BY <1>a, <1>b, <1>g, <2>2, <2>5 DEF ResetterIsFine
<1>7. ASSUME NEW s \in Send, RunEnds(s)
      PROVE  ThreadRowInv'
  <2>1. UNCHANGED <<edit, resetter, resets, edits>> /\ sends' = [sends EXCEPT ![s].at = "over"]
    BY <1>7 DEF RunEnds, SendGoes
  <2>2. RowIsFine'
    BY <1>7, <1>g, <1>h DEF RunEnds
  <2> QED
    BY <1>a, <1>b, <1>e, <2>1, <2>2 DEF ResetterIsFine
<1>8. ASSUME NEW e \in Editor, EditBegins(e)
      PROVE  ThreadRowInv'
  <2>1. PICK w \in EditWish :
          edit' = [edit EXCEPT ![e] =
            [at |-> "title", wrote |-> FALSE,
             wish |-> [w EXCEPT !.provider = IF @ = thread.provider THEN "keep" ELSE @]]]
    BY <1>8 DEF EditBegins
  <2>2. PICK v \in EditWish :
          v = [w EXCEPT !.provider = IF @ = thread.provider THEN "keep" ELSE @]
    <3>1. CASE w.provider = thread.provider
      <4>1. [w EXCEPT !.provider = "keep"] \in EditWish
        BY DEF EditWish
      <4> QED
        BY <3>1, <4>1
    <3>2. CASE w.provider # thread.provider
      <4>1. [w EXCEPT !.provider = IF @ = thread.provider THEN "keep" ELSE @] = w
        BY <3>2 DEF EditWish
      <4> QED
        BY <4>1
    <3> QED
      BY <3>1, <3>2
  <2>3. [at |-> "title", wrote |-> FALSE, wish |-> v] \in EditRows
    BY DEF EditRows
  <2>4. edit' \in [Editor -> EditRows]
    BY <1>f, <2>1, <2>2, <2>3
  <2>5. UNCHANGED <<thread, sends, resetter, resets>>
    BY <1>8 DEF EditBegins
  <2>6. edits' \in 0..MaxEdits
    BY <1>8, <1>a DEF EditBegins
  <2> QED
    BY <1>a, <1>b, <1>g, <2>4, <2>5, <2>6 DEF FreshFits, ResetterIsFine
<1>i. ASSUME NEW e \in Editor, NEW to \in {"idle", "group", "settings", "refused"},
             NEW wrote \in BOOLEAN, EditGoes(e, to, wrote), RowIsFine'
      PROVE  ThreadRowInv'
  <2>1. UNCHANGED <<sends, resetter, resets, edits>>
    BY <1>i DEF EditGoes
  <2>2. edit' \in [Editor -> EditRows]
    <3>1. CASE to = "idle"
      <4>1. NoEdit(NoEditWish) \in EditRows
        BY DEF NoEdit, NoEditWish, EditRows, EditWish
      <4> QED
        BY <1>i, <1>f, <3>1, <4>1 DEF EditGoes
    <3>2. CASE to # "idle"
      <4>1. PICK r \in EditRows : r = edit[e]
        BY <1>a
      <4>2. PICK w \in BOOLEAN : edit' = [edit EXCEPT ![e] = [r EXCEPT !.at = to, !.wrote = w]]
        BY <1>i, <3>2, <4>1 DEF EditGoes, EditRows
      <4>3. [r EXCEPT !.at = to, !.wrote = w] \in EditRows
        BY DEF EditRows
      <4> QED
        BY <1>f, <4>2, <4>3
    <3> QED
      BY <3>1, <3>2
  <2> QED
    BY <1>a, <1>b, <1>i, <2>1, <2>2 DEF FreshFits, ResetterIsFine
<1>9. ASSUME NEW e \in Editor, EditsTitle(e)
      PROVE  ThreadRowInv'
  <2>1. PICK w \in BOOLEAN : w = edit[e].wish.title
    BY <1>a DEF EditRows, EditWish
  <2>2. RowIsFine'
    <3>1. CASE w
      <4>1. thread' = [thread EXCEPT !.title = "user", !.named = TRUE]
        BY <1>9, <2>1, <3>1 DEF EditsTitle
      <4> QED
        BY <1>a, <4>1 DEF RowIsFine, ThreadRows, SessionFitsProvider
    <3>2. CASE ~ w
      BY <1>9, <1>g, <2>1, <3>2 DEF EditsTitle
    <3> QED
      BY <3>1, <3>2
  <2>3. EditGoes(e, "group", w)
    BY <1>9, <2>1 DEF EditsTitle
  <2> QED
    BY <1>i, <2>2, <2>3
<1>10. ASSUME NEW e \in Editor, EditsGroup(e)
       PROVE  ThreadRowInv'
  <2>1. PICK g \in BOOLEAN : thread' = [thread EXCEPT !.group = g]
    BY <1>10, <1>a DEF EditsGroup, RowIsFine, ThreadRows
  <2>2. RowIsFine'
    BY <1>a, <2>1 DEF RowIsFine, ThreadRows, SessionFitsProvider
  <2>3. PICK w \in BOOLEAN : EditGoes(e, "refused", FALSE) \/ EditGoes(e, "settings", w)
    BY <1>10 DEF EditsGroup
  <2> QED
    BY <1>i, <2>2, <2>3
<1>11. ASSUME NEW e \in Editor, EditsSettings(e)
       PROVE  ThreadRowInv'
  <2>1. PICK a \in Agent \cup {"keep"} : a = edit[e].wish.provider
    BY <1>a DEF EditRows, EditWish
  <2>2. EditGoes(e, "idle", FALSE) \/ EditGoes(e, "refused", FALSE)
    BY <1>11 DEF EditsSettings
  <2>3. CASE UNCHANGED thread
    BY <1>g, <1>i, <2>2, <2>3
  <2>4. CASE a # "keep" /\ thread.session = NoSession /\ thread' = [thread EXCEPT !.provider = a]
    <3>1. RowIsFine'
      BY <1>a, <2>4 DEF RowIsFine, ThreadRows, SessionFitsProvider
    <3> QED
      BY <1>i, <2>2, <3>1
  <2> QED
    BY <1>11, <2>1, <2>3, <2>4 DEF EditsSettings
<1>12. ASSUME NEW e \in Editor, EditIsRefused(e)
       PROVE  ThreadRowInv'
  BY <1>12, <1>g, <1>i DEF EditIsRefused
<1>13. CASE ResetLooks
  BY <1>13, <1>a, <1>b, <1>g DEF ResetLooks, FreshFits, ResetterIsFine
<1>14. CASE ResetWrites
  <2>1. thread' = [thread EXCEPT !.session = NoSession]
    BY <1>14 DEF ResetWrites
  <2>2. RowIsFine'
    BY <1>a, <1>c, <2>1 DEF RowIsFine, ThreadRows, SessionFitsProvider
  <2>3. ResetterIsFine'
    BY <1>14, <1>a DEF ResetWrites, ResetterIsFine
  <2> QED
    BY <1>14, <1>a, <1>b, <2>2, <2>3 DEF ResetWrites, FreshFits, ResetterIsFine
<1>15. CASE UNCHANGED threadRowVars
  BY <1>15, <1>a, <1>b, <1>g DEF threadRowVars, FreshFits, ResetterIsFine
<1> QED
  BY <1>1, <1>2, <1>3, <1>4, <1>5, <1>6, <1>7, <1>8, <1>9, <1>10, <1>11, <1>12, <1>13, <1>14,
     <1>15 DEF ThreadRowNext

\* Neither a prompt nor an agent renames a thread that has its title.
LEMMA TitleStep ==
  ASSUME ThreadRowInv, [ThreadRowNext]_threadRowVars, thread.named
  PROVE  thread'.title \in {thread.title, "user"}
<1>1. thread \in ThreadRows
  BY DEF ThreadRowInv, ThreadRowTypeOK, ThreadRows
<1>2. CASE UNCHANGED thread
  BY <1>2
<1>3. ASSUME NEW s \in Send, PromptNames(s) PROVE UNCHANGED thread
  BY <1>3 DEF PromptNames
<1>4. ASSUME NEW s \in Send, NEW titled \in BOOLEAN, StoreSession(s, titled)
      PROVE  thread'.title = thread.title
  BY <1>1, <1>4 DEF StoreSession, ThreadRows
<1>5. ASSUME NEW s \in Send, SessionIsTold(s) \/ RunEnds(s)
      PROVE  thread'.title = thread.title
  BY <1>4, <1>5 DEF SessionIsTold, RunEnds
<1>6. ASSUME NEW e \in Editor, EditsTitle(e) \/ EditsGroup(e) \/ EditsSettings(e)
      PROVE  thread'.title \in {thread.title, "user"}
  BY <1>1, <1>6 DEF EditsTitle, EditsGroup, EditsSettings, ThreadRows
<1>7. CASE ResetWrites
  BY <1>1, <1>7 DEF ResetWrites, ThreadRows
<1> QED
  BY <1>2, <1>3, <1>5, <1>6, <1>7
  DEF ThreadRowNext, threadRowVars, SendReads, SendStarts, AgentOpens, RunIsStopped, EditBegins,
      EditIsRefused, ResetLooks

-----------------------------------------------------------------------------
(* Projects *)

\* Ids are given out in order, and with each the places in the sidebar grow by
\* one at most.
PlacesAreDense == \A i \in Live : i =< lastId /\ project[i].pos < lastId

\* Who has read its place has one behind those of the projects there were.
PlacesAreBehind ==
  \A c \in Creator : creator[c].at = "insert" =>
    /\ creator[c].pos \in 0..lastId
    /\ \A i \in creator[c].older : i =< lastId /\ project[i].pos < creator[c].pos

\* A folder that is about to be made has a name.
FoldersAreNamed == \A c \in Creator : creator[c].at = "folder" => creator[c].path \in Name

\* The projects, their places, and what a creation remembers of them.
ProjectInv == ProjectTypeOK /\ PlacesAreDense /\ PlacesAreBehind /\ FoldersAreNamed

\* There are no projects at first.
LEMMA ProjectInvInit == ProjectInit => ProjectInv
<1> SUFFICES ASSUME ProjectInit PROVE ProjectInv
  OBVIOUS
<1> USE ProjectConstants
<1>1. /\ project = [i \in ProjectId |-> NoProject] /\ lastId = 0 /\ folder = {}
      /\ creator = [c \in Creator |-> NoCreator]
      /\ changes = [k \in {"rename", "reorder", "delete"} |-> 0]
  BY DEF ProjectInit
<1>2. Live = {}
  BY <1>1 DEF Live
<1>3. -1 \in -1..2 * MaxProjects
  OBVIOUS
<1>4. NoProject \in [name : Name \cup {"none"}, path : Name \cup {"none"},
                     pos : -1..2 * MaxProjects]
  BY <1>3 DEF NoProject
<1>5. NoCreator \in [at : {"idle", "folder", "recheck", "position", "insert", "refused"},
                     name : Name \cup {"none"}, path : Name \cup {"none"},
                     fresh : BOOLEAN, made : BOOLEAN, pos : -1..2 * MaxProjects,
                     older : SUBSET ProjectId]
      /\ NoCreator.at = "idle"
  BY <1>3 DEF NoCreator
<1>6. PlacesAreBehind /\ FoldersAreNamed
  BY <1>1, <1>5 DEF PlacesAreBehind, FoldersAreNamed
<1>7. ProjectTypeOK
  BY <1>1, <1>2, <1>4, <1>5 DEF ProjectTypeOK
<1> QED
  BY <1>2, <1>6, <1>7 DEF ProjectInv, PlacesAreDense

\* However creations, renames, new orders and deletions overlap, a project that
\* is inserted comes after those that were there when its place was read.
LEMMA ProjectInvStep ==
  ASSUME ProjectInv, [ProjectNext]_projectVars
  PROVE  /\ ProjectInv'
         /\ \A c \in Creator : creator[c].at = "insert" /\ lastId' = lastId + 1
                               /\ creator'[c] = NoCreator =>
              \A i \in creator[c].older \cap Live : project[i].pos < project'[lastId'].pos
<1> USE ProjectConstants
<1> DEFINE Spots == -1..2 * MaxProjects
           ProjectRows == [name : Name \cup {"none"}, path : Name \cup {"none"}, pos : Spots]
           Requests == [at : {"idle", "folder", "recheck", "position", "insert", "refused"},
                        name : Name \cup {"none"}, path : Name \cup {"none"},
                        fresh : BOOLEAN, made : BOOLEAN, pos : Spots, older : SUBSET ProjectId]
           Counters == [{"rename", "reorder", "delete"} -> 0..MaxRenames]
           Distinct == \A i, j \in Live : i # j => project[i].name # project[j].name
                                                   /\ project[i].path # project[j].path
           ComesLast == \A c \in Creator : creator[c].at = "insert" /\ lastId' = lastId + 1
                                           /\ creator'[c] = NoCreator =>
                          \A i \in creator[c].older \cap Live :
                            project[i].pos < project'[lastId'].pos
<1>a. /\ project \in [ProjectId -> ProjectRows] /\ lastId \in 0..MaxProjects
      /\ folder \subseteq Name
      /\ creator \in [Creator -> Requests] /\ changes \in Counters /\ Distinct
      /\ PlacesAreDense /\ PlacesAreBehind /\ FoldersAreNamed
  BY DEF ProjectInv, ProjectTypeOK
<1>b. /\ project' \in [ProjectId -> ProjectRows] /\ lastId' \in 0..MaxProjects
      /\ folder' \subseteq Name
      /\ creator' \in [Creator -> Requests] /\ changes' \in Counters /\ Distinct'
      /\ PlacesAreDense' /\ PlacesAreBehind' /\ FoldersAreNamed'
      => ProjectInv'
  BY DEF ProjectInv, ProjectTypeOK
<1>c. 0..MaxProjects \subseteq Spots /\ Spots \subseteq Int /\ -1 \in Spots
  OBVIOUS
<1>d. NoProject \in ProjectRows /\ NoProject.pos = -1
  BY <1>c DEF NoProject
<1>e. NoCreator \in Requests /\ NoCreator.at = "idle"
  BY <1>c DEF NoCreator
<1>f. \A i \in ProjectId : project[i].pos \in Spots
  BY <1>a
<1>g. Live \subseteq ProjectId /\ ProjectId \subseteq Int
  BY DEF Live, ProjectId
<1>h. \A r \in Requests : r.pos \in Spots /\ r.older \subseteq ProjectId
  OBVIOUS
<1> HIDE DEF Spots, ProjectRows, Requests, Counters
\* The projects stay, and one request goes on.
<1>i. ASSUME UNCHANGED <<project, lastId>>
      PROVE  Distinct' /\ PlacesAreDense' /\ ComesLast
  <2>1. lastId' # lastId + 1
    BY <1>a, <1>i
  <2> QED
    BY <1>a, <1>i, <2>1 DEF Live, PlacesAreDense
<1>j. ASSUME NEW c \in Creator, NEW r \in Requests, CreatorGoes(c, r),
             UNCHANGED <<project, lastId>>,
             r.at = "insert" =>
               /\ r.pos \in 0..lastId
               /\ \A i \in r.older : i =< lastId /\ project[i].pos < r.pos,
             r.at = "folder" => r.path \in Name
      PROVE  /\ creator' \in [Creator -> Requests] /\ PlacesAreBehind' /\ FoldersAreNamed'
             /\ UNCHANGED changes
  <2>1. creator' = [creator EXCEPT ![c] = r] /\ UNCHANGED changes
    BY <1>j DEF CreatorGoes
  <2>2. creator' \in [Creator -> Requests]
    BY <1>a, <2>1
  <2>3. \A d \in Creator : creator'[d] = r \/ creator'[d] = creator[d]
    BY <1>a, <2>1
  <2>4. PlacesAreBehind'
    BY <1>a, <1>j, <2>3 DEF PlacesAreBehind
  <2>5. FoldersAreNamed'
    BY <1>a, <1>j, <2>3 DEF FoldersAreNamed
  <2> QED
    BY <2>1, <2>2, <2>4, <2>5
<1>k. ASSUME NEW c \in Creator, NEW r \in Requests, CreatorGoes(c, r),
             UNCHANGED <<project, lastId>>,
             r.at = "insert" =>
               /\ r.pos \in 0..lastId
               /\ \A i \in r.older : i =< lastId /\ project[i].pos < r.pos,
             r.at = "folder" => r.path \in Name, folder' \subseteq Name
      PROVE  ProjectInv' /\ ComesLast
  <2>1. /\ creator' \in [Creator -> Requests] /\ PlacesAreBehind' /\ FoldersAreNamed'
        /\ UNCHANGED changes
    BY <1>j, <1>k
  <2> QED
    BY <1>a, <1>b, <1>i, <1>k, <2>1
<1>1. ASSUME NEW c \in Creator, CreatesNew(c) \/ Registers(c)
      PROVE  ProjectInv' /\ ComesLast
  <2>1. NoCreator \in Requests
    BY <1>e
  <2>2. PICK q \in Requests : CreatorGoes(c, q) /\ q.at # "insert" /\ q.path \in Name
    <3>1. CASE CreatesNew(c)
      <4>1. PICK n \in Name :
                CreatorGoes(c, [NoCreator EXCEPT !.name = n, !.path = n, !.fresh = TRUE,
                                 !.at = IF Taken(n, n) THEN "refused" ELSE "folder"])
        BY <3>1 DEF CreatesNew
      <4>2. PICK at \in {"refused", "folder"} : at = IF Taken(n, n) THEN "refused" ELSE "folder"
        OBVIOUS
      <4> DEFINE q == [NoCreator EXCEPT !.name = n, !.path = n, !.fresh = TRUE, !.at = at]
      <4>3. q \in Requests /\ q.at = at /\ q.path = n
        BY <2>1 DEF Requests
      <4> QED
        BY <4>1, <4>2, <4>3
    <3>2. CASE Registers(c)
      <4>1. PICK n \in Name, p \in Name :
              CreatorGoes(c, [NoCreator EXCEPT !.name = n, !.path = p, !.at = "folder"])
        BY <3>2 DEF Registers
      <4> DEFINE q == [NoCreator EXCEPT !.name = n, !.path = p, !.at = "folder"]
      <4>2. q \in Requests /\ q.at = "folder" /\ q.path = p
        BY <2>1 DEF Requests
      <4> QED
        BY <4>1, <4>2
    <3> QED
      BY <1>1, <3>1, <3>2
  <2>3. UNCHANGED <<project, lastId, folder, changes>>
    BY <1>1 DEF CreatesNew, Registers, CreatorGoes
  <2> QED
    BY <1>a, <1>k, <2>2, <2>3
<1>2. ASSUME NEW c \in Creator, MakesFolder(c)
      PROVE  ProjectInv' /\ ComesLast
  <2>1. PICK r \in Requests : r = creator[c]
    BY <1>a
  <2>2. PICK f \in BOOLEAN : CreatorGoes(c, [r EXCEPT !.at = "recheck", !.made = f])
    BY <1>2, <2>1 DEF MakesFolder, Requests
  <2>3. /\ [r EXCEPT !.at = "recheck", !.made = f] \in Requests
        /\ [r EXCEPT !.at = "recheck", !.made = f].at = "recheck"
    BY DEF Requests
  <2>4. UNCHANGED <<project, lastId>>
    BY <1>2 DEF MakesFolder
  <2>5. folder' \subseteq Name
    BY <1>2, <1>a DEF MakesFolder, FoldersAreNamed
  <2> QED
    BY <1>k, <2>2, <2>3, <2>4, <2>5
<1>3. ASSUME NEW c \in Creator, Rechecks(c)
      PROVE  ProjectInv' /\ ComesLast
  <2>1. PICK r \in Requests : r = creator[c]
    BY <1>a
  <2>2. PICK at \in {"refused", "position"} : CreatorGoes(c, [r EXCEPT !.at = at])
    BY <1>3, <2>1 DEF Rechecks
  <2>3. [r EXCEPT !.at = at] \in Requests /\ [r EXCEPT !.at = at].at = at
    BY DEF Requests
  <2>4. UNCHANGED <<project, lastId, folder>>
    BY <1>3 DEF Rechecks
  <2> QED
    BY <1>a, <1>k, <2>2, <2>3, <2>4
<1>4. ASSUME NEW c \in Creator, ReadsPosition(c)
      PROVE  ProjectInv' /\ ComesLast
  <2>1. PICK r \in Requests : r = creator[c]
    BY <1>a
  <2>2. NextPosition \in 0..lastId /\ \A i \in Live : project[i].pos < NextPosition
    <3> DEFINE All == {project[i].pos : i \in Live} \cup {-1}
    <3>1. \A i \in Live : /\ project[i].pos \in Int /\ project[i].pos >= -1
                       /\ project[i].pos =< lastId - 1
      <4>1. \A i \in Live : project[i].pos \in Int /\ project[i].pos >= -1
        BY <1>f, <1>g DEF Spots
      <4> QED
        BY <1>a, <4>1 DEF PlacesAreDense
    <3>2. All \in SUBSET Int /\ All # {} /\ \A x \in All : x =< lastId - 1 /\ x >= -1
      BY <1>a, <3>1
    <3>3. lastId - 1 \in Int /\ lastId \in Nat
      BY <1>a
    <3>4. \A i \in Live : project[i].pos \in All
      OBVIOUS
    <3>5. NextPosition = Max(All) + 1
      BY DEF NextPosition
    <3> HIDE DEF All
    <3>6. Max(All) \in All /\ \A x \in All : x =< Max(All)
      BY <3>2, <3>3, BoundedMax
    <3>7. Max(All) \in Int /\ Max(All) >= -1 /\ Max(All) =< lastId - 1
      BY <3>2, <3>6
    <3>8. \A i \in Live : project[i].pos =< Max(All)
      BY <3>4, <3>6
    <3> QED
      BY <3>1, <3>3, <3>5, <3>7, <3>8
  <2>3. NextPosition \in Spots /\ Live \in SUBSET ProjectId
    BY <1>a, <1>c, <1>g, <2>2
  <2> DEFINE q == [r EXCEPT !.at = "insert", !.pos = NextPosition, !.older = Live]
  <2>4. q \in Requests /\ q.at = "insert" /\ q.pos = NextPosition /\ q.older = Live
    BY <2>3 DEF Requests
  <2>5. CreatorGoes(c, q) /\ UNCHANGED <<project, lastId, folder>>
    BY <1>4, <2>1 DEF ReadsPosition
  <2> HIDE DEF q
  <2>6. \A i \in q.older : i =< lastId /\ project[i].pos < q.pos
    BY <1>a, <2>2, <2>4 DEF PlacesAreDense
  <2> QED
    BY <1>a, <1>k, <2>2, <2>4, <2>5, <2>6
<1>5. ASSUME NEW c \in Creator, InsertsProject(c)
      PROVE  ProjectInv' /\ ComesLast
  <2>1. PICK r \in Requests : r = creator[c]
    BY <1>a
  <2>2. UNCHANGED folder /\ r.at = "insert"
    BY <1>5, <2>1 DEF InsertsProject
  <2>3. CASE Taken(r.name, r.path) \/ lastId = MaxProjects
    <3>1. CreatorGoes(c, [r EXCEPT !.at = "refused"]) /\ UNCHANGED <<project, lastId>>
      BY <1>5, <2>1, <2>3 DEF InsertsProject
    <3>2. [r EXCEPT !.at = "refused"] \in Requests /\ [r EXCEPT !.at = "refused"].at = "refused"
      BY DEF Requests
    <3> QED
      BY <1>a, <1>k, <2>2, <3>1, <3>2
  <2>4. CASE ~ Taken(r.name, r.path) /\ lastId # MaxProjects
    <3> DEFINE row == [name |-> r.name, path |-> r.path, pos |-> r.pos]
               id == lastId + 1
    <3>1. /\ CreatorGoes(c, NoCreator) /\ lastId' = id
          /\ project' = [project EXCEPT ![id] = row]
      BY <1>5, <2>1, <2>4 DEF InsertsProject
    <3>2. /\ row \in ProjectRows /\ row.name = r.name /\ row.path = r.path /\ row.pos = r.pos
      BY DEF ProjectRows, Requests
    <3>3. id \in ProjectId /\ id \in Int /\ id \in 0..MaxProjects /\ id > lastId /\ id = lastId + 1
      BY <1>a, <2>4 DEF ProjectId
    <3>4. /\ r.pos \in 0..lastId
          /\ \A i \in r.older : i =< lastId /\ project[i].pos < r.pos
      BY <1>a, <2>1, <2>2 DEF PlacesAreBehind
    <3> HIDE DEF row, id
    <3>5. project' \in [ProjectId -> ProjectRows]
      BY <1>a, <3>1, <3>2
    <3>6. project'[id] = row /\ \A i \in ProjectId \ {id} : project'[i] = project[i]
      BY <1>a, <3>1, <3>3
    <3>7. Live' \subseteq Live \cup {id} /\ id \notin Live
      <4>1. id \notin Live
        BY <1>a, <3>3 DEF PlacesAreDense
      <4> QED
        BY <3>6, <4>1 DEF Live
    <3>8. Distinct'
      <4>1. \A i \in Live : project[i].name # r.name /\ project[i].path # r.path
        BY <2>4 DEF Taken
      <4> QED
        BY <1>a, <1>g, <3>2, <3>6, <3>7, <4>1
    <3>9. PlacesAreDense'
      <4>1. id =< lastId' /\ project'[id].pos < lastId'
        BY <1>a, <3>1, <3>2, <3>3, <3>4, <3>6
      <4>2. ASSUME NEW i \in Live
            PROVE  i =< lastId' /\ project'[i].pos < lastId'
        <5>1. i \in Int /\ project[i].pos \in Int /\ i =< lastId /\ project[i].pos < lastId
          BY <1>a, <1>c, <1>f, <1>g DEF PlacesAreDense
        <5>2. project'[i] = project[i]
          BY <1>g, <3>6, <3>7
        <5>3. lastId \in Int /\ lastId' = lastId + 1
          BY <1>a, <3>1, <3>3
        <5> QED
          BY <5>1, <5>2, <5>3
      <4> QED
        BY <3>7, <4>1, <4>2 DEF PlacesAreDense
    <3>10. /\ creator' \in [Creator -> Requests] /\ UNCHANGED changes
           /\ \A d \in Creator : creator'[d] = IF d = c THEN NoCreator ELSE creator[d]
      BY <1>a, <1>e, <3>1 DEF CreatorGoes
    <3>11. PlacesAreBehind'
      <4> SUFFICES ASSUME NEW d \in Creator, creator'[d].at = "insert"
                   PROVE  /\ creator'[d].pos \in 0..lastId'
                          /\ \A i \in creator'[d].older :
                               i =< lastId' /\ project'[i].pos < creator'[d].pos
        BY DEF PlacesAreBehind
      <4>1. creator'[d] = creator[d]
        BY <1>e, <3>10
      <4>2. /\ creator[d].pos \in 0..lastId
            /\ \A i \in creator[d].older : i =< lastId /\ project[i].pos < creator[d].pos
        BY <1>a, <4>1 DEF PlacesAreBehind
      <4>3. creator[d].older \subseteq ProjectId
        BY <1>a, <1>h
      <4>4. 0..lastId \subseteq 0..lastId'
        BY <1>a, <3>1, <3>3
      <4>5. ASSUME NEW i \in creator[d].older
            PROVE  i =< lastId' /\ project'[i].pos < creator[d].pos
        <5>1. i \in Int /\ i =< lastId
          BY <1>g, <4>2, <4>3
        <5>2. i # id /\ i =< lastId'
          BY <1>a, <3>1, <3>3, <5>1
        <5> QED
          BY <3>6, <4>2, <4>3, <5>2
      <4> QED
        BY <4>1, <4>2, <4>4, <4>5
    <3>12. ComesLast
      <4>1. \A d \in Creator : creator[d].at = "insert" /\ creator'[d] = NoCreator => d = c
        BY <1>e, <3>10
      <4> QED
        BY <2>1, <3>1, <3>2, <3>4, <3>6, <4>1
    <3>13. lastId' \in 0..MaxProjects
      BY <3>1, <3>3
    <3>14. FoldersAreNamed'
      BY <1>a, <1>e, <3>10 DEF FoldersAreNamed
    <3> QED
      BY <1>a, <1>b, <2>2, <3>5, <3>8, <3>9, <3>10, <3>11, <3>12, <3>13, <3>14
  <2> QED
    BY <2>3, <2>4
<1>6. ASSUME NEW c \in Creator, CreatorLeaves(c)
      PROVE  ProjectInv' /\ ComesLast
  BY <1>6, <1>a, <1>e, <1>k DEF CreatorLeaves
\* ProjectRows are changed or go, and those who are about to insert stay behind.
<1>l. ASSUME project' \in [ProjectId -> ProjectRows], UNCHANGED <<lastId, folder, creator>>,
             NEW k \in {"rename", "reorder", "delete"}, Counts(k), Live' \subseteq Live, Distinct',
             \A i \in ProjectId : project'[i].pos = project[i].pos \/ project'[i].pos = -1
      PROVE  ProjectInv' /\ ComesLast
  <2>1. changes' \in Counters
    <3>1. changes[k] + 1 \in 0..MaxRenames /\ changes' = [changes EXCEPT ![k] = changes[k] + 1]
      BY <1>a, <1>l DEF Counts, Counters
    <3> QED
      BY <1>a, <3>1 DEF Counters
  <2>2. \A i \in ProjectId : /\ project'[i].pos \in Int /\ project[i].pos \in Int
                             /\ project'[i].pos =< project[i].pos
    BY <1>c, <1>f, <1>l DEF Spots
  <2>3. PlacesAreDense'
    <3> SUFFICES ASSUME NEW i \in Live
                 PROVE  i =< lastId' /\ project'[i].pos < lastId'
      BY <1>l DEF PlacesAreDense
    <3>1. i =< lastId /\ project[i].pos < lastId /\ i \in ProjectId
      BY <1>a, <1>g DEF PlacesAreDense
    <3> QED
      BY <1>a, <1>l, <2>2, <3>1
  <2>4. PlacesAreBehind'
    <3> SUFFICES ASSUME NEW d \in Creator, creator[d].at = "insert", NEW i \in creator[d].older
                 PROVE  project'[i].pos < creator[d].pos
      BY <1>a, <1>l DEF PlacesAreBehind
    <3>1. i \in ProjectId /\ creator[d].pos \in Int /\ project[i].pos < creator[d].pos
      BY <1>a, <1>c, <1>h DEF PlacesAreBehind
    <3> QED
      BY <2>2, <3>1
  <2>5. ComesLast
    BY <1>a, <1>l
  <2> QED
    BY <1>a, <1>b, <1>l, <2>1, <2>3, <2>4, <2>5 DEF FoldersAreNamed
<1>7. ASSUME NEW i \in ProjectId, Renames(i)
      PROVE  ProjectInv' /\ ComesLast
  <2>1. PICK n \in Name \ {project[j].name : j \in Live} :
          project' = [project EXCEPT ![i].name = n]
    BY <1>7 DEF Renames
  <2>2. Counts("rename") /\ UNCHANGED <<lastId, folder, creator>> /\ i \in Live
    BY <1>7 DEF Renames
  <2>3. project' \in [ProjectId -> ProjectRows]
    BY <1>a, <2>1 DEF ProjectRows
  <2>4. /\ \A j \in ProjectId \ {i} : project'[j] = project[j]
        /\ project'[i].name = n /\ project'[i].path = project[i].path
        /\ project'[i].pos = project[i].pos
    BY <1>a, <2>1 DEF ProjectRows
  <2>5. Live' \subseteq Live
    BY <2>2, <2>4 DEF Live
  <2>6. Distinct'
    BY <1>a, <1>g, <2>1, <2>2, <2>4, <2>5
  <2>7. \A j \in ProjectId : project'[j].pos = project[j].pos
    BY <2>4
  <2> QED
    BY <1>l, <2>2, <2>3, <2>5, <2>6, <2>7
<1>8. ASSUME NEW i \in ProjectId, Deletes(i)
      PROVE  ProjectInv' /\ ComesLast
  <2>1. project' = [project EXCEPT ![i] = NoProject]
    BY <1>8 DEF Deletes
  <2>2. Counts("delete") /\ UNCHANGED <<lastId, folder, creator>>
    BY <1>8 DEF Deletes
  <2>3. project' \in [ProjectId -> ProjectRows]
    BY <1>a, <1>d, <2>1
  <2>4. project'[i] = NoProject /\ \A j \in ProjectId \ {i} : project'[j] = project[j]
    BY <1>a, <2>1
  <2>5. Live' \subseteq Live /\ i \notin Live'
    BY <2>4 DEF Live
  <2>6. Distinct'
    BY <1>a, <1>g, <2>4, <2>5
  <2>7. \A j \in ProjectId : project'[j].pos = project[j].pos \/ project'[j].pos = -1
    BY <1>d, <2>4
  <2> QED
    BY <1>l, <2>2, <2>3, <2>5, <2>6, <2>7
<1>9. CASE Reorders
  <2>1. PICK order \in [Live -> 0..(Cardinality(Live) - 1)] :
          project' = [i \in ProjectId |-> IF i \in Live THEN [project[i] EXCEPT !.pos = order[i]]
                                          ELSE project[i]]
    BY <1>9 DEF Reorders
  <2>2. /\ creator' = [c \in Creator |-> [creator[c] EXCEPT !.older = {}]]
        /\ UNCHANGED <<lastId, folder>> /\ Counts("reorder")
    BY <1>9 DEF Reorders
  <2>3. Cardinality(Live) \in Nat /\ Cardinality(Live) =< lastId
    <3>1. Live \in SUBSET (1..lastId)
      <4>1. \A i \in Live : i \in Int /\ i >= 1 /\ i =< lastId
        BY <1>a, <1>g DEF PlacesAreDense, ProjectId
      <4> QED
        BY <1>a, <4>1
    <3>2. IsFiniteSet(1..lastId) /\ Cardinality(1..lastId) = lastId
      BY <1>a, FS_Interval
    <3>3. IsFiniteSet(Live) /\ Cardinality(Live) =< Cardinality(1..lastId)
      BY <3>1, <3>2, FS_Subset
    <3> QED
      BY <3>2, <3>3, FS_CardinalityType
  <2>4. \A i \in Live : order[i] \in 0..MaxProjects /\ order[i] < lastId /\ order[i] \in Spots
    BY <1>a, <1>c, <2>3
  <2>5. \A i \in ProjectId : /\ project'[i].name = project[i].name
                             /\ project'[i].path = project[i].path
                             /\ project'[i].pos = IF i \in Live THEN order[i] ELSE project[i].pos
    BY <1>a, <2>1 DEF ProjectRows
  <2>6. project' \in [ProjectId -> ProjectRows]
    BY <1>a, <2>1, <2>4 DEF ProjectRows
  <2>7. Live' \subseteq Live
    BY <2>1 DEF Live
  <2>8. Distinct'
    BY <1>a, <1>g, <2>5, <2>7
  <2>9. PlacesAreDense'
    BY <1>a, <1>g, <2>2, <2>4, <2>5, <2>7 DEF PlacesAreDense
  <2>10. \A r \in Requests : LET q == [r EXCEPT !.older = {}] IN
          /\ q \in Requests /\ q.at = r.at /\ q.path = r.path /\ q.pos = r.pos /\ q.older = {}
    BY DEF Requests
  <2>11. /\ creator' \in [Creator -> Requests]
         /\ \A c \in Creator : /\ creator'[c].at = creator[c].at /\ creator'[c].pos = creator[c].pos
                               /\ creator'[c].path = creator[c].path /\ creator'[c].older = {}
    BY <1>a, <2>2, <2>10
  <2>12. PlacesAreBehind' /\ FoldersAreNamed'
    BY <1>a, <2>2, <2>11 DEF PlacesAreBehind, FoldersAreNamed
  <2>13. changes' \in Counters
    <3>1. /\ changes["reorder"] + 1 \in 0..MaxRenames
          /\ changes' = [changes EXCEPT !["reorder"] = changes["reorder"] + 1]
      BY <1>a, <2>2 DEF Counts, Counters
    <3> QED
      BY <1>a, <3>1 DEF Counters
  <2>14. ComesLast
    BY <1>a, <2>2
  <2> QED
    BY <1>a, <1>b, <2>2, <2>6, <2>8, <2>9, <2>11, <2>12, <2>13, <2>14
<1>10. CASE UNCHANGED projectVars
  <2>1. UNCHANGED <<project, lastId, folder, creator, changes>>
    BY <1>10 DEF projectVars
  <2>2. PlacesAreBehind' /\ FoldersAreNamed'
    BY <1>a, <2>1 DEF PlacesAreBehind, FoldersAreNamed
  <2> QED
    BY <1>a, <1>b, <1>i, <2>1, <2>2
<1> QED
  BY <1>1, <1>2, <1>3, <1>4, <1>5, <1>6, <1>7, <1>8, <1>9, <1>10 DEF ProjectNext

-----------------------------------------------------------------------------
(* Groups of projects *)

\* A project that names a group names one that is there.
GroupInv == GroupTypeOK /\ GroupedIsLive

\* No project is in a group at first.
LEMMA GroupInvInit == GroupInit => GroupInv
  BY DEF GroupInit, GroupInv, GroupTypeOK, GroupedIsLive, Projects, NoGrouper

\* A group takes the projects that are in it along when it goes, and what is
\* put into one that is gone is refused.
LEMMA GroupInvStep == GroupInv /\ [GroupNext]_groupVars => GroupInv'
<1> SUFFICES ASSUME GroupInv, [GroupNext]_groupVars
             PROVE  GroupInv'
  OBVIOUS
<1> DEFINE Requests == [at : {"idle", "create", "check", "update"},
                        group : Group \cup {"none"}, todo : SUBSET Member]
<1>a. /\ member \in [Member -> Group \cup {"none", "deleted"}]
      /\ group \in [Group -> {"new", "there", "deleted"}]
      /\ grouper \in [Grouper -> Requests]
      /\ GroupedIsLive
  BY DEF GroupInv, GroupTypeOK
<1>b. /\ member' \in [Member -> Group \cup {"none", "deleted"}]
      /\ group' \in [Group -> {"new", "there", "deleted"}]
      /\ grouper' \in [Grouper -> Requests]
      /\ GroupedIsLive'
      => GroupInv'
  BY DEF GroupInv, GroupTypeOK
<1>c. NoGrouper \in Requests
  BY DEF NoGrouper
<1>d. Projects \subseteq Member
  BY DEF Projects
<1> HIDE DEF Requests
<1>e. ASSUME NEW m \in Grouper, NEW r \in Requests, GrouperGoes(m, r)
      PROVE  grouper' \in [Grouper -> Requests]
  BY <1>a, <1>e DEF GrouperGoes
<1>f. ASSUME UNCHANGED <<member, group>>
      PROVE  GroupedIsLive'
  BY <1>a, <1>f DEF GroupedIsLive, Projects
<1>1. ASSUME NEW m \in Grouper, AsksToCreateGroup(m)
      PROVE  GroupInv'
  <2>1. PICK todo \in SUBSET Projects :
          GrouperGoes(m, [at |-> "create", group |-> "none", todo |-> todo])
    BY <1>1 DEF AsksToCreateGroup
  <2>2. [at |-> "create", group |-> "none", todo |-> todo] \in Requests
    BY <1>d DEF Requests
  <2> QED
    BY <1>1, <1>a, <1>b, <1>e, <1>f, <2>1, <2>2 DEF AsksToCreateGroup
<1>2. ASSUME NEW m \in Grouper, NEW g \in Group, CreatesGroup(m, g)
      PROVE  GroupInv'
  <2>1. PICK r \in Requests : r = grouper[m]
    BY <1>a
  <2>2. [r EXCEPT !.at = "check", !.group = g] \in Requests
    BY DEF Requests
  <2>3. grouper' \in [Grouper -> Requests]
    BY <1>2, <1>c, <1>e, <2>1, <2>2 DEF CreatesGroup
  <2>4. /\ group' = [group EXCEPT ![g] = "there"] /\ UNCHANGED member
        /\ group[g] = "new"
    BY <1>2 DEF CreatesGroup
  <2>5. GroupedIsLive'
    BY <1>a, <2>4 DEF GroupedIsLive, Projects
  <2> QED
    BY <1>a, <1>b, <2>3, <2>4, <2>5
<1>3. ASSUME NEW m \in Grouper, NEW i \in Member, AsksForGroup(m, i)
      PROVE  GroupInv'
  <2>1. PICK r \in Requests : GrouperGoes(m, r)
    <3>1. \A g \in Group : [at |-> "check", group |-> g, todo |-> {i}] \in Requests
      BY DEF Requests
    <3>2. [at |-> "update", group |-> "none", todo |-> {i}] \in Requests
      BY DEF Requests
    <3> QED
      BY <1>3, <3>1, <3>2 DEF AsksForGroup
  <2> QED
    BY <1>3, <1>a, <1>b, <1>e, <1>f, <2>1 DEF AsksForGroup
<1>4. ASSUME NEW m \in Grouper, ChecksGroup(m)
      PROVE  GroupInv'
  <2>1. PICK r \in Requests : r = grouper[m]
    BY <1>a
  <2>2. [r EXCEPT !.at = "update"] \in Requests
    BY DEF Requests
  <2>3. grouper' \in [Grouper -> Requests]
    BY <1>4, <1>c, <1>e, <2>1, <2>2 DEF ChecksGroup
  <2> QED
    BY <1>4, <1>a, <1>b, <1>f, <2>3 DEF ChecksGroup
<1>5. ASSUME NEW m \in Grouper, SetsGroup(m)
      PROVE  GroupInv'
  <2>1. PICK r \in Requests : r = grouper[m]
    BY <1>a
  <2> DEFINE i == Min(r.todo)
  <2>2. [r EXCEPT !.at = "check", !.todo = @ \ {i}] \in Requests
    BY DEF Requests
  <2>3. UNCHANGED group
    BY <1>5 DEF SetsGroup
  <2>4. CASE (ForeignKeys /\ r.group # "none" /\ group[r.group] # "there") \/ i \notin Projects
    <3>1. UNCHANGED member /\ GrouperGoes(m, NoGrouper)
      BY <1>5, <2>1, <2>4 DEF SetsGroup
    <3> QED
      BY <1>a, <1>b, <1>c, <1>e, <1>f, <2>3, <3>1
  <2>5. CASE /\ ~ (ForeignKeys /\ r.group # "none" /\ group[r.group] # "there")
             /\ i \in Projects
    <3>1. /\ member' = [member EXCEPT ![i] = r.group]
          /\ GrouperGoes(m, IF r.todo = {i} THEN NoGrouper
                            ELSE [r EXCEPT !.at = "check", !.todo = @ \ {i}])
      BY <1>5, <2>1, <2>5 DEF SetsGroup
    <3>2. grouper' \in [Grouper -> Requests]
      BY <1>c, <1>e, <2>2, <3>1
    <3>3. r.group \in Group \cup {"none"} /\ (r.group = "none" \/ group[r.group] = "there")
      BY <2>5 DEF Requests, ForeignKeys
    <3> HIDE DEF i
    <3>4. member' \in [Member -> Group \cup {"none", "deleted"}] /\ GroupedIsLive'
      BY <1>a, <1>d, <2>3, <2>5, <3>1, <3>3 DEF GroupedIsLive, Projects
    <3> QED
      BY <1>a, <1>b, <2>3, <3>2, <3>4
  <2> QED
    BY <2>4, <2>5
<1>6. ASSUME NEW g \in Group, DeletesGroup(g)
      PROVE  GroupInv'
  <2>1. /\ group' = [group EXCEPT ![g] = "deleted"]
        /\ member' = [i \in Member |-> IF member[i] = g THEN "none" ELSE member[i]]
        /\ UNCHANGED grouper
    BY <1>6 DEF DeletesGroup, ForeignKeys
  <2> QED
    BY <1>a, <1>b, <2>1 DEF GroupedIsLive, Projects
<1>7. ASSUME NEW i \in Member, ProjectGoes(i)
      PROVE  GroupInv'
  BY <1>7, <1>a, <1>b DEF ProjectGoes, GroupedIsLive, Projects
<1>8. CASE UNCHANGED groupVars
  BY <1>8, <1>a, <1>b, <1>f DEF groupVars
<1> QED
  BY <1>1, <1>2, <1>3, <1>4, <1>5, <1>6, <1>7, <1>8 DEF GroupNext

-----------------------------------------------------------------------------
(* The removal of threads *)

\* Only who cleans up has rows.
RowsAreHeldToClean == \A r \in Remover : remover[r].rows # {} => remover[r].at = "clean"

\* The rows of threads, and which request holds those that are gone.
RemovalInv == RemovalTypeOK /\ RowsAreHeldToClean /\ EachIsCleanedOnce

\* No thread is gone at first.
LEMMA RemovalInvInit == RemovalInit => RemovalInv
<1> SUFFICES ASSUME RemovalInit PROVE RemovalInv
  OBVIOUS
<1>1. /\ placed = [t \in ThreadId |-> "new"]
      /\ home = [t \in ThreadId |-> 0]
      /\ projects = ProjectNo
      /\ remover = [r \in Remover |-> NobodyRemoves]
      /\ cleanups = [t \in ThreadId |-> 0]
      /\ lost = {}
  BY DEF RemovalInit
<1>2. RemovalTypeOK
  BY <1>1 DEF RemovalTypeOK, NobodyRemoves, Rows
<1>3. \A r \in Remover : remover[r].rows = {}
  BY <1>1 DEF NobodyRemoves
<1>4. EachIsCleanedOnce
  <2> SUFFICES ASSUME NEW t \in ThreadId
               PROVE  LET holders == {r \in Remover : t \in remover[r].rows}
                      IN  /\ placed[t] = "gone" <=> holders # {} \/ cleanups[t] > 0 \/ t \in lost
                          /\ \A r, o \in holders : r = o
                          /\ cleanups[t] <= 1 /\ (cleanups[t] = 1 => holders = {})
    BY DEF EachIsCleanedOnce
  <2>1. placed[t] = "new" /\ cleanups[t] = 0 /\ t \notin lost
    BY <1>1
  <2>2. {r \in Remover : t \in remover[r].rows} = {}
    BY <1>3
  <2> QED
    BY <2>1, <2>2
<1> QED
  BY <1>2, <1>3, <1>4 DEF RemovalInv, RowsAreHeldToClean

\* Rows go to one request each, which holds them until it has cleaned up.
LEMMA RemovalInvStep == RemovalInv /\ [RemovalNext]_removalVars => RemovalInv'
<1> SUFFICES ASSUME RemovalInv, [RemovalNext]_removalVars
             PROVE  RemovalInv'
  OBVIOUS
<1> DEFINE Handlers == [at : {"idle", "remove", "clean", "insert"},
                        kind : {"none", "create", "thread", "project"},
                        subject : ThreadId \cup ProjectNo \cup {0}, rows : SUBSET ThreadId]
           HasRow(r, t) == t \in remover[r].rows
<1>a. /\ placed \in [ThreadId -> {"new", "empty", "used", "gone"}]
      /\ home \in [ThreadId -> ProjectNo \cup {0}]
      /\ projects \subseteq ProjectNo
      /\ remover \in [Remover -> Handlers]
      /\ cleanups \in [ThreadId -> 0..2]
      /\ lost \subseteq ThreadId
      /\ \A t \in Rows : home[t] \in projects
      /\ RowsAreHeldToClean
  BY DEF RemovalInv, RemovalTypeOK
<1>b. /\ placed' \in [ThreadId -> {"new", "empty", "used", "gone"}]
      /\ home' \in [ThreadId -> ProjectNo \cup {0}]
      /\ projects' \subseteq ProjectNo
      /\ remover' \in [Remover -> Handlers]
      /\ cleanups' \in [ThreadId -> 0..2]
      /\ lost' \subseteq ThreadId
      /\ \A t \in Rows' : home'[t] \in projects'
      /\ RowsAreHeldToClean' /\ EachIsCleanedOnce'
      => RemovalInv'
  BY DEF RemovalInv, RemovalTypeOK
<1> HIDE DEF Handlers
\* EachIsCleanedOnce, without the set of those who have the row.
<1>c. ASSUME NEW t \in ThreadId
      PROVE  /\ placed[t] = "gone" <=>
                   (\E r \in Remover : HasRow(r, t)) \/ cleanups[t] > 0 \/ t \in lost
             /\ \A r, o \in Remover : HasRow(r, t) /\ HasRow(o, t) => r = o
             /\ cleanups[t] \in {0, 1}
             /\ cleanups[t] = 1 => \A r \in Remover : ~ HasRow(r, t)
  <2>1. cleanups[t] \in 0..2
    BY <1>a
  <2> QED
    BY <2>1 DEF RemovalInv, EachIsCleanedOnce
<1>d. ASSUME \A t \in ThreadId :
               /\ placed'[t] = "gone"
                    <=> (\E r \in Remover : HasRow(r, t)') \/ cleanups'[t] > 0 \/ t \in lost'
               /\ \A r, o \in Remover : HasRow(r, t)' /\ HasRow(o, t)' => r = o
               /\ cleanups'[t] \in {0, 1}
               /\ cleanups'[t] = 1 => \A r \in Remover : ~ HasRow(r, t)'
      PROVE  EachIsCleanedOnce'
  BY <1>d DEF EachIsCleanedOnce
<1>e. NobodyRemoves \in Handlers /\ NobodyRemoves.rows = {}
  BY DEF NobodyRemoves, Handlers
\* One request goes on, and the holders of rows are those before but for it.
<1>f. ASSUME NEW r \in Remover, NEW q \in Handlers, remover' = [remover EXCEPT ![r] = q],
             q.rows # {} => q.at = "clean"
      PROVE  /\ remover' \in [Remover -> Handlers] /\ RowsAreHeldToClean'
             /\ \A o \in Remover : remover'[o] = IF o = r THEN q ELSE remover[o]
  BY <1>a, <1>f DEF RowsAreHeldToClean
\* A request without rows goes on without.
<1>g. ASSUME NEW r \in Remover, NEW q \in Handlers, remover' = [remover EXCEPT ![r] = q],
             q.rows = {}, remover[r].rows = {}, UNCHANGED <<placed, cleanups, lost>>
      PROVE  /\ remover' \in [Remover -> Handlers] /\ RowsAreHeldToClean'
             /\ EachIsCleanedOnce'
  <2>1. /\ remover' \in [Remover -> Handlers] /\ RowsAreHeldToClean'
        /\ \A o \in Remover : remover'[o].rows = remover[o].rows
    BY <1>a, <1>f, <1>g
  <2>2. EachIsCleanedOnce'
    BY <1>c, <1>d, <1>g, <2>1
  <2> QED
    BY <2>1, <2>2
\* A request that has no rows gets rows that there were.
<1>h. ASSUME NEW r \in Remover, remover[r].rows = {}, NEW rows \in SUBSET Rows,
             NEW q \in Handlers, remover' = [remover EXCEPT ![r] = q],
             q.rows = rows, rows # {} => q.at = "clean",
             placed' = [t \in ThreadId |-> IF t \in rows THEN "gone" ELSE placed[t]],
             UNCHANGED <<cleanups, lost>>
      PROVE  /\ placed' \in [ThreadId -> {"new", "empty", "used", "gone"}]
             /\ Rows' = Rows \ rows
             /\ remover' \in [Remover -> Handlers] /\ RowsAreHeldToClean'
             /\ EachIsCleanedOnce'
  <2>1. /\ remover' \in [Remover -> Handlers] /\ RowsAreHeldToClean'
        /\ \A o \in Remover : remover'[o].rows = IF o = r THEN rows ELSE remover[o].rows
    BY <1>a, <1>f, <1>h
  <2>2. \A t \in rows : t \in ThreadId /\ placed[t] # "gone"
    BY DEF Rows
  <2>3. ASSUME NEW t \in ThreadId
        PROVE  /\ placed'[t] = "gone"
                    <=> (\E o \in Remover : HasRow(o, t)') \/ cleanups'[t] > 0 \/ t \in lost'
               /\ \A p, o \in Remover : HasRow(p, t)' /\ HasRow(o, t)' => p = o
               /\ cleanups'[t] \in {0, 1}
               /\ cleanups'[t] = 1 => \A o \in Remover : ~ HasRow(o, t)'
    <3>1. CASE t \in rows
      <4>1. ~ (\E o \in Remover : HasRow(o, t)) /\ cleanups[t] = 0 /\ t \notin lost
        BY <1>c, <2>2, <3>1
      <4>2. \A o \in Remover : HasRow(o, t)' <=> o = r
        BY <2>1, <3>1, <4>1
      <4>3. placed'[t] = "gone"
        BY <1>h, <3>1
      <4> QED
        BY <1>h, <4>1, <4>2, <4>3
    <3>2. CASE t \notin rows
      <4>1. \A o \in Remover : HasRow(o, t)' <=> HasRow(o, t)
        BY <1>h, <2>1, <3>2
      <4>2. placed'[t] = placed[t]
        BY <1>h, <3>2
      <4> QED
        BY <1>c, <1>h, <4>1, <4>2
    <3> QED
      BY <3>1, <3>2
  <2>4. placed' \in [ThreadId -> {"new", "empty", "used", "gone"}]
    BY <1>a, <1>h
  <2>5. Rows' = Rows \ rows
    BY <1>a, <1>h, <2>2 DEF Rows
  <2> QED
    BY <1>d, <2>1, <2>3, <2>4, <2>5
\* What a handler is left with.
<1>i. ASSUME NEW r \in Remover, NEW rows \in SUBSET ThreadId, NEW then \in {"insert", "idle"},
             GoesWith(r, rows, then)
      PROVE  \E q \in Handlers : /\ remover' = [remover EXCEPT ![r] = q]
                                 /\ q.rows = rows /\ (rows # {} => q.at = "clean")
  <2>1. PICK p \in Handlers : p = remover[r]
    BY <1>a
  <2>2. /\ [p EXCEPT !.at = "clean", !.rows = rows] \in Handlers
        /\ [p EXCEPT !.at = "clean", !.rows = rows].rows = rows
        /\ [p EXCEPT !.at = "clean", !.rows = rows].at = "clean"
    BY DEF Handlers
  <2>3. /\ [p EXCEPT !.at = then, !.rows = {}] \in Handlers
        /\ [p EXCEPT !.at = then, !.rows = {}].rows = {}
    BY DEF Handlers
  <2> QED
    BY <1>e, <1>i, <2>1, <2>2, <2>3 DEF GoesWith
<1>j. ASSUME NEW r \in Remover, remover[r].at # "clean"
      PROVE  remover[r].rows = {}
  BY <1>a, <1>j DEF RowsAreHeldToClean
<1>k. ASSUME NEW r \in Remover, NEW k \in {"create", "thread", "project"},
             NEW s \in ThreadId \cup ProjectNo, Enters(r, k, s)
      PROVE  RemovalInv'
  <2> DEFINE q == [at |-> "remove", kind |-> k, subject |-> s, rows |-> {}]
  <2>1. q \in Handlers /\ q.rows = {}
    BY DEF Handlers
  <2>2. /\ remover' = [remover EXCEPT ![r] = q] /\ remover[r].rows = {}
        /\ UNCHANGED <<placed, home, projects, cleanups, lost>>
    BY <1>k, <1>j DEF Enters
  <2> HIDE DEF q
  <2>3. Rows' = Rows
    BY <2>2 DEF Rows
  <2> QED
    BY <1>a, <1>b, <1>g, <2>1, <2>2, <2>3
<1>1. ASSUME NEW r \in Remover, RemovesEmpty(r)
      PROVE  RemovalInv'
  <2> DEFINE rows == {t \in Rows : placed[t] = "empty" /\ home[t] = remover[r].subject}
  <2>1. rows \in SUBSET Rows /\ rows \in SUBSET ThreadId
    BY DEF Rows
  <2>2. /\ placed' = [t \in ThreadId |-> IF t \in rows THEN "gone" ELSE placed[t]]
        /\ GoesWith(r, rows, "insert") /\ remover[r].rows = {}
        /\ UNCHANGED <<home, projects, cleanups, lost>>
    BY <1>1, <1>j DEF RemovesEmpty, Handles
  <2> HIDE DEF rows
  <2>3. PICK q \in Handlers : /\ remover' = [remover EXCEPT ![r] = q]
                              /\ q.rows = rows /\ (rows # {} => q.at = "clean")
    BY <1>i, <2>1, <2>2
  <2>4. /\ placed' \in [ThreadId -> {"new", "empty", "used", "gone"}]
        /\ Rows' = Rows \ rows
        /\ remover' \in [Remover -> Handlers] /\ RowsAreHeldToClean'
        /\ EachIsCleanedOnce'
    BY <1>h, <2>1, <2>2, <2>3
  <2> QED
    BY <1>a, <1>b, <2>2, <2>4
<1>2. ASSUME NEW r \in Remover, RemovesThread(r)
      PROVE  RemovalInv'
  <2> DEFINE rows == {remover[r].subject} \cap Rows
  <2>1. rows \in SUBSET Rows /\ rows \in SUBSET ThreadId
    BY DEF Rows
  <2>2. /\ placed' = [t \in ThreadId |-> IF t \in rows THEN "gone" ELSE placed[t]]
        /\ GoesWith(r, rows, "idle") /\ remover[r].rows = {}
        /\ UNCHANGED <<home, projects, cleanups, lost>>
    BY <1>2, <1>j DEF RemovesThread, Handles
  <2> HIDE DEF rows
  <2>3. PICK q \in Handlers : /\ remover' = [remover EXCEPT ![r] = q]
                              /\ q.rows = rows /\ (rows # {} => q.at = "clean")
    BY <1>i, <2>1, <2>2
  <2>4. /\ placed' \in [ThreadId -> {"new", "empty", "used", "gone"}]
        /\ Rows' = Rows \ rows
        /\ remover' \in [Remover -> Handlers] /\ RowsAreHeldToClean'
        /\ EachIsCleanedOnce'
    BY <1>h, <2>1, <2>2, <2>3
  <2> QED
    BY <1>a, <1>b, <2>2, <2>4
<1>3. ASSUME NEW r \in Remover, RemovesProject(r)
      PROVE  RemovalInv'
  <2> DEFINE rows == {t \in Rows : home[t] = remover[r].subject}
  <2>1. rows \in SUBSET Rows /\ rows \in SUBSET ThreadId
    BY DEF Rows
  <2>2. /\ placed' = [t \in ThreadId |-> IF t \in rows THEN "gone" ELSE placed[t]]
        /\ GoesWith(r, rows, "idle") /\ remover[r].rows = {}
        /\ UNCHANGED <<home, cleanups, lost>>
    BY <1>3, <1>j DEF RemovesProject, Handles
  <2>3. projects' = projects \ {remover[r].subject}
    BY <1>3 DEF RemovesProject
  <2>4. \A t \in Rows \ rows : home[t] \in projects'
    BY <1>a, <2>3
  <2> HIDE DEF rows
  <2>5. PICK q \in Handlers : /\ remover' = [remover EXCEPT ![r] = q]
                              /\ q.rows = rows /\ (rows # {} => q.at = "clean")
    BY <1>i, <2>1, <2>2
  <2>6. /\ placed' \in [ThreadId -> {"new", "empty", "used", "gone"}]
        /\ Rows' = Rows \ rows
        /\ remover' \in [Remover -> Handlers] /\ RowsAreHeldToClean'
        /\ EachIsCleanedOnce'
    BY <1>h, <2>1, <2>2, <2>5
  <2> QED
    BY <1>a, <1>b, <2>2, <2>3, <2>4, <2>6
<1>4. ASSUME NEW r \in Remover, CleansUp(r)
      PROVE  RemovalInv'
  <2>1. PICK u \in remover[r].rows :
          /\ cleanups' = [cleanups EXCEPT ![u] = @ + 1]
          /\ GoesWith(r, remover[r].rows \ {u},
                      IF remover[r].kind = "create" THEN "insert" ELSE "idle")
    BY <1>4 DEF CleansUp
  <2>2. UNCHANGED <<placed, home, projects, lost>> /\ Rows' = Rows
    BY <1>4 DEF CleansUp, Rows
  <2>3. u \in ThreadId /\ remover[r].rows \ {u} \in SUBSET ThreadId
    BY <1>a DEF Handlers
  <2>4. PICK q \in Handlers : /\ remover' = [remover EXCEPT ![r] = q]
                              /\ q.rows = remover[r].rows \ {u} /\ (q.rows # {} => q.at = "clean")
    BY <1>i, <2>1, <2>3
  <2>5. /\ remover' \in [Remover -> Handlers] /\ RowsAreHeldToClean'
        /\ \A o \in Remover : remover'[o].rows =
             IF o = r THEN remover[r].rows \ {u} ELSE remover[o].rows
    BY <1>a, <1>f, <2>4
  <2>6. cleanups[u] = 0 /\ placed[u] = "gone" /\ \A o \in Remover : HasRow(o, u) => o = r
    BY <1>c, <2>1, <2>3
  <2>7. cleanups' \in [ThreadId -> 0..2] /\ cleanups'[u] = 1
        /\ \A t \in ThreadId \ {u} : cleanups'[t] = cleanups[t]
    BY <1>a, <2>1, <2>3, <2>6
  <2>8. ASSUME NEW t \in ThreadId
        PROVE  /\ placed'[t] = "gone"
                    <=> (\E o \in Remover : HasRow(o, t)') \/ cleanups'[t] > 0 \/ t \in lost'
               /\ \A p, o \in Remover : HasRow(p, t)' /\ HasRow(o, t)' => p = o
               /\ cleanups'[t] \in {0, 1}
               /\ cleanups'[t] = 1 => \A o \in Remover : ~ HasRow(o, t)'
    <3>1. CASE t = u
      <4>1. \A o \in Remover : ~ HasRow(o, t)'
        BY <2>5, <2>6, <3>1
      <4> QED
        BY <2>2, <2>6, <2>7, <3>1, <4>1
    <3>2. CASE t # u
      <4>1. \A o \in Remover : HasRow(o, t)' <=> HasRow(o, t)
        BY <2>5, <3>2
      <4> QED
        BY <1>c, <2>2, <2>7, <3>2, <4>1
    <3> QED
      BY <3>1, <3>2
  <2> QED
    BY <1>a, <1>b, <1>d, <2>2, <2>5, <2>7, <2>8
<1>5. ASSUME NEW r \in Remover, RequestGoes(r)
      PROVE  RemovalInv'
  <2>1. /\ remover' = [remover EXCEPT ![r] = NobodyRemoves]
        /\ lost' = lost \cup remover[r].rows
        /\ UNCHANGED <<placed, home, projects, cleanups>> /\ Rows' = Rows
    BY <1>5 DEF RequestGoes, Rows
  <2>2. /\ remover' \in [Remover -> Handlers] /\ RowsAreHeldToClean'
        /\ \A o \in Remover : remover'[o].rows = IF o = r THEN {} ELSE remover[o].rows
    BY <1>a, <1>e, <1>f, <2>1
  <2>3. lost' \subseteq ThreadId
    BY <1>a, <2>1 DEF Handlers
  <2>4. ASSUME NEW t \in ThreadId
        PROVE  /\ placed'[t] = "gone"
                    <=> (\E o \in Remover : HasRow(o, t)') \/ cleanups'[t] > 0 \/ t \in lost'
               /\ \A p, o \in Remover : HasRow(p, t)' /\ HasRow(o, t)' => p = o
               /\ cleanups'[t] \in {0, 1}
               /\ cleanups'[t] = 1 => \A o \in Remover : ~ HasRow(o, t)'
    <3>1. \A o \in Remover : HasRow(o, t)' <=> HasRow(o, t) /\ o # r
      BY <2>2
    <3>2. t \in lost' <=> t \in lost \/ HasRow(r, t)
      BY <2>1
    <3> QED
      BY <1>c, <2>1, <3>1, <3>2
  <2> QED
    BY <1>a, <1>b, <1>d, <2>1, <2>2, <2>3, <2>4
<1>6. ASSUME NEW r \in Remover, NEW t \in ThreadId, InsertsThread(r, t)
      PROVE  RemovalInv'
  <2>1. /\ remover' = [remover EXCEPT ![r] = NobodyRemoves] /\ remover[r].rows = {}
        /\ placed[t] = "new" /\ UNCHANGED <<projects, cleanups, lost>>
    BY <1>6, <1>j DEF InsertsThread, Handles
  <2>2. CASE UNCHANGED <<placed, home>>
    <3>1. Rows' = Rows
      BY <2>2 DEF Rows
    <3> QED
      BY <1>a, <1>b, <1>e, <1>g, <2>1, <2>2, <3>1
  <2>3. CASE /\ remover[r].subject \in projects
             /\ placed' = [placed EXCEPT ![t] = "empty"]
             /\ home' = [home EXCEPT ![t] = remover[r].subject]
    <3>1. /\ placed' \in [ThreadId -> {"new", "empty", "used", "gone"}]
          /\ home' \in [ThreadId -> ProjectNo \cup {0}]
      BY <1>a, <2>3
    <3>2. \A x \in Rows' : home'[x] \in projects'
      BY <1>a, <2>1, <2>3 DEF Rows
    <3>3. \A x \in ThreadId : placed'[x] = "gone" <=> placed[x] = "gone"
      BY <1>a, <2>1, <2>3
    <3>4. /\ remover' \in [Remover -> Handlers] /\ RowsAreHeldToClean'
          /\ \A o \in Remover : remover'[o].rows = remover[o].rows
      BY <1>a, <1>e, <1>f, <2>1
    <3>5. EachIsCleanedOnce'
      BY <1>c, <1>d, <2>1, <3>3, <3>4
    <3> QED
      BY <1>a, <1>b, <2>1, <3>1, <3>2, <3>4, <3>5
  <2> QED
    BY <1>6, <2>2, <2>3 DEF InsertsThread
<1>7. ASSUME NEW t \in ThreadId, IsUsed(t)
      PROVE  RemovalInv'
  <2>1. /\ placed' = [placed EXCEPT ![t] = "used"] /\ placed[t] = "empty"
        /\ UNCHANGED <<home, projects, remover, cleanups, lost>>
    BY <1>7 DEF IsUsed
  <2>2. placed' \in [ThreadId -> {"new", "empty", "used", "gone"}] /\ Rows' = Rows
    BY <1>a, <2>1 DEF Rows
  <2>3. \A x \in ThreadId : placed'[x] = "gone" <=> placed[x] = "gone"
    BY <1>a, <2>1
  <2>4. EachIsCleanedOnce'
    BY <1>c, <1>d, <2>1, <2>3
  <2> QED
    BY <1>a, <1>b, <2>1, <2>2, <2>4 DEF RowsAreHeldToClean
<1>8. ASSUME NEW r \in Remover, NEW t \in ThreadId, AsksToDeleteThread(r, t)
      PROVE  RemovalInv'
  BY <1>8, <1>k DEF AsksToDeleteThread
<1>9. ASSUME NEW r \in Remover, NEW p \in ProjectNo,
             AsksToCreateThread(r, p) \/ AsksToDeleteProject(r, p)
      PROVE  RemovalInv'
  BY <1>9, <1>k DEF AsksToCreateThread, AsksToDeleteProject
<1>10. CASE UNCHANGED removalVars
  <2>1. UNCHANGED <<placed, home, projects, remover, cleanups, lost>> /\ Rows' = Rows
    BY <1>10 DEF removalVars, Rows
  <2>2. EachIsCleanedOnce'
    BY <1>c, <1>d, <2>1
  <2> QED
    BY <1>a, <1>b, <2>1, <2>2 DEF RowsAreHeldToClean
<1> QED
  BY <1>1, <1>2, <1>3, <1>4, <1>5, <1>6, <1>7, <1>8, <1>9, <1>10 DEF RemovalNext

-----------------------------------------------------------------------------
(* The readers of a thread *)

\* What counts as seen, and what a request has marked, are messages there were.
ReaderInv ==
  /\ ReaderTypeOK
  /\ seen \subseteq 1..lastMsg
  /\ \A v \in Viewer : viewer[v].marked \subseteq 1..lastMsg
  /\ NewOutputIsUnread /\ MarkedIsShown

\* The watermark is put on the last of the messages there are.
LEMMA WatermarkIsLast ==
  ASSUME ReaderTypeOK, MarksViewed
  PROVE  /\ viewed' \in 0..lastMsg /\ seen' = MsgRows
         /\ \A m \in MsgRows : m =< viewed'
<1>1. lastMsg \in Nat /\ MsgRows \subseteq 1..lastMsg
  BY ReaderConstants DEF ReaderTypeOK, MsgRows
<1> DEFINE All == MsgRows \cup {0}
<1>2. All \in SUBSET Int /\ All # {} /\ \A x \in All : x =< lastMsg /\ x >= 0
  BY <1>1
<1>3. viewed' = Max(All) /\ seen' = MsgRows
  BY DEF MarksViewed
<1>4. MsgRows \subseteq All
  OBVIOUS
<1> HIDE DEF All
<1>5. Max(All) \in All /\ \A x \in All : x =< Max(All)
  BY <1>1, <1>2, BoundedMax
<1>6. viewed' \in Int /\ viewed' >= 0 /\ viewed' =< lastMsg
  BY <1>1, <1>2, <1>3, <1>5
<1>7. \A m \in MsgRows : m =< viewed'
  BY <1>3, <1>4, <1>5
<1> QED
  BY <1>1, <1>3, <1>6, <1>7

\* A thread without messages has none that is unread.
LEMMA ReaderInvInit == ReaderInit => ReaderInv
<1> SUFFICES ASSUME ReaderInit PROVE ReaderInv
  OBVIOUS
<1>1. /\ outputs = {} /\ prompts = {} /\ lastMsg = 0 /\ viewed = 0 /\ seen = {} /\ looks = 0
      /\ viewer = [v \in Viewer |-> NoViewer]
  BY DEF ReaderInit
<1>2. NoViewer \in [at : {"idle", "read", "list", "answer"}, marked : SUBSET MsgId,
                    unread : BOOLEAN, shown : SUBSET MsgId]
  BY DEF NoViewer
<1>3. ReaderTypeOK
  BY <1>1, <1>2, ReaderConstants DEF ReaderTypeOK
<1> QED
  BY <1>1, <1>3 DEF ReaderInv, NoViewer, NewOutputIsUnread, MarkedIsShown

\* Messages that come and go between the statements of a request are neither
\* marked by it nor counted as seen.
LEMMA ReaderInvStep == ReaderInv /\ [ReaderNext]_readerVars => ReaderInv'
<1> SUFFICES ASSUME ReaderInv, [ReaderNext]_readerVars
             PROVE  ReaderInv'
  OBVIOUS
<1> DEFINE Views == [at : {"idle", "read", "list", "answer"}, marked : SUBSET MsgId,
                        unread : BOOLEAN, shown : SUBSET MsgId]
<1>a. /\ outputs \subseteq 1..lastMsg /\ prompts \subseteq (1..lastMsg) \ outputs
      /\ lastMsg \in 0..MaxMessages /\ viewed \in 0..lastMsg
      /\ seen \subseteq MsgId /\ looks \in 0..MaxViews
      /\ viewer \in [Viewer -> Views]
      /\ seen \subseteq 1..lastMsg
      /\ \A v \in Viewer : viewer[v].marked \subseteq 1..lastMsg
      /\ NewOutputIsUnread /\ MarkedIsShown /\ ReaderTypeOK
  BY DEF ReaderInv, ReaderTypeOK
<1>b. /\ outputs' \subseteq 1..lastMsg' /\ prompts' \subseteq (1..lastMsg') \ outputs'
      /\ lastMsg' \in 0..MaxMessages /\ viewed' \in 0..lastMsg'
      /\ looks' \in 0..MaxViews
      /\ viewer' \in [Viewer -> Views]
      /\ seen' \subseteq 1..lastMsg'
      /\ \A v \in Viewer : viewer'[v].marked \subseteq 1..lastMsg'
      /\ NewOutputIsUnread' /\ MarkedIsShown'
      => ReaderInv'
  BY ReaderConstants DEF ReaderInv, ReaderTypeOK, MsgId
<1>c. lastMsg \in Nat /\ MsgRows \subseteq 1..lastMsg /\ 1..lastMsg \subseteq MsgId
  BY <1>a, ReaderConstants DEF MsgRows, MsgId
<1> HIDE DEF Views
\* Some messages were marked anew.
<1>d. ASSUME MarksViewed, UNCHANGED <<outputs, prompts, lastMsg>>
      PROVE  /\ viewed' \in 0..lastMsg' /\ seen' \subseteq 1..lastMsg'
             /\ NewOutputIsUnread'
  <2>1. /\ viewed' \in 0..lastMsg /\ seen' = MsgRows
        /\ \A m \in MsgRows : m =< viewed'
    BY <1>a, <1>d, WatermarkIsLast
  <2>2. outputs' \subseteq MsgRows /\ outputs' \subseteq Nat
    BY <1>c, <1>d DEF MsgRows
  <2>3. NewOutputIsUnread'
    BY <2>1, <2>2, <1>c DEF NewOutputIsUnread
  <2> QED
    BY <1>c, <1>d, <2>1, <2>3
\* A request went on, and what it has marked was there.
<1>e. ASSUME NEW v \in Viewer, NEW r \in Views, ViewerGoes(v, r),
             r.marked \subseteq 1..lastMsg,
             r.at = "answer" => r.marked \cap MsgRows \subseteq r.shown
      PROVE  /\ viewer' \in [Viewer -> Views]
             /\ \A w \in Viewer : viewer'[w].marked \subseteq 1..lastMsg'
             /\ MarkedIsShown'
             /\ UNCHANGED <<outputs, prompts, lastMsg>>
  <2>1. viewer' = [viewer EXCEPT ![v] = r] /\ UNCHANGED <<outputs, prompts, lastMsg>>
    BY <1>e DEF ViewerGoes
  <2>2. MsgRows' = MsgRows
    BY <2>1 DEF MsgRows
  <2>3. viewer' \in [Viewer -> Views]
    BY <1>a, <2>1
  <2>4. \A w \in Viewer : viewer'[w] = r \/ viewer'[w] = viewer[w]
    BY <1>a, <2>1
  <2>5. MarkedIsShown'
    BY <1>a, <1>e, <2>2, <2>4 DEF MarkedIsShown
  <2> QED
    BY <1>a, <1>e, <2>1, <2>3, <2>4, <2>5
<1>f. ASSUME UNCHANGED <<outputs, viewed, seen>>
      PROVE  NewOutputIsUnread'
  BY <1>a, <1>f DEF NewOutputIsUnread
<1>1. CASE MessageComes
  <2>1. lastMsg' = lastMsg + 1
    <3> DEFINE Two == {lastMsg, lastMsg + 1}
    <3>1. Two \in SUBSET Int /\ Two # {} /\ \A x \in Two : x =< lastMsg + 1
      BY <1>c
    <3>2. lastMsg' = Max(Two)
      BY <1>1 DEF MessageComes, NextMsgId
    <3>3. \A x \in Two : x = lastMsg \/ x = lastMsg + 1
      OBVIOUS
    <3>4. lastMsg + 1 \in Two
      OBVIOUS
    <3> HIDE DEF Two
    <3>5. lastMsg + 1 \in Int
      BY <1>c
    <3>6. Max(Two) \in Two /\ \A x \in Two : x =< Max(Two)
      BY <3>1, <3>5, BoundedMax
    <3> QED
      BY <1>c, <3>2, <3>3, <3>4, <3>6
  <2>2. /\ UNCHANGED <<viewed, seen, viewer, looks>> /\ lastMsg < MaxMessages
        /\ MsgRows \subseteq MsgRows' /\ MsgRows' \subseteq MsgRows \cup {lastMsg + 1}
    BY <1>1 DEF MessageComes, NextMsgId, MsgRows
  <2>3. /\ outputs' \subseteq 1..lastMsg' /\ prompts' \subseteq (1..lastMsg') \ outputs'
        /\ outputs' \subseteq outputs \cup {lastMsg + 1}
    <3>1. CASE outputs' = outputs \cup {lastMsg + 1} /\ prompts' = prompts
      BY <1>a, <1>c, <2>1, <3>1
    <3>2. CASE prompts' = prompts \cup {lastMsg + 1} /\ outputs' = outputs
      BY <1>a, <1>c, <2>1, <3>2
    <3> QED
      BY <1>1, <3>1, <3>2 DEF MessageComes, NextMsgId
  <2>4. lastMsg' \in 0..MaxMessages /\ viewed' \in 0..lastMsg' /\ 1..lastMsg \subseteq 1..lastMsg'
    BY <1>a, <1>c, <2>1, <2>2, ReaderConstants
  <2>5. lastMsg + 1 \notin 1..lastMsg /\ lastMsg + 1 > viewed
    BY <1>a, <1>c
  <2>6. NewOutputIsUnread'
    BY <1>a, <2>2, <2>3, <2>5 DEF NewOutputIsUnread
  <2>7. MarkedIsShown'
    BY <1>a, <2>2, <2>5 DEF MarkedIsShown
  <2> QED
    BY <1>a, <1>b, <2>2, <2>3, <2>4, <2>6, <2>7
<1>2. CASE MessagesGo
  <2>1. PICK m \in MsgRows :
          /\ outputs' = outputs \ (m..lastMsg)
          /\ prompts' = prompts \ (m..lastMsg)
          /\ seen' = seen \ (m..lastMsg)
    BY <1>2 DEF MessagesGo
  <2>2. UNCHANGED <<lastMsg, viewed, viewer, looks>>
    BY <1>2 DEF MessagesGo
  <2> DEFINE gone == m..lastMsg
  <2>3. /\ outputs' = outputs \ gone /\ prompts' = prompts \ gone /\ seen' = seen \ gone
    BY <2>1
  <2> HIDE DEF gone
  <2>4. NewOutputIsUnread'
    BY <1>a, <2>2, <2>3 DEF NewOutputIsUnread
  <2>5. MarkedIsShown'
    BY <1>a, <2>2, <2>3 DEF MarkedIsShown, MsgRows
  <2> QED
    BY <1>a, <1>b, <2>2, <2>3, <2>4, <2>5
<1>3. CASE IsMarkedViewed
  <2>1. MarksViewed /\ UNCHANGED <<outputs, prompts, lastMsg, viewer>>
    BY <1>3 DEF IsMarkedViewed
  <2>2. looks' \in 0..MaxViews
    BY <1>3, <1>a, ReaderConstants DEF IsMarkedViewed
  <2>3. MarkedIsShown'
    BY <1>a, <2>1 DEF MarkedIsShown, MsgRows
  <2> QED
    BY <1>a, <1>b, <1>d, <2>1, <2>2, <2>3
<1>4. ASSUME NEW v \in Viewer, OpensThread(v)
      PROVE  ReaderInv'
  <2> DEFINE r == [NoViewer EXCEPT !.at = "read", !.marked = MsgRows]
  <2>1. r \in Views /\ r.marked = MsgRows /\ r.at # "answer"
    BY <1>c DEF NoViewer, Views
  <2>2. MarksViewed /\ ViewerGoes(v, r)
    BY <1>4 DEF OpensThread
  <2>3. looks' \in 0..MaxViews
    BY <1>4, <1>a, ReaderConstants DEF OpensThread
  <2> HIDE DEF r
  <2>4. /\ viewer' \in [Viewer -> Views]
        /\ \A w \in Viewer : viewer'[w].marked \subseteq 1..lastMsg'
        /\ MarkedIsShown'
        /\ UNCHANGED <<outputs, prompts, lastMsg>>
    BY <1>c, <1>e, <2>1, <2>2
  <2> QED
    BY <1>a, <1>b, <1>d, <2>2, <2>3, <2>4
<1>5. ASSUME NEW v \in Viewer, NEW r \in Views, ViewerGoes(v, r),
             r.marked \subseteq 1..lastMsg,
             r.at = "answer" => r.marked \cap MsgRows \subseteq r.shown,
             UNCHANGED <<viewed, seen, looks>>
      PROVE  ReaderInv'
  <2>1. /\ viewer' \in [Viewer -> Views]
        /\ \A w \in Viewer : viewer'[w].marked \subseteq 1..lastMsg'
        /\ MarkedIsShown'
        /\ UNCHANGED <<outputs, prompts, lastMsg>>
    BY <1>5, <1>e
  <2> QED
    BY <1>5, <1>a, <1>b, <1>f, <2>1
<1>6. ASSUME NEW v \in Viewer, ReadsThread(v)
      PROVE  ReaderInv'
  <2>1. PICK r \in Views : r = viewer[v]
    BY <1>a
  <2>2. PICK u \in BOOLEAN : ViewerGoes(v, [r EXCEPT !.at = "list", !.unread = u])
    BY <1>6, <2>1 DEF ReadsThread, Unread
  <2> DEFINE new == [r EXCEPT !.at = "list", !.unread = u]
  <2>3. new \in Views /\ new.marked = r.marked /\ new.at # "answer"
    BY DEF Views
  <2>4. ViewerGoes(v, new) /\ UNCHANGED <<viewed, seen, looks>>
    BY <1>6, <2>2 DEF ReadsThread
  <2> HIDE DEF new
  <2> QED
    BY <1>a, <1>5, <2>1, <2>3, <2>4
<1>7. ASSUME NEW v \in Viewer, ListsMessages(v)
      PROVE  ReaderInv'
  <2>1. PICK r \in Views : r = viewer[v]
    BY <1>a
  <2> DEFINE new == [r EXCEPT !.at = "answer", !.shown = MsgRows]
  <2>2. new \in Views /\ new.marked = r.marked /\ new.shown = MsgRows
    BY <1>c DEF Views
  <2>3. ViewerGoes(v, new) /\ UNCHANGED <<viewed, seen, looks>>
    BY <1>7, <2>1 DEF ListsMessages
  <2> HIDE DEF new
  <2> QED
    BY <1>a, <1>5, <2>1, <2>2, <2>3
<1>8. ASSUME NEW v \in Viewer, AnswersView(v)
      PROVE  ReaderInv'
  <2>1. NoViewer \in Views /\ NoViewer.marked = {} /\ NoViewer.at = "idle"
    BY DEF NoViewer, Views
  <2> QED
    BY <1>8, <1>5, <2>1 DEF AnswersView
<1>9. CASE UNCHANGED readerVars
  <2>1. MarkedIsShown'
    BY <1>9, <1>a DEF readerVars, MarkedIsShown, MsgRows
  <2> QED
    BY <1>9, <1>a, <1>b, <1>f, <2>1 DEF readerVars
<1> QED
  BY <1>1, <1>2, <1>3, <1>4, <1>6, <1>7, <1>8, <1>9 DEF ReaderNext

-----------------------------------------------------------------------------
(* The link of a share *)

\* A link that is there is kept by every step that leaves one.
LEMMA LinkStep ==
  ASSUME [ShareNext]_shareVars, share.link # 0, share'.link # 0
  PROVE  share'.link = share.link
<1>1. ASSUME NEW s \in Sharer, Upserts(s) PROVE share'.link = share.link
  BY <1>1 DEF Upserts
<1>2. CASE Revokes
  BY <1>2 DEF Revokes, NoShare
<1>3. CASE UNCHANGED share
  BY <1>3
<1> QED
  BY <1>1, <1>2, <1>3 DEF ShareNext, shareVars, MessagesChange, ReadsForShare, ChoosesLink

-----------------------------------------------------------------------------
(* The link of a thread *)

\* Requests that are about to choose a link.
Choosing == {s \in Sharer : sharer[s].at = "id"}

\* What a request to share is about to do, of n changes of the messages.
Requesting(n) == [at : {"idle", "id", "upsert"}, link : 0 .. MaxShares, snapshot : 0 .. n]

\* A link is minted by a request that was counted, and a snapshot is not newer
\* than the messages.
ShareInv ==
  /\ age \in 0 .. MaxAges /\ shares \in 0 .. MaxShares /\ links \in Nat
  /\ share \in [link : 0 .. MaxShares, snapshot : 0 .. age]
  /\ sharer \in [Sharer -> Requesting(age)]
  /\ IsFiniteSet(Choosing) /\ links + Cardinality(Choosing) <= shares

\* Nothing is shared at first.
LEMMA ShareInvInit == ShareInit => ShareInv
<1> SUFFICES ASSUME ShareInit PROVE ShareInv
  OBVIOUS
<1>1. Choosing = {}
  BY DEF ShareInit, Choosing, NoSharer
<1>2. IsFiniteSet(Choosing) /\ Cardinality(Choosing) = 0
  BY <1>1, FS_EmptySet
<1> QED
  BY <1>2, ShareConstants DEF ShareInit, ShareInv, NoShare, NoSharer, Requesting

\* One request goes on.
LEMMA SharerStep ==
  ASSUME ShareInv, NEW s \in Sharer, NEW r \in Requesting(age), sharer' = [sharer EXCEPT ![s] = r],
         age' = age
  PROVE  /\ sharer' \in [Sharer -> Requesting(age')]
         /\ Choosing' = IF r.at = "id" THEN Choosing \cup {s} ELSE Choosing \ {s}
<1>1. sharer \in [Sharer -> Requesting(age)]
  BY DEF ShareInv
<1>2. /\ sharer' \in [Sharer -> Requesting(age)]
      /\ \A t \in Sharer : sharer'[t] = IF t = s THEN r ELSE sharer[t]
  BY <1>1
<1>3. Choosing' = IF r.at = "id" THEN Choosing \cup {s} ELSE Choosing \ {s}
  BY <1>2 DEF Choosing
<1> QED
  BY <1>2, <1>3

\* Every step keeps the invariant of the share.
LEMMA ShareInvStep == ShareInv /\ [ShareNext]_shareVars => ShareInv'
<1> SUFFICES ASSUME ShareInv, [ShareNext]_shareVars PROVE ShareInv'
  OBVIOUS
<1> DEFINE n == Cardinality(Choosing)
<1>0. /\ age \in 0 .. MaxAges /\ shares \in 0 .. MaxShares /\ links \in Nat /\ n \in Nat
      /\ IsFiniteSet(Choosing) /\ links + n <= shares /\ MaxShares \in Nat /\ MaxAges \in Nat
  BY ShareConstants, FS_CardinalityType DEF ShareInv
<1>1. ASSUME NEW s \in Sharer, ReadsForShare(s)
      PROVE  ShareInv'
  <2> DEFINE r == [at |-> "id", link |-> 0, snapshot |-> age]
  <2>1. /\ sharer' = [sharer EXCEPT ![s] = r] /\ age' = age /\ share' = share /\ links' = links
        /\ sharer[s].at = "idle" /\ shares < MaxShares /\ shares' = shares + 1
    BY <1>1 DEF ReadsForShare, SharerGoes
  <2>2. /\ sharer' \in [Sharer -> Requesting(age')]
        /\ Choosing' = Choosing \cup {s}
    <3>1. r \in Requesting(age) /\ r.at = "id"
      BY <1>0 DEF Requesting
    <3> HIDE DEF r
    <3> QED
      BY <2>1, <3>1, SharerStep
  <2>3. s \notin Choosing
    BY <2>1 DEF Choosing
  <2>4. IsFiniteSet(Choosing') /\ Cardinality(Choosing') = n + 1
    BY <1>0, <2>2, <2>3, FS_AddElement
  <2> QED
    BY <1>0, <2>1, <2>2, <2>4 DEF ShareInv
<1>2. ASSUME NEW s \in Sharer, ChoosesLink(s)
      PROVE  ShareInv'
  <2> DEFINE link == IF share.link = 0 THEN links + 1 ELSE share.link
             r == [sharer[s] EXCEPT !.at = "upsert", !.link = link]
  <2>1. /\ sharer' = [sharer EXCEPT ![s] = r] /\ age' = age /\ share' = share /\ shares' = shares
        /\ sharer[s].at = "id" /\ links' \in {links, links + 1}
        /\ s \in Choosing
    BY <1>2 DEF ChoosesLink, SharerGoes, Choosing
  <2>2. IsFiniteSet(Choosing \ {s}) /\ Cardinality(Choosing \ {s}) = n - 1 /\ n # 0
    <3>1. IsFiniteSet(Choosing \ {s}) /\ Cardinality(Choosing \ {s}) = n - 1
      BY <1>0, <2>1, FS_RemoveElement
    <3>2. Cardinality(Choosing \ {s}) \in Nat
      BY <3>1, FS_CardinalityType
    <3> QED
      BY <1>0, <3>1, <3>2
  <2>3. link \in 0 .. MaxShares
    <3>1. share.link \in 0 .. MaxShares
      BY DEF ShareInv
    <3> QED
      BY <1>0, <2>2, <3>1
  <2> HIDE DEF link, n
  <2>4. /\ sharer' \in [Sharer -> Requesting(age')]
        /\ Choosing' = Choosing \ {s}
    <3>1. sharer[s] \in Requesting(age)
      BY DEF ShareInv
    <3>2. r \in Requesting(age) /\ r.at = "upsert"
      BY <2>3, <3>1 DEF Requesting
    <3> HIDE DEF r
    <3> QED
      BY <2>1, <3>2, SharerStep
  <2>5. links' \in Nat /\ links' + (n - 1) <= shares
    BY <1>0, <2>1, <2>2
  <2> QED
    BY <1>0, <2>1, <2>2, <2>4, <2>5 DEF ShareInv
<1>3. ASSUME NEW s \in Sharer, Upserts(s)
      PROVE  ShareInv'
  <2>1. /\ sharer' = [sharer EXCEPT ![s] = NoSharer] /\ age' = age
        /\ links' = links /\ shares' = shares
        /\ sharer[s].at = "upsert"
        /\ share' = [link |-> IF share.link = 0 THEN sharer[s].link ELSE share.link,
                     snapshot |-> sharer[s].snapshot]
    BY <1>3 DEF Upserts, SharerGoes
  <2>2. /\ sharer' \in [Sharer -> Requesting(age')]
        /\ Choosing' = Choosing \ {s}
    <3>1. NoSharer \in Requesting(age) /\ NoSharer.at = "idle"
      BY <1>0 DEF NoSharer, Requesting
    <3> QED
      BY <2>1, <3>1, SharerStep
  <2>3. Choosing' = Choosing
    BY <2>1, <2>2 DEF Choosing
  <2>4. share' \in [link : 0 .. MaxShares, snapshot : 0 .. age]
    <3>1. /\ sharer[s].link \in 0 .. MaxShares /\ sharer[s].snapshot \in 0 .. age
          /\ share.link \in 0 .. MaxShares
      BY DEF ShareInv, Requesting
    <3> QED
      BY <2>1, <3>1
  <2> QED
    BY <1>0, <2>1, <2>2, <2>3, <2>4 DEF ShareInv
<1>4. CASE MessagesChange
  <2>1. /\ age < MaxAges /\ age' = age + 1 /\ share' = share /\ sharer' = sharer
        /\ links' = links /\ shares' = shares
    BY <1>4 DEF MessagesChange
  <2>2. 0 .. age \subseteq 0 .. age' /\ age' \in 0 .. MaxAges
    BY <1>0, <2>1
  <2>3. share' \in [link : 0 .. MaxShares, snapshot : 0 .. age']
    BY <2>1, <2>2 DEF ShareInv
  <2>4. sharer' \in [Sharer -> Requesting(age')]
    BY <2>1, <2>2 DEF ShareInv, Requesting
  <2>5. Choosing' = Choosing
    BY <2>1 DEF Choosing
  <2> QED
    BY <1>0, <2>1, <2>2, <2>3, <2>4, <2>5 DEF ShareInv
<1>5. CASE Revokes
  <2>1. /\ share' = NoShare /\ shares < MaxShares /\ shares' = shares + 1 /\ age' = age
        /\ sharer' = sharer /\ links' = links
    BY <1>5 DEF Revokes
  <2>2. Choosing' = Choosing
    BY <2>1 DEF Choosing
  <2>3. NoShare \in [link : 0 .. MaxShares, snapshot : 0 .. age]
    BY <1>0 DEF NoShare
  <2> QED
    BY <1>0, <2>1, <2>2, <2>3 DEF ShareInv
<1>6. CASE UNCHANGED shareVars
  <2>1. Choosing' = Choosing
    BY <1>6 DEF Choosing, shareVars
  <2> QED
    BY <1>6, <2>1 DEF ShareInv, shareVars
<1> QED
  BY <1>1, <1>2, <1>3, <1>4, <1>5, <1>6 DEF ShareNext

\* The invariant bounds the links.
LEMMA ShareIsTyped == ShareInv => ShareTypeOK
<1> SUFFICES ASSUME ShareInv PROVE ShareTypeOK
  OBVIOUS
<1>1. 0 .. age \subseteq 0 .. MaxAges /\ age \in 0 .. MaxAges /\ shares \in 0 .. MaxShares
  BY ShareConstants DEF ShareInv
<1>2. Cardinality(Choosing) \in Nat
  BY FS_CardinalityType DEF ShareInv
<1>3. links \in 0 .. MaxShares
  BY <1>1, <1>2, ShareConstants DEF ShareInv
<1>4. share \in [link : 0 .. MaxShares, snapshot : 0 .. MaxAges] /\ share.snapshot <= age
  BY <1>1 DEF ShareInv
<1>5. sharer \in [Sharer -> Requesting(MaxAges)]
  BY <1>1 DEF ShareInv, Requesting
<1> QED
  BY <1>1, <1>3, <1>4, <1>5 DEF ShareTypeOK, Requesting

\* The requests to change the provider are counted.
PatchesFit == patches \in 0 .. MaxPatches

\* They start at none and stay within their bound.
LEMMA PatchesCount == /\ ChoiceInit => PatchesFit
                      /\ PatchesFit /\ [ChoiceNext]_choiceVars => PatchesFit'
<1>1. MaxPatches \in Nat
  BY ChoiceConstants
<1>2. ASSUME [ChoiceNext]_choiceVars
      PROVE  patches' = patches \/ (patches < MaxPatches /\ patches' = patches + 1)
  <2>1. ASSUME NEW r \in Patcher, Asks(r) PROVE patches < MaxPatches /\ patches' = patches + 1
    BY <2>1 DEF Asks
  <2>2. ASSUME NEW r \in Patcher, Writes(r) PROVE patches' = patches
    BY <2>2 DEF Writes
  <2>3. CASE UNCHANGED choiceVars
    BY <2>3 DEF choiceVars
  <2> QED
    BY <1>2, <2>1, <2>2, <2>3 DEF ChoiceNext
<1>3. PatchesFit /\ [ChoiceNext]_choiceVars => PatchesFit'
  BY <1>1, <1>2 DEF PatchesFit
<1>4. ChoiceInit => patches = 0
  BY DEF ChoiceInit
<1> QED
  BY <1>1, <1>3, <1>4 DEF PatchesFit

-----------------------------------------------------------------------------
(* Sequences one after the other *)

\* How FlattenSeq goes from one sequence to the next.
Flattens(f, ss, n) == f = [i \in 1 .. n |-> IF i = 1 THEN ss[i] ELSE f[i - 1] \o ss[i]]

\* A set of numbers that is not empty has a least one.
LEMMA LeastNat ==
  ASSUME NEW T, T \subseteq Nat, T # {}
  PROVE  \E n \in T : \A m \in T : n <= m
<1>1. PICK n \in T : \A m \in T : ~ (<<m, n>> \in OpToRel(<, Nat))
  BY WFMin, NatLessThanWellFounded
<1>2. \A m \in T : ~ (m < n)
  BY <1>1 DEF OpToRel
<1> QED
  BY <1>2

\* There is such a function for every number of sequences.
LEMMA FlattensExists ==
  ASSUME NEW ss, NEW n \in Nat
  PROVE  \E f : Flattens(f, ss, n)
<1> DEFINE Bad == {m \in 0 .. n : ~ \E f : Flattens(f, ss, m)}
<1> SUFFICES ASSUME Bad # {} PROVE FALSE
  OBVIOUS
<1>0. Bad \subseteq Nat
  OBVIOUS
<1>1. PICK m \in Bad : \A k \in Bad : m <= k
  <2> HIDE DEF Bad
  <2> QED
    BY <1>0, LeastNat
<1>2. m # 0
  <2>1. Flattens(<<>>, ss, 0)
    BY DEF Flattens
  <2> QED
    BY <1>1, <2>1
<1>3. PICK f : Flattens(f, ss, m - 1)
  BY <1>1, <1>2
<1> DEFINE g == [i \in 1 .. m |-> IF i = 1 THEN ss[i] ELSE f[i - 1] \o ss[i]]
<1>4. m \in Nat \ {0}
  BY <1>1, <1>2
<1>5. ASSUME NEW i \in 1 .. m, i # 1
      PROVE  g[i - 1] = f[i - 1]
  <2>1. i - 1 \in 1 .. m - 1 /\ i - 1 \in 1 .. m
    BY <1>4, <1>5
  <2>2. f[i - 1] = IF i - 1 = 1 THEN ss[i - 1] ELSE f[i - 1 - 1] \o ss[i - 1]
    BY <1>3, <2>1 DEF Flattens
  <2>3. g[i - 1] = IF i - 1 = 1 THEN ss[i - 1] ELSE f[i - 1 - 1] \o ss[i - 1]
    BY <2>1
  <2> QED
    BY <2>2, <2>3
<1>6. g = [i \in 1 .. m |-> IF i = 1 THEN ss[i] ELSE g[i - 1] \o ss[i]]
  <2> DEFINE h == [i \in 1 .. m |-> IF i = 1 THEN ss[i] ELSE g[i - 1] \o ss[i]]
  <2>1. \A i \in 1 .. m : g[i] = h[i]
    <3> SUFFICES ASSUME NEW i \in 1 .. m PROVE g[i] = h[i]
      OBVIOUS
    <3>1. g[i] = IF i = 1 THEN ss[i] ELSE f[i - 1] \o ss[i]
      OBVIOUS
    <3>2. h[i] = IF i = 1 THEN ss[i] ELSE g[i - 1] \o ss[i]
      OBVIOUS
    <3> HIDE DEF g, h
    <3> QED
      BY <1>5, <3>1, <3>2
  <2> QED
    BY <2>1
<1>7. Flattens(g, ss, m)
  <2> HIDE DEF g
  <2> QED
    BY <1>6 DEF Flattens
<1> QED
  BY <1>1, <1>7

\* What FlattenSeq is made of.
LEMMA FlattenIs ==
  ASSUME NEW ss, Len(ss) \in Nat \ {0}
  PROVE  \E f : Flattens(f, ss, Len(ss)) /\ FlattenSeq(ss) = f[Len(ss)]
<1> DEFINE n == Len(ss)
           f == CHOOSE f : f = [i \in 1 .. n |-> IF i = 1 THEN ss[i] ELSE f[i - 1] \o ss[i]]
<1>1. FlattenSeq(ss) = f[n]
  BY DEF FlattenSeq
<1>2. PICK g : Flattens(g, ss, n)
  BY FlattensExists
<1>3. g = [i \in 1 .. n |-> IF i = 1 THEN ss[i] ELSE g[i - 1] \o ss[i]]
  BY <1>2 DEF Flattens
<1>4. f = [i \in 1 .. n |-> IF i = 1 THEN ss[i] ELSE f[i - 1] \o ss[i]]
  BY <1>3
<1>5. Flattens(f, ss, n)
  BY <1>4 DEF Flattens
<1> QED
  BY <1>1, <1>5

\* Nothing is in the whole that was not in one of the sequences.
LEMMA FlattenStays ==
  ASSUME NEW S, NEW ss \in Seq(Seq(S))
  PROVE  FlattenSeq(ss) \in Seq(S)
<1> DEFINE n == Len(ss)
<1>0. n \in Nat /\ \A i \in 1 .. n : ss[i] \in Seq(S)
  OBVIOUS
<1>1. CASE n = 0
  <2>1. FlattenSeq(ss) = ss /\ ss = <<>>
    BY <1>1 DEF FlattenSeq
  <2> QED
    BY <2>1
<1>2. CASE n # 0
  <2>1. PICK f : Flattens(f, ss, n) /\ FlattenSeq(ss) = f[n]
    BY <1>0, <1>2, FlattenIs
  <2> DEFINE Bad == {m \in 1 .. n : f[m] \notin Seq(S)}
  <2>2. ASSUME Bad # {} PROVE FALSE
    <3>1. Bad \subseteq Nat
      OBVIOUS
    <3>2. PICK m \in Bad : \A k \in Bad : m <= k
      <4> HIDE DEF Bad
      <4> QED
        BY <2>2, <3>1, LeastNat
    <3>3. m \in 1 .. n /\ f[m] = IF m = 1 THEN ss[m] ELSE f[m - 1] \o ss[m]
      BY <2>1 DEF Flattens
    <3>4. m # 1
      BY <1>0, <3>2, <3>3
    <3>5. m - 1 \in 1 .. n /\ ~ (m <= m - 1)
      BY <1>0, <3>3, <3>4
    <3>6. f[m - 1] \in Seq(S)
      BY <3>2, <3>5
    <3>7. f[m] = f[m - 1] \o ss[m] /\ ss[m] \in Seq(S)
      BY <1>0, <3>3, <3>4
    <3>8. f[m - 1] \o ss[m] \in Seq(S)
      BY <3>6, <3>7, ConcatProperties
    <3> QED
      BY <3>2, <3>7, <3>8
  <2>3. n \in 1 .. n
    BY <1>0, <1>2
  <2> QED
    BY <2>1, <2>2, <2>3
<1> QED
  BY <1>1, <1>2

\* Sequences of one come to as many as they are.
LEMMA FlattenOfSingles ==
  ASSUME NEW S, NEW ss \in Seq(Seq(S)), \A i \in 1 .. Len(ss) : Len(ss[i]) = 1
  PROVE  /\ Len(FlattenSeq(ss)) = Len(ss)
         /\ Len(ss) = 1 => FlattenSeq(ss) = ss[1]
<1> DEFINE n == Len(ss)
<1>0. n \in Nat /\ \A i \in 1 .. n : ss[i] \in Seq(S)
  OBVIOUS
<1>1. CASE n = 0
  BY <1>1 DEF FlattenSeq
<1>2. CASE n # 0
  <2>1. PICK f : Flattens(f, ss, n) /\ FlattenSeq(ss) = f[n]
    BY <1>0, <1>2, FlattenIs
  <2> DEFINE Bad == {m \in 1 .. n : ~ (f[m] \in Seq(S) /\ Len(f[m]) = m)}
  <2>2. ASSUME Bad # {} PROVE FALSE
    <3>1. Bad \subseteq Nat
      OBVIOUS
    <3>2. PICK m \in Bad : \A k \in Bad : m <= k
      <4> HIDE DEF Bad
      <4> QED
        BY <2>2, <3>1, LeastNat
    <3>3. m \in 1 .. n /\ f[m] = IF m = 1 THEN ss[m] ELSE f[m - 1] \o ss[m]
      BY <2>1 DEF Flattens
    <3>4. m # 1
      BY <1>0, <3>2, <3>3
    <3>5. m - 1 \in 1 .. n /\ ~ (m <= m - 1)
      BY <1>0, <3>3, <3>4
    <3>6. f[m - 1] \in Seq(S) /\ Len(f[m - 1]) = m - 1
      BY <3>2, <3>5
    <3>7. f[m] = f[m - 1] \o ss[m] /\ ss[m] \in Seq(S) /\ Len(ss[m]) = 1
      BY <1>0, <3>3, <3>4
    <3>8. f[m - 1] \o ss[m] \in Seq(S) /\ Len(f[m - 1] \o ss[m]) = Len(f[m - 1]) + Len(ss[m])
      BY <3>6, <3>7, ConcatProperties
    <3>9. f[m] \in Seq(S) /\ Len(f[m]) = (m - 1) + 1
      BY <3>6, <3>7, <3>8
    <3>10. (m - 1) + 1 = m
      BY <3>3
    <3> QED
      BY <3>2, <3>3, <3>9, <3>10
  <2>3. n \in 1 .. n
    BY <1>0, <1>2
  <2>4. Len(f[n]) = n
    BY <2>2, <2>3
  <2>5. n = 1 => f[n] = ss[1]
    BY <2>1, <2>3 DEF Flattens
  <2> QED
    BY <2>1, <2>4, <2>5
<1> QED
  BY <1>1, <1>2

-----------------------------------------------------------------------------
(* The servers of a user, and those of a run *)

\* The pieces of a text.
Items == {"fits", "low", "wrong", "null"}
Words == Literal \cup Placeholder \cup Items \cup {"DIR", "HOME", "internal"}

\* Arguments that are not the placeholder of a configuration alone.
Kept == Seq(Words) \ {<<"user">>}

\* What is on a list.
ServerEntries ==
  [name : Server, enabled : BOOLEAN, transport : {"stdio", "http", "sse"},
   command : Seq(Words), args : Seq(Seq(Words)), link : BOOLEAN]

\* A value of the configuration.
ConfigValues == [many : BOOLEAN, items : Seq(Items)]

\* A table over the places of a sequence is a sequence.
LEMMA TableIsSeq ==
  ASSUME NEW S, NEW T, NEW text \in Seq(T), NEW f, f \in [DOMAIN text -> S]
  PROVE  f \in Seq(S) /\ Len(f) = Len(text)
<1>1. DOMAIN text = 1 .. Len(text) /\ Len(text) \in Nat
  BY LenProperties
<1>2. f \in Seq(S)
  BY <1>1, SeqDef
<1> QED
  BY <1>1, <1>2, LenProperties

\* What is substituted is a text, and it is the placeholder only if it was.
LEMMA SubstituteKeeps ==
  ASSUME NEW text \in Seq(Words), NEW value \in ConfigValues
  PROVE  /\ Substitute(text, value) \in Seq(Words)
         /\ text # <<"user">> => Substitute(text, value) \in Kept
<1> DEFINE Piece(i) == CASE text[i] = "dir" -> <<"DIR">>
                         [] text[i] = "home" -> <<"HOME">>
                         [] text[i] = "user" /\ value # Unset -> ValueText(value)
                         [] OTHER -> <<text[i]>>
           pieces == [i \in DOMAIN text |-> Piece(i)]
<1>1. Substitute(text, value) = FlattenSeq(pieces)
  BY DEF Substitute
<1>2. \A i \in DOMAIN text : text[i] \in Words
  OBVIOUS
<1>3. value.items \in Seq(Items)
  BY DEF ConfigValues
<1>4. CASE value # Unset
  <2> DEFINE T == Words \ {"user"}
  <2>0. value.items \in Seq(T)
    <3>1. Items \subseteq T
      BY DEF Items, Words
    <3> QED
      BY <1>3, <3>1
  <2>1. ASSUME NEW i \in DOMAIN text PROVE Piece(i) \in Seq(T)
    <3>1. CASE text[i] = "dir"
      BY <3>1 DEF Words
    <3>2. CASE text[i] = "home"
      BY <3>2 DEF Words
    <3>3. CASE text[i] = "user"
      BY <1>4, <2>0, <3>3 DEF ValueText
    <3>4. CASE text[i] \notin {"dir", "home", "user"}
      <4>1. Piece(i) = <<text[i]>>
        BY <3>4
      <4>2. text[i] \in T
        BY <1>2, <3>4
      <4> QED
        BY <4>1, <4>2
    <3> QED
      BY <3>1, <3>2, <3>3, <3>4
  <2>2. pieces \in [DOMAIN text -> Seq(T)]
    BY <2>1
  <2> HIDE DEF pieces
  <2>3. pieces \in Seq(Seq(T))
    BY <2>2, TableIsSeq
  <2> HIDE DEF T
  <2>4. FlattenSeq(pieces) \in Seq(T)
    BY <2>3, FlattenStays
  <2>5. FlattenSeq(pieces) \in Seq(Words) /\ FlattenSeq(pieces) # <<"user">>
    <3>1. ASSUME NEW t \in Seq(T) PROVE t \in Seq(Words) /\ t # <<"user">>
      <4>1. \A i \in 1 .. Len(t) : t[i] \in Words /\ t[i] # "user"
        BY <3>1 DEF T
      <4> QED
        BY <3>1, <4>1
    <3> QED
      BY <2>4, <3>1
  <2> QED
    BY <1>1, <2>5 DEF Kept
<1>5. CASE value = Unset
  <2>1. ASSUME NEW i \in DOMAIN text
        PROVE  /\ Piece(i) \in Seq(Words) /\ Len(Piece(i)) = 1
               /\ Piece(i) = <<"user">> => text[i] = "user"
    <3>1. CASE text[i] = "dir"
      BY <3>1 DEF Words
    <3>2. CASE text[i] = "home"
      BY <3>2 DEF Words
    <3>3. CASE text[i] \notin {"dir", "home"}
      BY <1>2, <1>5, <3>3
    <3> QED
      BY <3>1, <3>2, <3>3
  <2>2. pieces \in [DOMAIN text -> Seq(Words)]
    BY <2>1
  <2>3. \A i \in DOMAIN text : Len(pieces[i]) = 1
    BY <2>1
  <2>4. 1 \in DOMAIN text /\ pieces[1] = <<"user">> => text[1] = "user"
    BY <2>1
  <2> HIDE DEF pieces
  <2>5. pieces \in Seq(Seq(Words)) /\ Len(pieces) = Len(text)
    BY <2>2, TableIsSeq
  <2>6. \A i \in 1 .. Len(pieces) : Len(pieces[i]) = 1
    <3>1. DOMAIN text = 1 .. Len(text)
      OBVIOUS
    <3> QED
      BY <2>3, <2>5, <3>1
  <2>7. FlattenSeq(pieces) \in Seq(Words)
    BY <2>5, FlattenStays
  <2>8. /\ Len(FlattenSeq(pieces)) = Len(text)
        /\ Len(text) = 1 => FlattenSeq(pieces) = pieces[1]
    BY <2>5, <2>6, FlattenOfSingles
  <2>9. ASSUME FlattenSeq(pieces) = <<"user">> PROVE text = <<"user">>
    <3>1. Len(text) = 1 /\ pieces[1] = <<"user">>
      BY <2>8, <2>9
    <3>2. text[1] = "user"
      BY <2>4, <3>1
    <3> QED
      BY <3>1, <3>2
  <2> QED
    BY <1>1, <2>7, <2>9 DEF Kept
<1> QED
  BY <1>4, <1>5

\* The arguments of an entry are texts, and none is the placeholder alone.
LEMMA ArgumentsAreKept ==
  ASSUME NEW args \in Seq(Seq(Words)), NEW value \in ConfigValues
  PROVE  ResolvedArgs(args, value) \in Seq(Kept)
<1> DEFINE Piece(i) == CASE WholeRef(args[i]) /\ value = Unset -> <<>>
                         [] WholeRef(args[i]) /\ value # Unset -> ValueArgs(value)
                         [] OTHER -> <<Substitute(args[i], value)>>
           pieces == [i \in DOMAIN args |-> Piece(i)]
<1>1. ResolvedArgs(args, value) = FlattenSeq(pieces)
  BY DEF ResolvedArgs
<1>2. value.items \in Seq(Items)
  BY DEF ConfigValues
<1>3. ValueArgs(value) \in Seq(Kept)
  <2>1. ASSUME NEW i \in DOMAIN value.items PROVE <<value.items[i]>> \in Kept
    <3>1. value.items[i] \in Items
      BY <1>2
    <3> QED
      BY <3>1 DEF Items, Words, Kept
  <2>2. ValueArgs(value) \in [DOMAIN value.items -> Kept]
    BY <2>1 DEF ValueArgs
  <2> QED
    BY <1>2, <2>2, TableIsSeq
<1>4. ASSUME NEW i \in DOMAIN args PROVE Piece(i) \in Seq(Kept)
  <2>0. args[i] \in Seq(Words)
    OBVIOUS
  <2>1. CASE WholeRef(args[i])
    BY <1>3, <2>1
  <2>2. CASE ~ WholeRef(args[i])
    <3>1. Substitute(args[i], value) \in Kept
      BY <2>0, <2>2, SubstituteKeeps DEF WholeRef
    <3> QED
      BY <2>2, <3>1
  <2> QED
    BY <2>1, <2>2
<1>5. pieces \in [DOMAIN args -> Seq(Kept)]
  BY <1>4
<1> HIDE DEF pieces
<1>6. pieces \in Seq(Seq(Kept))
  BY <1>5, TableIsSeq
<1> QED
  BY <1>1, <1>6, FlattenStays

\* The texts and the arguments of a manifest.
Texts == Seq(Words)
Arguments == Seq(Texts)

\* What a manifest is made of.
ManifestIsPlain(m) ==
  /\ m.command \in Texts /\ m.args \in Arguments
  /\ m.override.command \in Texts \cup {NotGiven}
  /\ m.override.args \in Arguments \cup {<<NotGiven>>}
  /\ m.field.default \in ConfigValues

\* The values that a client sends.
LEMMA ValuesArePlain == Values \subseteq ConfigValues
<1>1. /\ "fits" \in Items /\ "low" \in Items /\ "wrong" \in Items /\ "null" \in Items
  BY DEF Items
<1>2. \A v \in Items : One(v) \in ConfigValues
  BY DEF One, ConfigValues
<1>3. Unset \in ConfigValues
  BY DEF Unset, ConfigValues
<1>4. /\ Some(<<>>) \in ConfigValues /\ Some(<<"fits", "fits">>) \in ConfigValues
      /\ Some(<<"fits", "null">>) \in ConfigValues
  BY <1>1 DEF Some, ConfigValues
<1> QED
  BY <1>1, <1>2, <1>3, <1>4 DEF Values

\* Every manifest is one of texts.
LEMMA ManifestsArePlain == \A m \in Manifests : ManifestIsPlain(m)
<1>1. "word" \in Words /\ "user" \in Words /\ "dir" \in Words /\ "home" \in Words
      /\ "other" \in Words
  BY DEF Words, Literal, Placeholder
<1>2. /\ Blank \in Texts /\ <<"user">> \in Texts /\ <<"word">> \in Texts
      /\ <<"dir", "word">> \in Texts /\ <<"word", "user">> \in Texts
      /\ <<"home", "other">> \in Texts
  BY <1>1 DEF Blank, Texts
<1>3. /\ <<>> \in Arguments /\ << <<"word", "user">> >> \in Arguments
      /\ << <<"user">>, <<"home", "other">> >> \in Arguments /\ << <<"user">> >> \in Arguments
  BY <1>2 DEF Arguments
<1>4. /\ Unset \in ConfigValues /\ One("fits") \in ConfigValues /\ One("low") \in ConfigValues
  BY ValuesArePlain DEF Values
<1>5. ASSUME NEW m \in Manifests PROVE ManifestIsPlain(m)
  <2>1. CASE m \in [name : {Browser}, type : {"python"},
                  entry : {"there", "escapes", "missing"}, command : {<<"dir", "word">>},
                  args : {<< <<"user">>, <<"home", "other">> >>},
                  override : {NoOverride, [command |-> Blank, args |-> <<NotGiven>>],
                              [command |-> <<"word">>, args |-> << <<"user">> >>]},
                  platform : BOOLEAN, field : Fields]
    <3>1. m.command = <<"dir", "word">> /\ m.args = << <<"user">>, <<"home", "other">> >>
      BY <2>1
    <3>2. m.override \in {NoOverride, [command |-> Blank, args |-> <<NotGiven>>],
                    [command |-> <<"word">>, args |-> << <<"user">> >>]}
      BY <2>1
    <3>3. /\ m.override.command \in {NotGiven, Blank, <<"word">>}
          /\ m.override.args \in {<<NotGiven>>, << <<"user">> >>}
      BY <3>2 DEF NoOverride
    <3>4. m.field \in Fields
      BY <2>1
    <3>5. m.field.default \in {Unset, One("fits"), One("low")}
      BY <3>4 DEF Fields
    <3> QED
      BY <1>2, <1>3, <1>4, <3>1, <3>3, <3>5 DEF ManifestIsPlain
  <2>2. CASE m \in [name : {Browser, "-bad"}, type : {"node", "binary", "uv", "odd"},
                  entry : {"none", "there"}, command : {Blank, <<"user">>},
                  args : {<<>>, << <<"word", "user">> >>}, override : {NoOverride},
                  platform : {TRUE},
                  field : {[kind |-> "string", required |-> FALSE, multiple |-> TRUE,
                            default |-> Unset]}]
    <3>1. m.command \in {Blank, <<"user">>} /\ m.args \in {<<>>, << <<"word", "user">> >>}
      BY <2>2
    <3>2. m.override = NoOverride
      BY <2>2
    <3>3. /\ m.override.command = NotGiven /\ m.override.args = <<NotGiven>>
      BY <3>2 DEF NoOverride
    <3>4. m.field = [kind |-> "string", required |-> FALSE, multiple |-> TRUE, default |-> Unset]
      BY <2>2
    <3>5. m.field.default = Unset
      BY <3>4
    <3> QED
      BY <1>2, <1>3, <1>4, <3>1, <3>3, <3>5 DEF ManifestIsPlain
  <2> QED
    BY <1>5, <2>1, <2>2 DEF Manifests
<1> QED
  BY <1>5

\* So is what is made of it.
LEMMA ConfigIsPlain ==
  ASSUME NEW m, ManifestIsPlain(m), ValidManifest(m)
  PROVE  EffectiveConfig(m).command \in Texts /\ EffectiveConfig(m).args \in Arguments
<1>1. /\ "node" \in Words /\ "python3" \in Words /\ "uv" \in Words /\ "run" \in Words
      /\ "--project" \in Words /\ "entry" \in Words /\ "dir" \in Words
  BY DEF Words, Literal, Placeholder
<1>2. /\ <<"node">> \in Texts /\ <<"python3">> \in Texts /\ <<"uv">> \in Texts
      /\ <<"run">> \in Texts /\ <<"--project">> \in Texts /\ <<"dir">> \in Texts
      /\ <<"dir", "entry">> \in Texts
  BY <1>1 DEF Texts
<1>3. /\ << <<"dir", "entry">> >> \in Arguments /\ <<>> \in Arguments
      /\ << <<"run">>, <<"--project">>, <<"dir">>, <<"dir", "entry">> >> \in Arguments
  BY <1>2 DEF Arguments
<1>4. Synthesized(m).command \in Texts /\ Synthesized(m).args \in Arguments
  <2>1. CASE m.type = "node"
    BY <1>2, <1>3, <2>1 DEF Synthesized
  <2>2. CASE m.type = "python"
    BY <1>2, <1>3, <2>2 DEF Synthesized
  <2>3. CASE m.type = "binary"
    BY <1>2, <1>3, <2>3 DEF Synthesized
  <2>4. CASE m.type = "uv"
    BY <1>2, <1>3, <2>4 DEF Synthesized
  <2> QED
    BY <2>1, <2>2, <2>3, <2>4 DEF ValidManifest
<1> DEFINE command == IF m.command = Blank THEN Synthesized(m).command ELSE m.command
           args == IF m.command = Blank /\ m.args = <<>> THEN Synthesized(m).args ELSE m.args
<1>5. command \in Texts /\ args \in Arguments
  BY <1>4 DEF ManifestIsPlain
<1>6. /\ EffectiveConfig(m).command
           = IF m.override.command = NotGiven THEN command ELSE m.override.command
      /\ EffectiveConfig(m).args
           = IF m.override.args = <<NotGiven>> THEN args ELSE m.override.args
  BY DEF EffectiveConfig
<1> HIDE DEF command, args
<1> QED
  BY <1>5, <1>6 DEF ManifestIsPlain

\* What an installation comes to is an entry of a list, without placeholders
\* for arguments.
LEMMA BundlesArePlain == \A e \in BundleEntries : e \in ServerEntries /\ e.args \in Seq(Kept)
<1> SUFFICES ASSUME NEW m \in Manifests, NEW v \in Values, Resolved(m, v) # NoEntry
             PROVE  Resolved(m, v) \in ServerEntries /\ Resolved(m, v).args \in Seq(Kept)
  BY DEF BundleEntries
<1> DEFINE config == EffectiveConfig(m)
           picked == ChosenValue(m.field, v)
           command == Substitute(config.command, picked)
           args == ResolvedArgs(config.args, picked)
<1>1. /\ Resolved(m, v) = Entry(m.name, TRUE, "stdio", command, args, FALSE)
      /\ ValidManifest(m)
  BY DEF Resolved
<1>2. ManifestIsPlain(m)
  BY ManifestsArePlain
<1>3. config.command \in Texts /\ config.args \in Arguments
  BY <1>1, <1>2, ConfigIsPlain
<1>4. picked \in ConfigValues
  BY <1>2, ValuesArePlain DEF ChosenValue, ManifestIsPlain
<1> HIDE DEF config, picked
<1>5. command \in Seq(Words)
  BY <1>3, <1>4, SubstituteKeeps DEF Texts
<1>6. args \in Seq(Kept)
  BY <1>3, <1>4, ArgumentsAreKept DEF Texts, Arguments
<1>7. m.name \in Server
  BY <1>1 DEF ValidManifest, ValidName
<1> HIDE DEF command, args
<1>8. Resolved(m, v).args = args
  BY <1>1 DEF Entry
<1>9. args \in Seq(Seq(Words))
  BY <1>6 DEF Kept
<1> QED
  BY <1>1, <1>5, <1>6, <1>7, <1>8, <1>9 DEF Entry, ServerEntries

\* A server of the name is on.
On(list, name) == \E i \in DOMAIN list : list[i].name = name /\ list[i].enabled

\* How an agent reaches a server, and what it knows of one.
Ways == Seq(Words) \cup {<<"http">>, <<"sse">>, OwnBinary, <<"own">>}
Knowns == [name : Server, on : BOOLEAN, by : Ways]

\* What a run has read, and what its agent got.
RunStates ==
  [at : {"none", "asked", "read", "runs"}, owner : BOOLEAN, web : BOOLEAN,
   list : Seq(ServerEntries), off : SUBSET Server, got : SUBSET Knowns]

\* Nothing of what is off is on the list, and no name is there twice.
ListIsFine(list, off) ==
  /\ \A i \in DOMAIN list : list[i].enabled => list[i].name \notin off
  /\ \A i, j \in DOMAIN list : list[i].name = list[j].name => list[i] = list[j]

\* The same of what an agent gets.
GotIsFine(got, off) ==
  \A e \in got :
    /\ e.on /\ e.by # <<"own">> => e.name \notin off
    /\ e.by # Internal
    /\ \A f \in got : e.name = f.name => e = f

\* A run has the promise of its send at each of its steps.
RunIsFine(r, list) ==
  /\ r.at = "asked" => \A n \in r.off : ~ On(list, n) /\ (n = Browser => ~ r.web)
  /\ r.at = "read" => ListIsFine(r.list, r.off)
  /\ r.at = "runs" => GotIsFine(r.got, r.off)
  /\ r.at # "runs" => r.got = {}

\* The list has entries, not too many, each with a name of its own.
ListFits ==
  /\ mcpList \in Seq(ServerEntries) /\ Len(mcpList) <= MaxServers
  /\ \A i, j \in DOMAIN mcpList : mcpList[i].name = mcpList[j].name => i = j

\* Each run keeps what its send was promised.
RunsFit ==
  /\ mcpRun \in [McpSend -> RunStates]
  /\ \A s \in McpSend : RunIsFine(mcpRun[s], mcpList)

\* The arguments of a bundle are no placeholders.
BundlesArePlaced ==
  /\ bundled \subseteq Server
  /\ \A i \in DOMAIN mcpList : mcpList[i].name \in bundled => mcpList[i].args \in Seq(Kept)

\* The inductive invariant of the servers.
McpInv ==
  /\ ListFits /\ RunsFit /\ BundlesArePlaced
  /\ webAccess \in BOOLEAN /\ mcpEdits \in 0 .. MaxMcpEdits

\* A run that is none promises nothing.
LEMMA NoRunFits == NoRun \in RunStates /\ \A list : RunIsFine(NoRun, list)
  BY DEF NoRun, RunStates, RunIsFine

\* The servers start with their invariant.
LEMMA McpInvInit == McpInit => McpInv
<1> SUFFICES ASSUME McpInit PROVE McpInv
  OBVIOUS
<1> USE McpConstants
<1>1. ASSUME NEW n \in Server
      PROVE  Entry(n, TRUE, "stdio", <<"word">>, <<>>, FALSE) \in ServerEntries
  <2>1. <<"word">> \in Seq(Words)
    BY DEF Words, Literal
  <2> QED
    BY <2>1 DEF Entry, ServerEntries
<1>2. ListFits
  <2>1. CASE mcpList = <<>>
    BY <2>1 DEF ListFits
  <2>2. CASE mcpList # <<>>
    <3>1. PICK n \in Server : mcpList = <<Entry(n, TRUE, "stdio", <<"word">>, <<>>, FALSE)>>
      BY <2>2 DEF McpInit
    <3> DEFINE e == Entry(n, TRUE, "stdio", <<"word">>, <<>>, FALSE)
    <3>2. mcpList = <<e>> /\ e \in ServerEntries
      BY <1>1, <3>1
    <3> HIDE DEF e
    <3>3. mcpList \in Seq(ServerEntries) /\ Len(mcpList) = 1
      BY <3>2
    <3> QED
      BY <3>3 DEF ListFits
  <2> QED
    BY <2>1, <2>2
<1>3. RunsFit
  BY NoRunFits DEF McpInit, RunsFit
<1> QED
  <2>1. webAccess \in BOOLEAN
    BY DEF McpInit
  <2>2. mcpEdits \in 0 .. MaxMcpEdits
    BY DEF McpInit
  <2>3. BundlesArePlaced
    BY DEF McpInit, BundlesArePlaced
  <2> QED
    BY <1>2, <1>3, <2>1, <2>2, <2>3 DEF McpInv

\* The server found under a name is on exactly if one of the name is.
LEMMA FindIs ==
  ASSUME NEW list \in Seq(ServerEntries), NEW n,
         \A i, j \in DOMAIN list : list[i].name = list[j].name => i = j
  PROVE  /\ Find(list, n).enabled \in BOOLEAN
         /\ Find(list, n).enabled <=> On(list, n)
         /\ n \in NamesOf(list) => Find(list, n) # NoEntry
         /\ \A i \in DOMAIN list : list[i].name = n => Find(list, n) = list[i]
         /\ n \notin NamesOf(list) => Find(list, n).args = <<>>
<1>0. \A i \in DOMAIN list : list[i] \in ServerEntries
  OBVIOUS
<1>1. CASE n \in NamesOf(list)
  <2>1. PICK i \in DOMAIN list : list[i].name = n /\ Find(list, n) = list[i]
    BY <1>1 DEF NamesOf, Find
  <2>2. list[i] \in ServerEntries
    BY <1>0, <2>1
  <2>3. list[i].enabled \in BOOLEAN /\ list[i].transport # "none"
    BY <2>2 DEF ServerEntries
  <2>4. NoEntry.transport = "none"
    BY DEF NoEntry, Entry
  <2>5. list[i].enabled <=> On(list, n)
    BY <2>1 DEF On
  <2> QED
    BY <1>1, <2>1, <2>3, <2>4, <2>5
<1>2. CASE n \notin NamesOf(list)
  <2>1. Find(list, n).enabled = FALSE /\ Find(list, n).args = <<>>
    BY <1>2 DEF Find, NoEntry, Entry
  <2>2. ~ On(list, n) /\ \A i \in DOMAIN list : list[i].name # n
    BY <1>2 DEF On, NamesOf
  <2> QED
    BY <1>2, <2>1, <2>2
<1> QED
  BY <1>1, <1>2

\* The servers of a list that have another name.
Others(list, name) ==
  {e \in ServerEntries : e.name # name /\ \E i \in DOMAIN list : e = list[i]}

\* retain keeps them, and nothing else.
LEMMA WithoutKeeps ==
  ASSUME NEW list \in Seq(ServerEntries), NEW name
  PROVE  Without(list, name) \in Seq(Others(list, name))
<1> DEFINE S == Others(list, name)
           Piece(i) == IF list[i].name = name THEN <<>> ELSE <<list[i]>>
           pieces == [i \in DOMAIN list |-> Piece(i)]
<1>1. Without(list, name) = FlattenSeq(pieces)
  BY DEF Without
<1>2. ASSUME NEW i \in DOMAIN list PROVE Piece(i) \in Seq(S)
  <2>1. CASE list[i].name = name
    BY <2>1
  <2>2. CASE list[i].name # name
    <3>1. list[i] \in S
      BY <2>2 DEF Others
    <3> HIDE DEF S
    <3> QED
      BY <2>2, <3>1
  <2> QED
    BY <2>1, <2>2
<1>3. pieces \in [DOMAIN list -> Seq(S)]
  BY <1>2
<1> HIDE DEF pieces, S
<1>4. pieces \in Seq(Seq(S))
  BY <1>3, TableIsSeq
<1> QED
  BY <1>1, <1>4, FlattenStays DEF S

\* A server is put at the end of the others.
LEMMA PutLast ==
  ASSUME NEW list \in Seq(ServerEntries), NEW name, NEW e \in ServerEntries
  PROVE  LET made == Append(Without(list, name), e)
         IN /\ made \in Seq(ServerEntries)
            /\ \A i \in DOMAIN made : made[i] = e \/ made[i] \in Others(list, name)
<1> DEFINE rest == Without(list, name)
           made == Append(rest, e)
<1>1. rest \in Seq(Others(list, name))
  BY WithoutKeeps
<1> HIDE DEF rest
<1>2. rest \in Seq(ServerEntries)
  <2>1. Others(list, name) \subseteq ServerEntries
    BY DEF Others
  <2> QED
    BY <1>1, <2>1
<1>3. made \in Seq(ServerEntries)
  BY <1>2
<1>4. ASSUME NEW i \in DOMAIN made PROVE made[i] = e \/ made[i] \in Others(list, name)
  <2>1. i \in 1 .. Len(rest) + 1 /\ Len(rest) \in Nat
    BY <1>1, <1>4
  <2>2. CASE i = Len(rest) + 1
    BY <1>1, <2>2
  <2>3. CASE i # Len(rest) + 1
    BY <1>1, <2>1, <2>3
  <2> QED
    BY <2>2, <2>3
<1> QED
  BY <1>3, <1>4 DEF rest

\* What a change of the settings leaves to the runs to come.
LEMMA SwitchStep ==
  ASSUME McpInv, NEW names, SwitchesOn(names),
         \A n \in Server : On(mcpList', n) => On(mcpList, n) \/ n \in names
  PROVE  RunsFit'
<1>1. ASSUME NEW s \in McpSend
      PROVE  mcpRun'[s] \in RunStates /\ RunIsFine(mcpRun'[s], mcpList')
  <2> DEFINE r == mcpRun[s]
  <2>1. r \in RunStates /\ RunIsFine(r, mcpList)
    BY DEF McpInv, RunsFit
  <2>2. mcpRun'[s] = [r EXCEPT !.off = IF r.at = "runs" THEN r.off ELSE r.off \ names]
    BY DEF SwitchesOn
  <2> HIDE DEF r
  <2>3. r.off \in SUBSET Server
    BY <2>1 DEF RunStates
  <2>4. CASE r.at = "runs"
    <3>1. mcpRun'[s] = r
      BY <2>1, <2>2, <2>4 DEF RunStates
    <3> QED
      BY <2>1, <2>4, <3>1 DEF RunIsFine
  <2>5. CASE r.at # "runs"
    <3>1. mcpRun'[s] = [r EXCEPT !.off = r.off \ names]
      BY <2>2, <2>5
    <3>2. mcpRun'[s] \in RunStates
      BY <2>1, <2>3, <3>1 DEF RunStates
    <3>3. /\ mcpRun'[s].at = r.at /\ mcpRun'[s].web = r.web /\ mcpRun'[s].list = r.list
          /\ mcpRun'[s].got = r.got /\ mcpRun'[s].off = r.off \ names
      BY <2>1, <3>1 DEF RunStates
    <3>4. ASSUME r.at = "asked", NEW n \in r.off \ names
          PROVE  ~ On(mcpList', n) /\ (n = Browser => ~ r.web)
      BY <2>1, <2>3, <3>4 DEF RunIsFine
    <3>5. ASSUME r.at = "read" PROVE ListIsFine(r.list, r.off \ names)
      BY <2>1, <3>5 DEF RunIsFine, ListIsFine
    <3>6. r.got = {}
      BY <2>1, <2>5 DEF RunIsFine
    <3> QED
      BY <2>5, <3>2, <3>3, <3>4, <3>5, <3>6 DEF RunIsFine
  <2> QED
    BY <2>4, <2>5
<1>2. mcpRun' = [s \in McpSend |-> mcpRun'[s]]
  BY DEF SwitchesOn
<1> QED
  BY <1>1, <1>2 DEF RunsFit

\* A list that is valid, of entries that may be on one.
LEMMA ValidFits ==
  ASSUME NEW list, ValidServers(list),
         \E S : list \in Seq(S) /\ \A e \in S : ValidServer(e) => e \in ServerEntries
  PROVE  /\ list \in Seq(ServerEntries) /\ Len(list) <= MaxServers
         /\ \A i, j \in DOMAIN list : list[i].name = list[j].name => i = j
<1>1. PICK S : list \in Seq(S) /\ \A e \in S : ValidServer(e) => e \in ServerEntries
  OBVIOUS
<1>2. \A i \in 1 .. Len(list) : list[i] \in ServerEntries
  BY <1>1 DEF ValidServers
<1>3. list \in Seq(ServerEntries)
  BY <1>1, <1>2
<1> QED
  BY <1>3 DEF ValidServers

\* What a client offers is an entry, if it is valid.
LEMMA OffersFit == \A e \in Offered : ValidServer(e) => e \in ServerEntries
<1> SUFFICES ASSUME NEW e \in Offered, ValidServer(e) PROVE e \in ServerEntries
  OBVIOUS
<1>1. Blank \in Seq(Words) /\ <<"word">> \in Seq(Words) /\ Internal \in Seq(Words)
  BY DEF Blank, Internal, Words, Literal
<1>2. e.name \in Server /\ e.transport \in {"stdio", "http", "sse"}
  BY DEF ValidServer, ValidName
<1>3. <<>> \in Seq(Seq(Words))
  OBVIOUS
<1>4. CASE e \in [name : Names, enabled : BOOLEAN, transport : {"stdio"},
                command : {<<"word">>}, args : {<<>>}, link : {FALSE}]
  BY <1>1, <1>2, <1>3, <1>4 DEF ServerEntries
<1>5. CASE e \in [name : {Browser}, enabled : {TRUE}, transport : {"sse", "odd"},
                command : {Blank}, args : {<<>>}, link : BOOLEAN]
  BY <1>1, <1>2, <1>3, <1>5 DEF ServerEntries
<1>6. CASE e \in {Entry(Browser, TRUE, "stdio", c, <<>>, FALSE) : c \in {Blank, Internal}}
  <2>1. PICK c \in {Blank, Internal} : e = Entry(Browser, TRUE, "stdio", c, <<>>, FALSE)
    BY <1>6
  <2>2. c \in Seq(Words) /\ Browser \in Server
    BY <1>1, McpConstants
  <2> QED
    BY <1>3, <2>1, <2>2 DEF ServerEntries, Entry
<1>7. CASE e = Entry(Browser, TRUE, "stdio", <<"word">>, << <<"user">> >>, FALSE)
  <2>1. <<"user">> \in Seq(Words)
    BY DEF Words, Placeholder
  <2>2. << <<"user">> >> \in Seq(Seq(Words)) /\ Browser \in Server
    BY <2>1, McpConstants
  <2> QED
    BY <1>1, <1>7, <2>2 DEF ServerEntries, Entry
<1> QED
  BY <1>4, <1>5, <1>6, <1>7 DEF Offered

\* A list that is put in its place, if it is valid, with its switches.
LEMMA SetServersStep ==
  ASSUME McpInv, SetMcpServers
  PROVE  McpInv'
<1>1. PICK list \in {<<>>} \cup {<<e>> : e \in Offered} \cup {Append(mcpList, e) : e \in Offered}
                 \cup {<<[mcpList[i] EXCEPT !.enabled = ~ @]>> : i \in DOMAIN mcpList} :
         /\ mcpList' = IF ValidServers(list) THEN list ELSE mcpList
         /\ bundled' = {n \in bundled \cap NamesOf(mcpList') :
                         Find(mcpList', n).args = Find(mcpList, n).args}
         /\ SwitchesOn({n \in Server : Find(mcpList', n).enabled})
  BY DEF SetMcpServers
<1>2. ListFits'
  <2>1. CASE ~ ValidServers(list)
    BY <1>1, <2>1 DEF McpInv, ListFits
  <2>2. CASE ValidServers(list)
    <3> DEFINE S == Offered \cup ServerEntries
    <3>1. \A e \in S : ValidServer(e) => e \in ServerEntries
      BY OffersFit
    <3>2. mcpList \in Seq(ServerEntries)
      BY DEF McpInv, ListFits
    <3>3. list \in Seq(S)
      <4>1. CASE list = <<>>
        BY <4>1
      <4>2. CASE list \in {<<e>> : e \in Offered}
        <5>1. PICK e \in Offered : list = <<e>>
          BY <4>2
        <5>2. e \in S
          OBVIOUS
        <5> HIDE DEF S
        <5> QED
          BY <5>1, <5>2
      <4>3. CASE list \in {Append(mcpList, e) : e \in Offered}
        <5>1. PICK e \in Offered : list = Append(mcpList, e)
          BY <4>3
        <5>2. mcpList \in Seq(S)
          BY <3>2
        <5> HIDE DEF Offered
        <5> QED
          BY <5>1, <5>2
      <4>4. CASE list \in {<<[mcpList[i] EXCEPT !.enabled = ~ @]>> : i \in DOMAIN mcpList}
        <5>1. PICK i \in DOMAIN mcpList :
                 list = <<[mcpList[i] EXCEPT !.enabled = ~ mcpList[i].enabled]>>
          BY <4>4
        <5>2. mcpList[i] \in ServerEntries
          BY <3>2
        <5>3. [mcpList[i] EXCEPT !.enabled = ~ mcpList[i].enabled] \in ServerEntries
          BY <5>2 DEF ServerEntries
        <5> QED
          BY <5>1, <5>3
      <4> QED
        BY <4>1, <4>2, <4>3, <4>4
    <3> HIDE DEF S
    <3>4. /\ list \in Seq(ServerEntries) /\ Len(list) <= MaxServers
          /\ \A i, j \in DOMAIN list : list[i].name = list[j].name => i = j
      BY <2>2, <3>1, <3>3, ValidFits
    <3> QED
      BY <1>1, <2>2, <3>4 DEF ListFits
  <2> QED
    BY <2>1, <2>2
<1>3. \A n \in Server : On(mcpList', n) => Find(mcpList', n).enabled
  BY <1>2, FindIs DEF ListFits
<1>4. RunsFit'
  <2> DEFINE names == {n \in Server : Find(mcpList', n).enabled}
  <2>1. SwitchesOn(names)
    BY <1>1
  <2>2. \A n \in Server : On(mcpList', n) => n \in names
    BY <1>3
  <2> HIDE DEF names
  <2> QED
    BY <2>1, <2>2, SwitchStep
<1>5. webAccess' \in BOOLEAN
  BY DEF McpInv, SetMcpServers
<1>6. mcpEdits' \in 0 .. MaxMcpEdits
  BY McpConstants DEF McpInv, SetMcpServers, CountMcpEdit
<1>7. BundlesArePlaced'
  <2>1. bundled' \subseteq bundled /\ bundled \subseteq Server
    BY <1>1 DEF McpInv, BundlesArePlaced
  <2>2. ASSUME NEW i \in DOMAIN mcpList', mcpList'[i].name \in bundled'
        PROVE  mcpList'[i].args \in Seq(Kept)
    <3> DEFINE n == mcpList'[i].name
    <3>1. n \in bundled /\ Find(mcpList', n).args = Find(mcpList, n).args
      BY <1>1, <2>2
    <3>2. Find(mcpList', n) = mcpList'[i]
      BY <1>2, FindIs DEF ListFits
    <3>3. CASE n \in NamesOf(mcpList)
      <4>1. PICK k \in DOMAIN mcpList : mcpList[k].name = n
        BY <3>3 DEF NamesOf
      <4>2. Find(mcpList, n) = mcpList[k]
        BY <4>1, FindIs DEF McpInv, ListFits
      <4>3. mcpList[k].args \in Seq(Kept)
        BY <3>1, <4>1 DEF McpInv, BundlesArePlaced
      <4> QED
        BY <3>1, <3>2, <4>2, <4>3
    <3>4. CASE n \notin NamesOf(mcpList)
      <4>1. Find(mcpList, n).args = <<>>
        BY <3>4, FindIs DEF McpInv, ListFits
      <4>2. <<>> \in Seq(Kept)
        OBVIOUS
      <4>3. mcpList'[i].args = <<>>
        BY <3>1, <3>2, <4>1
      <4> QED
        BY <4>2, <4>3
    <3> QED
      BY <3>3, <3>4
  <2> QED
    BY <2>1, <2>2 DEF BundlesArePlaced
<1> QED
  BY <1>2, <1>4, <1>5, <1>6, <1>7 DEF McpInv

\* A bundle takes the place, and the switch, of the server of its name.
LEMMA InstallStep ==
  ASSUME McpInv, InstallMcpb
  PROVE  McpInv'
<1>1. PICK entry \in BundleEntries :
         /\ IF ValidServers(Merge(mcpList, entry))
            THEN mcpList' = Merge(mcpList, entry) /\ bundled' = bundled \cup {entry.name}
            ELSE UNCHANGED <<mcpList, bundled>>
         /\ SwitchesOn({entry.name} \ NamesOf(mcpList))
  BY DEF InstallMcpb
<1> DEFINE old == Find(mcpList, entry.name)
           new == IF old = NoEntry THEN entry ELSE [entry EXCEPT !.enabled = old.enabled]
           made == Append(Without(mcpList, entry.name), new)
<1>2. /\ mcpList \in Seq(ServerEntries) /\ Len(mcpList) <= MaxServers
      /\ \A i, j \in DOMAIN mcpList : mcpList[i].name = mcpList[j].name => i = j
  BY DEF McpInv, ListFits
<1>3. entry \in ServerEntries /\ entry.args \in Seq(Kept)
  BY <1>1, BundlesArePlain
<1>a. old.enabled \in BOOLEAN
  BY <1>2, FindIs
<1>4. /\ old.enabled <=> On(mcpList, entry.name)
      /\ entry.name \in NamesOf(mcpList) => old # NoEntry
  BY <1>2, FindIs
<1> HIDE DEF old
<1>5. /\ new \in ServerEntries /\ new.name = entry.name /\ new.args = entry.args
      /\ old # NoEntry => new.enabled = old.enabled
  <2>1. CASE old = NoEntry
    BY <1>3, <2>1
  <2>2. CASE old # NoEntry
    <3>1. new = [entry EXCEPT !.enabled = old.enabled]
      BY <2>2
    <3> HIDE DEF new
    <3> QED
      <4>1. [entry EXCEPT !.enabled = old.enabled] \in ServerEntries
        <5>1. \A b \in BOOLEAN : [entry EXCEPT !.enabled = b] \in ServerEntries
          BY <1>3 DEF ServerEntries
        <5> QED
          BY <1>a, <5>1
      <4>2. /\ [entry EXCEPT !.enabled = old.enabled].name = entry.name
            /\ [entry EXCEPT !.enabled = old.enabled].args = entry.args
            /\ [entry EXCEPT !.enabled = old.enabled].enabled = old.enabled
        BY <1>3 DEF ServerEntries
      <4> QED
        BY <3>1, <4>1, <4>2
  <2> QED
    BY <2>1, <2>2
<1> HIDE DEF new
<1>6. /\ made \in Seq(ServerEntries)
      /\ \A i \in DOMAIN made : made[i] = new \/ made[i] \in Others(mcpList, entry.name)
  BY <1>2, <1>5, PutLast
<1>7. Merge(mcpList, entry) = made
  BY DEF Merge, old, new
<1> HIDE DEF made
<1>8. /\ mcpList' = IF ValidServers(made) THEN made ELSE mcpList
      /\ bundled' = IF ValidServers(made) THEN bundled \cup {entry.name} ELSE bundled
  BY <1>1, <1>7
<1>9. ListFits'
  <2>1. CASE ~ ValidServers(made)
    BY <1>2, <1>8, <2>1 DEF ListFits
  <2>2. CASE ValidServers(made)
    BY <1>6, <1>8, <2>2 DEF ListFits, ValidServers
  <2> QED
    BY <2>1, <2>2
<1>10. ASSUME NEW n \in Server, On(made, n)
       PROVE  On(mcpList, n) \/ n \in {entry.name} \ NamesOf(mcpList)
  <2>1. PICK i \in DOMAIN made : made[i].name = n /\ made[i].enabled
    BY <1>10 DEF On
  <2>2. CASE made[i] = new
    <3>1. n = entry.name
      BY <1>5, <2>1, <2>2
    <3>2. CASE n \in NamesOf(mcpList)
      BY <1>4, <1>5, <2>1, <2>2, <3>1, <3>2
    <3> QED
      BY <3>1, <3>2
  <2>3. CASE made[i] \in Others(mcpList, entry.name)
    <3>1. PICK j \in DOMAIN mcpList : made[i] = mcpList[j]
      BY <2>3 DEF Others
    <3> QED
      BY <2>1, <3>1 DEF On
  <2> QED
    BY <1>6, <2>2, <2>3
<1>11. RunsFit'
  <2>1. \A n \in Server : On(mcpList', n) => On(mcpList, n) \/ n \in {entry.name} \ NamesOf(mcpList)
    BY <1>8, <1>10
  <2> QED
    BY <1>1, <2>1, SwitchStep
<1>12. webAccess' \in BOOLEAN
  BY DEF McpInv, InstallMcpb
<1>13. mcpEdits' \in 0 .. MaxMcpEdits
  BY McpConstants DEF McpInv, InstallMcpb, CountMcpEdit
<1>14. BundlesArePlaced'
  <2>1. BundlesArePlaced /\ entry.name \in Server
    BY <1>3 DEF McpInv, ServerEntries
  <2>2. CASE ~ ValidServers(made)
    BY <1>8, <2>1, <2>2 DEF BundlesArePlaced
  <2>3. CASE ValidServers(made)
    <3>1. ASSUME NEW i \in DOMAIN made, made[i].name \in bundled \cup {entry.name}
          PROVE  made[i].args \in Seq(Kept)
      <4>1. CASE made[i] = new
        BY <1>3, <1>5, <4>1
      <4>2. CASE made[i] \in Others(mcpList, entry.name)
        <5>1. made[i].name # entry.name
          BY <4>2 DEF Others
        <5>2. PICK j \in DOMAIN mcpList : made[i] = mcpList[j]
          BY <4>2 DEF Others
        <5> QED
          BY <2>1, <3>1, <5>1, <5>2 DEF BundlesArePlaced
      <4> QED
        BY <1>6, <4>1, <4>2
    <3>2. mcpList' = made /\ bundled' = bundled \cup {entry.name}
      BY <1>8, <2>3
    <3>3. bundled \cup {entry.name} \subseteq Server
      BY <2>1 DEF BundlesArePlaced
    <3> QED
      BY <3>1, <3>2, <3>3 DEF BundlesArePlaced
  <2> QED
    BY <2>2, <2>3
<1> QED
  BY <1>9, <1>11, <1>12, <1>13, <1>14 DEF McpInv

\* The list of a run: what is off is not on it, and no name is there twice.
LEMMA BrowserKeeps ==
  ASSUME NEW list \in Seq(ServerEntries), NEW off, NEW web \in BOOLEAN,
         \A i, j \in DOMAIN list : list[i].name = list[j].name => i = j,
         \A n \in off : ~ On(list, n) /\ (n = Browser => ~ web)
  PROVE  /\ WithBrowser(list, web) \in Seq(ServerEntries)
         /\ ListIsFine(WithBrowser(list, web), off)
<1>1. CASE ~ web \/ Find(list, Browser).enabled
  <2>1. WithBrowser(list, web) = list
    BY <1>1 DEF WithBrowser
  <2>2. \A i \in DOMAIN list : list[i].enabled => list[i].name \notin off
    BY DEF On
  <2> QED
    BY <2>1, <2>2 DEF ListIsFine
<1>2. CASE web /\ ~ Find(list, Browser).enabled
  <2>1. BuiltinBrowser \in ServerEntries /\ BuiltinBrowser.name = Browser
    <3>1. Internal \in Seq(Words)
      BY DEF Internal, Words
    <3>2. Browser \in Server
      BY McpConstants
    <3> QED
      BY <3>1, <3>2 DEF BuiltinBrowser, Entry, ServerEntries
  <2> DEFINE made == Append(Without(list, Browser), BuiltinBrowser)
  <2>2. WithBrowser(list, web) = made
    BY <1>2 DEF WithBrowser
  <2>3. /\ made \in Seq(ServerEntries)
        /\ \A i \in DOMAIN made : made[i] = BuiltinBrowser \/ made[i] \in Others(list, Browser)
    BY <2>1, PutLast
  <2> HIDE DEF made
  <2>4. ASSUME NEW i \in DOMAIN made, made[i].enabled
        PROVE  made[i].name \notin off
    <3>1. CASE made[i] = BuiltinBrowser
      BY <1>2, <2>1, <3>1
    <3>2. CASE made[i] \in Others(list, Browser)
      <4>1. PICK j \in DOMAIN list : made[i] = list[j]
        BY <3>2 DEF Others
      <4> QED
        BY <2>4, <4>1 DEF On
    <3> QED
      BY <2>3, <3>1, <3>2
  <2>5. ASSUME NEW i \in DOMAIN made, NEW j \in DOMAIN made, made[i].name = made[j].name
        PROVE  made[i] = made[j]
    <3>1. CASE made[i] \in Others(list, Browser) /\ made[j] \in Others(list, Browser)
      <4>1. PICK k \in DOMAIN list : made[i] = list[k]
        BY <3>1 DEF Others
      <4>2. PICK l \in DOMAIN list : made[j] = list[l]
        BY <3>1 DEF Others
      <4>3. k = l
        BY <2>5, <4>1, <4>2
      <4> QED
        BY <4>1, <4>2, <4>3
    <3>2. CASE made[i] = BuiltinBrowser /\ made[j] = BuiltinBrowser
      BY <3>2
    <3>3. CASE made[i] = BuiltinBrowser /\ made[j] \in Others(list, Browser)
      BY <2>1, <2>5, <3>3 DEF Others
    <3>4. CASE made[j] = BuiltinBrowser /\ made[i] \in Others(list, Browser)
      BY <2>1, <2>5, <3>4 DEF Others
    <3> QED
      BY <2>3, <3>1, <3>2, <3>3, <3>4
  <2> QED
    BY <2>2, <2>3, <2>4, <2>5 DEF ListIsFine
<1> QED
  BY <1>1, <1>2

\* A step of a run that leaves the settings as they are.
LEMMA RunStep ==
  ASSUME McpInv, NEW s \in McpSend, NEW r \in RunStates, RunIsFine(r, mcpList),
         mcpRun' = [mcpRun EXCEPT ![s] = r], UNCHANGED <<mcpList, webAccess, bundled, mcpEdits>>
  PROVE  McpInv'
<1>1. mcpRun \in [McpSend -> RunStates] /\ \A t \in McpSend : RunIsFine(mcpRun[t], mcpList)
  BY DEF McpInv, RunsFit
<1>2. mcpRun' \in [McpSend -> RunStates]
  BY <1>1
<1>3. \A t \in McpSend : RunIsFine(mcpRun'[t], mcpList)
  BY <1>1
<1> QED
  BY <1>2, <1>3 DEF McpInv, RunsFit, ListFits, BundlesArePlaced

\* A send has read its user: what is off then is what its run must not have.
LEMMA AskedStep ==
  ASSUME McpInv, NEW s \in McpSend, SendIsAsked(s)
  PROVE  McpInv'
<1>1. PICK owner \in BOOLEAN :
        mcpRun' = [mcpRun EXCEPT ![s] =
         [NoRun EXCEPT !.at = "asked", !.owner = owner, !.web = webAccess,
            !.off = {n \in Server : ~ Find(mcpList, n).enabled
                                    /\ (n = Browser => ~ webAccess)}]]
  BY DEF SendIsAsked
<1> DEFINE off == {n \in Server : ~ Find(mcpList, n).enabled /\ (n = Browser => ~ webAccess)}
           r == [NoRun EXCEPT !.at = "asked", !.owner = owner, !.web = webAccess, !.off = off]
<1>2. webAccess \in BOOLEAN
  BY DEF McpInv
<1>3. \A n \in off : ~ On(mcpList, n) /\ (n = Browser => ~ webAccess)
  BY FindIs DEF McpInv, ListFits
<1>4. off \subseteq Server
  OBVIOUS
<1>5. mcpRun' = [mcpRun EXCEPT ![s] = r]
  BY <1>1
<1> HIDE DEF off
<1>6. r \in RunStates
  <2>1. NoRun \in RunStates
    BY NoRunFits
  <2> QED
    BY <1>2, <1>4, <2>1 DEF RunStates
<1>7. r.at = "asked" /\ r.got = {} /\ r.off = off /\ r.web = webAccess
  BY DEF NoRun
<1> HIDE DEF r
<1>8. RunIsFine(r, mcpList)
  BY <1>3, <1>7 DEF RunIsFine
<1> QED
  BY <1>5, <1>6, <1>8, RunStep DEF SendIsAsked

\* A send has read the list, with the browser if its user has it on.
LEMMA ReadsStep ==
  ASSUME McpInv, NEW s \in McpSend, SendReadsServers(s)
  PROVE  McpInv'
<1> DEFINE o == mcpRun[s]
<1>0. o \in RunStates /\ RunIsFine(o, mcpList) /\ o.at = "asked"
  BY DEF McpInv, RunsFit, SendReadsServers
<1>1. PICK list \in {mcpList, <<>>} :
        mcpRun' = [mcpRun EXCEPT ![s].at = "read",
                     ![s].list = WithBrowser(list, o.owner /\ o.web)]
  BY DEF SendReadsServers
<1> DEFINE web == o.owner /\ o.web
           with == WithBrowser(list, web)
           r == [o EXCEPT !.at = "read", !.list = with]
<1>2. /\ list \in Seq(ServerEntries)
      /\ \A i, j \in DOMAIN list : list[i].name = list[j].name => i = j
      /\ \A n : On(list, n) => On(mcpList, n)
  <2>1. CASE list = mcpList
    BY <2>1 DEF McpInv, ListFits
  <2>2. CASE list = <<>>
    BY <2>2 DEF On
  <2> QED
    BY <2>1, <2>2
<1>3. mcpRun' = [mcpRun EXCEPT ![s] = r]
  BY <1>1
<1> HIDE DEF o
<1>4. web \in BOOLEAN /\ (web => o.web)
  BY <1>0 DEF RunStates
<1> HIDE DEF web
<1>5. \A n \in o.off : ~ On(mcpList, n) /\ (n = Browser => ~ o.web)
  BY <1>0 DEF RunIsFine
<1>6. \A n \in o.off : ~ On(list, n) /\ (n = Browser => ~ web)
  BY <1>2, <1>4, <1>5
<1>7. with \in Seq(ServerEntries) /\ ListIsFine(with, o.off)
  BY <1>2, <1>4, <1>6, BrowserKeeps
<1> HIDE DEF with
<1>8. r \in RunStates /\ r.at = "read" /\ r.list = with /\ r.off = o.off /\ r.got = o.got
  BY <1>0, <1>7 DEF RunStates
<1>9. o.got = {}
  BY <1>0 DEF RunIsFine
<1> HIDE DEF r
<1>10. RunIsFine(r, mcpList)
  BY <1>7, <1>8, <1>9 DEF RunIsFine
<1> QED
  BY <1>3, <1>8, <1>10, RunStep DEF SendReadsServers

\* What an agent knows of a server of the list.
LEMMA KnownIs ==
  ASSUME NEW e \in ServerEntries
  PROVE  /\ KnownNames(e) \in Knowns /\ KnownNames(e).by # Internal
         /\ KnownNames(e).name = e.name /\ (KnownNames(e).on <=> e.enabled)
<1>1. /\ e.name \in Server /\ e.enabled \in BOOLEAN /\ e.command \in Seq(Words)
      /\ e.transport \in {"stdio", "http", "sse"}
  BY DEF ServerEntries
<1> DEFINE by == IF e.transport = "stdio" THEN ResolvedStdio(e) ELSE <<e.transport>>
<1>2. KnownNames(e) = [name |-> e.name, on |-> e.enabled, by |-> by]
  BY DEF KnownNames
<1>3. by \in Ways /\ by # Internal
  <2>1. CASE e.transport = "stdio"
    BY <1>1, <2>1 DEF ResolvedStdio, Ways, Internal, OwnBinary
  <2>2. CASE e.transport # "stdio"
    BY <1>1, <2>2 DEF Ways, Internal
  <2> QED
    BY <2>1, <2>2
<1> HIDE DEF by
<1>4. KnownNames(e) \in Knowns
  BY <1>1, <1>2, <1>3 DEF Knowns
<1> QED
  BY <1>2, <1>3, <1>4

\* What it knows of an entry of the user's own file.
LEMMA OwnKnownIs ==
  ASSUME NEW n \in Server
  PROVE  /\ OwnKnown(n) \in Knowns /\ OwnKnown(n).by = <<"own">>
         /\ OwnKnown(n).by # Internal /\ OwnKnown(n).name = n
  BY DEF OwnKnown, Knowns, Ways, Internal

\* Entries in the place of the user's own of their names.
LEMMA FoldedIsFine ==
  ASSUME NEW list \in Seq(ServerEntries), NEW off, ListIsFine(list, off),
         NEW entries \in SUBSET {list[i] : i \in DOMAIN list}, NEW own \in SUBSET Server
  PROVE  Folded(entries, own) \in SUBSET Knowns /\ GotIsFine(Folded(entries, own), off)
<1> DEFINE names == {e.name : e \in entries}
           got == Folded(entries, own)
<1>1. \A e \in entries : e \in ServerEntries /\ \E i \in DOMAIN list : e = list[i]
  OBVIOUS
<1>2. ASSUME NEW k \in got
      PROVE  \/ \E e \in entries : k = KnownNames(e)
             \/ \E n \in own \ names : k = OwnKnown(n)
  BY <1>2 DEF Folded
<1> HIDE DEF got
<1> DEFINE IsFine(k) ==
             k \in Knowns /\ k.by # Internal /\ (k.on /\ k.by # <<"own">> => k.name \notin off)
<1>3. ASSUME NEW k \in got
      PROVE  IsFine(k)
  <2>1. ASSUME NEW e \in entries, k = KnownNames(e) PROVE IsFine(k)
    <3>1. PICK i \in DOMAIN list : e = list[i]
      BY <1>1
    <3>2. e.enabled => e.name \notin off
      BY <3>1 DEF ListIsFine
    <3> QED
      BY <1>1, <2>1, <3>2, KnownIs
  <2>2. ASSUME NEW n \in own \ names, k = OwnKnown(n) PROVE IsFine(k)
    BY <2>2, OwnKnownIs
  <2> QED
    BY <1>2, <2>1, <2>2
<1>4. ASSUME NEW k \in got, NEW l \in got, k.name = l.name
      PROVE  k = l
  <2>1. ASSUME NEW e \in entries, NEW f \in entries, k = KnownNames(e), l = KnownNames(f)
        PROVE  k = l
    <3>1. e.name = f.name
      BY <1>1, <1>4, <2>1, KnownIs
    <3>2. e = f
      BY <1>1, <3>1 DEF ListIsFine
    <3> QED
      BY <2>1, <3>2
  <2>2. ASSUME NEW e \in entries, NEW n \in own \ names,
               \/ k = KnownNames(e) /\ l = OwnKnown(n)
               \/ l = KnownNames(e) /\ k = OwnKnown(n)
        PROVE  FALSE
    BY <1>1, <1>4, <2>2, KnownIs, OwnKnownIs
  <2>3. ASSUME NEW n \in own \ names, NEW m \in own \ names, k = OwnKnown(n), l = OwnKnown(m)
        PROVE  k = l
    BY <1>4, <2>3, OwnKnownIs
  <2> QED
    BY <1>2, <2>1, <2>2, <2>3
<1> QED
  BY <1>3, <1>4 DEF GotIsFine, got

\* The agent gets no more than the list has on, in each of the three forms.
LEMMA AgentStep ==
  ASSUME McpInv, NEW s \in McpSend, AgentGetsServers(s)
  PROVE  McpInv'
<1> DEFINE o == mcpRun[s]
<1>0. o \in RunStates /\ RunIsFine(o, mcpList) /\ o.at = "read"
  BY DEF McpInv, RunsFit, AgentGetsServers
<1>1. PICK own \in {{}, {Browser}}, merges \in BOOLEAN, caps \in SUBSET {"http", "sse"} :
       \E got \in {ToAcp(o.list, caps)} \cup
                  (IF merges THEN {ToDevin(o.list, own), ToCodex(o.list, own)}
                   ELSE {{OwnKnown(n) : n \in own}}) :
         mcpRun' = [mcpRun EXCEPT ![s].at = "runs", ![s].got = got]
  BY DEF AgentGetsServers
<1>2. PICK got \in {ToAcp(o.list, caps), ToDevin(o.list, own), ToCodex(o.list, own),
                    {OwnKnown(n) : n \in own}} :
         mcpRun' = [mcpRun EXCEPT ![s].at = "runs", ![s].got = got]
  BY <1>1
<1> DEFINE r == [o EXCEPT !.at = "runs", !.got = got]
<1>3. mcpRun' = [mcpRun EXCEPT ![s] = r]
  BY <1>2
<1> HIDE DEF o
<1>4. o.list \in Seq(ServerEntries) /\ ListIsFine(o.list, o.off) /\ own \subseteq Server
  BY <1>0, McpConstants DEF RunStates, RunIsFine
<1>5. got \in SUBSET Knowns /\ GotIsFine(got, o.off)
  <2> DEFINE all == {o.list[i] : i \in DOMAIN o.list}
  <2>1. ToSet(o.list) = all
    BY DEF ToSet
  <2>2. ASSUME NEW entries \in SUBSET all, NEW names \in SUBSET Server, got = Folded(entries, names)
        PROVE  got \in SUBSET Knowns /\ GotIsFine(got, o.off)
    BY <1>4, <2>2, FoldedIsFine
  <2>3. CASE got = ToAcp(o.list, caps)
    <3>1. got = Folded({x \in all : x.enabled /\ x.transport \in caps \cup {"stdio"}}, {})
      BY <2>1, <2>3 DEF ToAcp, Folded
    <3> QED
      BY <2>2, <3>1
  <2>4. CASE got = ToDevin(o.list, own)
    BY <1>4, <2>1, <2>2, <2>4 DEF ToDevin
  <2>5. CASE got = ToCodex(o.list, own)
    BY <1>4, <2>1, <2>2, <2>5 DEF ToCodex
  <2>6. CASE got = {OwnKnown(n) : n \in own}
    <3>1. got = Folded({}, own)
      BY <2>6 DEF Folded
    <3> QED
      BY <1>4, <2>2, <3>1
  <2> QED
    BY <2>3, <2>4, <2>5, <2>6
<1>6. r \in RunStates /\ r.at = "runs" /\ r.got = got /\ r.off = o.off
  BY <1>0, <1>5 DEF RunStates
<1> HIDE DEF r
<1>7. RunIsFine(r, mcpList)
  BY <1>5, <1>6 DEF RunIsFine
<1> QED
  BY <1>3, <1>6, <1>7, RunStep DEF AgentGetsServers

\* Every step keeps the invariant of the servers.
LEMMA McpInvStep == McpInv /\ [McpNext]_mcpVars => McpInv'
<1> SUFFICES ASSUME McpInv, [McpNext]_mcpVars PROVE McpInv'
  OBVIOUS
<1>1. CASE SetMcpServers
  BY <1>1, SetServersStep
<1>2. CASE InstallMcpb
  BY <1>2, InstallStep
<1>3. CASE SetWebAccess
  <2>1. PICK names : SwitchesOn(names)
    BY <1>3 DEF SetWebAccess
  <2>2. UNCHANGED mcpList
    BY <1>3 DEF SetWebAccess
  <2>3. RunsFit'
    BY <2>1, <2>2, SwitchStep
  <2>4. webAccess' \in BOOLEAN
    BY <1>3 DEF SetWebAccess
  <2>5. mcpEdits' \in 0 .. MaxMcpEdits
    BY <1>3, McpConstants DEF McpInv, SetWebAccess, CountMcpEdit
  <2> QED
    BY <1>3, <2>2, <2>3, <2>4, <2>5 DEF McpInv, ListFits, BundlesArePlaced, SetWebAccess
<1>4. ASSUME NEW s \in McpSend, SendIsAsked(s) PROVE McpInv'
  BY <1>4, AskedStep
<1>5. ASSUME NEW s \in McpSend, SendReadsServers(s) PROVE McpInv'
  BY <1>5, ReadsStep
<1>6. ASSUME NEW s \in McpSend, AgentGetsServers(s) PROVE McpInv'
  BY <1>6, AgentStep
<1>7. ASSUME NEW s \in McpSend, RunIsForgotten(s) PROVE McpInv'
  BY <1>7, NoRunFits, RunStep DEF RunIsForgotten
<1>8. CASE UNCHANGED mcpVars
  BY <1>8 DEF mcpVars, McpInv, RunsFit, ListFits, BundlesArePlaced
<1> QED
  BY <1>1, <1>2, <1>3, <1>4, <1>5, <1>6, <1>7, <1>8 DEF McpNext

\* What the invariant says of tokens, switches and names.
LEMMA ServersAreSafe ==
  McpInv => NoTokenIsStored /\ OffStaysOff /\ ServersAreToldApart /\ McpTypeOK
<1> SUFFICES ASSUME McpInv
             PROVE  NoTokenIsStored /\ OffStaysOff /\ ServersAreToldApart /\ McpTypeOK
  OBVIOUS
<1>1. /\ mcpList \in Seq(ServerEntries) /\ Len(mcpList) <= MaxServers
      /\ \A s \in McpSend : mcpRun[s] \in RunStates /\ RunIsFine(mcpRun[s], mcpList)
  BY DEF McpInv, ListFits, RunsFit
<1>2. NoTokenIsStored
  <2>1. ASSUME NEW i \in DOMAIN mcpList, mcpList[i].name \in bundled,
               NEW j \in DOMAIN mcpList[i].args
        PROVE  ~ WholeRef(mcpList[i].args[j])
    <3>1. mcpList[i].args \in Seq(Kept)
      BY <2>1 DEF McpInv, BundlesArePlaced
    <3>2. mcpList[i].args[j] \in Kept
      BY <3>1
    <3> QED
      BY <3>2 DEF Kept, WholeRef
  <2> QED
    BY <2>1 DEF NoTokenIsStored
<1>3. \A s \in McpSend : GotIsFine(mcpRun[s].got, mcpRun[s].off)
  BY <1>1 DEF RunIsFine, GotIsFine
<1>4. OffStaysOff
  BY <1>3 DEF OffStaysOff, GotIsFine
<1>5. ServersAreToldApart
  BY <1>3 DEF ServersAreToldApart, GotIsFine
<1>6. ASSUME NEW list \in Seq(ServerEntries) PROVE NamesOf(list) \subseteq Server
  <2>1. ASSUME NEW i \in DOMAIN list PROVE list[i].name \in Server
    <3>1. list[i] \in ServerEntries
      OBVIOUS
    <3> QED
      BY <3>1 DEF ServerEntries
  <2> QED
    BY <2>1 DEF NamesOf
<1>7. ASSUME NEW s \in McpSend
      PROVE  /\ mcpRun[s].at \in {"none", "asked", "read", "runs"}
             /\ NamesOf(mcpRun[s].list) \cup mcpRun[s].off \subseteq Server
  <2>1. mcpRun[s] \in RunStates
    BY <1>1
  <2>2. /\ mcpRun[s].at \in {"none", "asked", "read", "runs"}
        /\ mcpRun[s].list \in Seq(ServerEntries) /\ mcpRun[s].off \subseteq Server
    BY <2>1 DEF RunStates
  <2> QED
    BY <1>6, <2>2
<1>8. McpTypeOK
  BY <1>1, <1>6, <1>7 DEF McpTypeOK, McpInv, BundlesArePlaced
<1> QED
  BY <1>2, <1>4, <1>5, <1>8

-----------------------------------------------------------------------------
(* What a turn asks of its agent *)

\* A turn: how far it is, what it was asked for, what its session has and why.
Turns ==
  [at : {"none"} \cup ToSet(Steps), wish : TurnWish, has : Options,
   lack : {"none", "request", "first"}]

\* From where on a turn of the agent k runs unasked only if it was asked to.
Settled(k) ==
  CASE k = "devin" -> {"permission", "session_mode", "runs"}
    [] k = "gemini" -> {"session_mode", "runs"}
    [] k = "codex" -> {"runs"}
    [] OTHER -> {"none"} \cup ToSet(Steps)

\* A session that asks nobody was asked for, or what was asked for it did not get.
MayRun(x) ==
  x.has.permission \in AutoRun => x.wish.permission = "bypass" \/ x.lack # "none"

\* Agents without a permission mode are never in one that asks nobody.
NeverAuto(k) == k \notin {"devin", "gemini", "codex"}

\* What is true of a turn of the agent k, at each of its steps, if a is whether
\* some turn was allowed to ask nobody.
TurnIsFine(x, k, a) ==
  /\ x \in Turns
  /\ x.at \in Settled(k) => MayRun(x)
  /\ NeverAuto(k) => x.has.permission \notin AutoRun
  /\ x.has.permission \in AutoRun \/ x.wish.permission = "bypass" => a

\* The turns, the options that are kept, and the agent.
TurnsFit ==
  /\ setup \in [Turning -> Turns]
  /\ \A t \in Turning : TurnIsFine(setup[t], kind, allowed)
SavedFits ==
  /\ saved \in Options /\ allowed \in BOOLEAN
  /\ NeverAuto(kind) => saved.permission \notin AutoRun
  /\ saved.permission \in AutoRun => allowed
AgentFits ==
  /\ kind \in Kind /\ offer \in Catalogs \ {"none"} /\ catalog \in Catalogs
  /\ turnings \in 0 .. MaxTurning

\* The inductive invariant of the setup of an agent.
SetupInv == TurnsFit /\ SavedFits /\ AgentFits

\* The steps, and which follows which.
LEMMA StepsAre ==
  /\ ToSet(Steps) = {"opened", "model", "effort", "mode", "permission", "session_mode", "runs"}
  /\ After("opened") = "model" /\ After("model") = "effort" /\ After("effort") = "mode"
  /\ After("mode") = "permission" /\ After("permission") = "session_mode"
  /\ After("session_mode") = "runs"
<1> DEFINE n(step) == CHOOSE i \in 1 .. Len(Steps) - 1 : Steps[i] = step
<1>1. Len(Steps) = 7 /\ DOMAIN Steps = 1 .. 7
  BY DEF Steps
<1>2. /\ Steps[1] = "opened" /\ Steps[2] = "model" /\ Steps[3] = "effort" /\ Steps[4] = "mode"
      /\ Steps[5] = "permission" /\ Steps[6] = "session_mode" /\ Steps[7] = "runs"
  BY DEF Steps
<1>3. 1 .. 7 = {1, 2, 3, 4, 5, 6, 7} /\ 1 .. Len(Steps) - 1 = {1, 2, 3, 4, 5, 6}
  BY <1>1
<1>4. ToSet(Steps) = {"opened", "model", "effort", "mode", "permission", "session_mode", "runs"}
  BY <1>1, <1>2, <1>3 DEF ToSet
<1>5. /\ n("opened") = 1 /\ n("model") = 2 /\ n("effort") = 3 /\ n("mode") = 4
      /\ n("permission") = 5 /\ n("session_mode") = 6
  <2>1. ASSUME NEW i \in {1, 2, 3, 4, 5, 6}
        PROVE  (CHOOSE j \in {1, 2, 3, 4, 5, 6} : Steps[j] = Steps[i]) = i
    BY <1>2
  <2> QED
    BY <1>2, <1>3, <2>1
<1>6. \A step : After(step) = Steps[1 + n(step)]
  BY DEF After
<1> HIDE DEF n
<1> QED
  BY <1>2, <1>4, <1>5, <1>6

\* What is asked for is an option of a session, and one in which nobody is asked
\* only of a turn that is to bypass the questions.
LEMMA ValuesAre ==
  ASSUME NEW w \in TurnWish
  PROVE  /\ w.model \in {"", "m2"} /\ w.effort \in {"", "high"}
         /\ \A choices \in {<<"m1">>, <<"m2">>, <<"m2", "m1">>} :
              ModelValue(w, choices) \in {"m1", "m2"}
         /\ \A k : \A choices \in {<<"build", "plan">>, <<"default", "plan">>, <<"code">>} :
              ModeValue(k, w, choices) \in {"code", "default", "build", "plan"}
         /\ \A choices \in PermissionChoices :
              /\ choices[1] \in {"normal", "plan", "dangerous"}
              /\ PermissionName(w) \in ToSet(choices) =>
                   PermissionValue(w, choices) = PermissionName(w)
         /\ PermissionName(w) \in {"normal", "dangerous"}
         /\ PermissionName(w) \in AutoRun => w.permission = "bypass"
         /\ \A k : SessionModeId(k, w) \in {"plan", "default", "yolo", "none"}
         /\ SessionModeId("devin", w) \in {"plan", "default"}
         /\ SessionModeId("gemini", w) \in {"plan", "default", "yolo"}
         /\ SessionModeId("gemini", w) \in AutoRun => w.permission = "bypass"
         /\ ThreadConfig(w) \in {"never", "on-request"}
         /\ ThreadConfig(w) \in AutoRun => w.permission = "bypass"
<1>1. /\ w.model \in {"", "m2"} /\ w.effort \in {"", "high"}
      /\ w.mode \in {"code", "plan"} /\ w.permission \in {"normal", "bypass"}
  <2>1. CASE w = FirstWish
    BY <2>1 DEF FirstWish
  <2>2. CASE w # FirstWish
    BY <2>2 DEF TurnWish
  <2> QED
    BY <2>1, <2>2
<1>2. /\ \A a : ToSet(<<a>>) = {a} /\ <<a>>[1] = a
      /\ \A a, b : ToSet(<<a, b>>) = {a, b} /\ <<a, b>>[1] = a /\ <<a, b>>[2] = b
  <2>1. \A a, b : DOMAIN <<a>> = {1} /\ DOMAIN <<a, b>> = {1, 2}
    OBVIOUS
  <2> QED
    BY <2>1 DEF ToSet
<1>3. ASSUME NEW choices \in {<<"m1">>, <<"m2">>, <<"m2", "m1">>}
      PROVE  ModelValue(w, choices) \in {"m1", "m2"}
  <2>1. CASE choices = <<"m1">>
    BY <1>2, <2>1 DEF ModelValue
  <2>2. CASE choices = <<"m2">>
    BY <1>2, <2>2 DEF ModelValue
  <2>3. CASE choices = <<"m2", "m1">>
    BY <1>2, <2>3 DEF ModelValue
  <2> QED
    BY <2>1, <2>2, <2>3
<1>4. ASSUME NEW k, NEW choices \in {<<"build", "plan">>, <<"default", "plan">>, <<"code">>}
      PROVE  ModeValue(k, w, choices) \in {"code", "default", "build", "plan"}
  <2>1. ASSUME NEW a \in {"default", "build"}
        PROVE  FirstAmong(<<a, "plan">>, {"default", "build"}) = a
    <3>1. DOMAIN <<a, "plan">> = {1, 2} /\ <<a, "plan">>[1] = a /\ <<a, "plan">>[2] = "plan"
      OBVIOUS
    <3>2. (CHOOSE i \in {1, 2} : /\ <<a, "plan">>[i] \in {"default", "build"}
                                 /\ \A j \in 1 .. i - 1 : <<a, "plan">>[j] \notin {"default", "build"}) = 1
      BY <3>1
    <3> QED
      BY <3>1, <3>2 DEF FirstAmong
  <2>2. CASE choices = <<"code">>
    BY <1>1, <1>2, <2>2 DEF ModeValue
  <2>3. CASE choices = <<"build", "plan">>
    BY <1>1, <1>2, <2>1, <2>3 DEF ModeValue
  <2>4. CASE choices = <<"default", "plan">>
    BY <1>1, <1>2, <2>1, <2>4 DEF ModeValue
  <2> QED
    BY <2>2, <2>3, <2>4
<1>5. ASSUME NEW choices \in PermissionChoices
      PROVE  /\ choices[1] \in {"normal", "plan", "dangerous"}
             /\ PermissionName(w) \in ToSet(choices) =>
                  PermissionValue(w, choices) = PermissionName(w)
  <2>1. choices[1] \in {"normal", "plan", "dangerous"}
    BY <1>2 DEF PermissionChoices
  <2> QED
    BY <2>1 DEF PermissionValue
<1>8. /\ PermissionName(w) \in {"normal", "dangerous"}
      /\ PermissionName(w) \in AutoRun => w.permission = "bypass"
  BY DEF PermissionName, AutoRun
<1>6. /\ \A k : SessionModeId(k, w) \in {"plan", "default", "yolo", "none"}
      /\ SessionModeId("devin", w) \in {"plan", "default"}
      /\ SessionModeId("gemini", w) \in {"plan", "default", "yolo"}
      /\ SessionModeId("gemini", w) \in AutoRun => w.permission = "bypass"
  BY DEF SessionModeId, AutoRun
<1>7. /\ ThreadConfig(w) \in {"never", "on-request"}
      /\ ThreadConfig(w) \in AutoRun => w.permission = "bypass"
  BY DEF ThreadConfig, AutoRun
<1> QED
  BY <1>1, <1>3, <1>4, <1>5, <1>6, <1>7, <1>8

\* One turn goes on.
LEMMA OneTurn ==
  ASSUME TurnsFit, kind' = kind, allowed => allowed',
         NEW t \in Turning, NEW x, TurnIsFine(x, kind, allowed'), setup' = [setup EXCEPT ![t] = x]
  PROVE  TurnsFit'
<1>1. x \in Turns
  BY DEF TurnIsFine
<1>2. setup' \in [Turning -> Turns] /\ \A u \in Turning : setup'[u] = IF u = t THEN x ELSE setup[u]
  BY <1>1 DEF TurnsFit
<1>3. ASSUME NEW u \in Turning PROVE TurnIsFine(setup'[u], kind, allowed')
  <2>1. CASE u = t
    BY <1>2, <2>1
  <2>2. CASE u # t
    <3>1. setup'[u] = setup[u] /\ TurnIsFine(setup[u], kind, allowed)
      BY <1>2, <2>2 DEF TurnsFit
    <3> QED
      BY <3>1 DEF TurnIsFine
  <2> QED
    BY <2>1, <2>2
<1> QED
  BY <1>2, <1>3 DEF TurnsFit

\* A request that comes to nothing.
LEMMA LacksFit ==
  ASSUME TurnsFit, kind' = kind, NEW t \in Turning, NEW step \in ToSet(Steps), Lacks(t, step)
  PROVE  TurnsFit'
<1> DEFINE old == setup[t]
           new == [old EXCEPT !.at = step, !.lack = "request"]
<1>1. TurnIsFine(old, kind, allowed) /\ old \in Turns
  BY DEF TurnsFit, TurnIsFine
<1>2. new \in Turns /\ new.lack = "request" /\ new.has = old.has /\ new.wish = old.wish
  BY <1>1 DEF Turns
<1>3. setup' = [setup EXCEPT ![t] = new] /\ allowed' = allowed
  BY DEF TurnsFit, Lacks
<1> HIDE DEF new
<1>4. TurnIsFine(new, kind, allowed)
  BY <1>1, <1>2 DEF TurnIsFine, MayRun
<1> QED
  BY <1>3, <1>4, OneTurn

\* A turn goes on without a request.
LEMMA SkipsFit ==
  ASSUME TurnsFit, kind' = kind, NEW t \in Turning, NEW step \in ToSet(Steps),
         step \in Settled(kind) => setup[t].at \in Settled(kind),
         setup' = [setup EXCEPT ![t].at = step], UNCHANGED allowed
  PROVE  TurnsFit'
<1> DEFINE old == setup[t]
           new == [old EXCEPT !.at = step]
<1>1. TurnIsFine(old, kind, allowed) /\ old \in Turns
  BY DEF TurnsFit, TurnIsFine
<1>2. /\ new \in Turns /\ new.at = step /\ new.lack = old.lack /\ new.has = old.has
      /\ new.wish = old.wish
  BY <1>1 DEF Turns
<1>3. setup' = [setup EXCEPT ![t] = new]
  BY DEF TurnsFit
<1> HIDE DEF new
<1>4. TurnIsFine(new, kind, allowed)
  BY <1>1, <1>2 DEF TurnIsFine, MayRun
<1> QED
  BY <1>3, <1>4, OneTurn

\* The values of an option.
OptionFits(option, value) ==
  \/ option = "model" /\ value \in {"own", "m1", "m2"}
  \/ option = "effort" /\ value \in {"own", "high"}
  \/ option = "mode" /\ value \in {"own", "code", "default", "build", "plan"}
  \/ option = "permission" /\ value \in {"own", "normal", "on-request", "default", "plan"} \cup AutoRun

\* The options with one of them set.
LEMMA OptionsWith ==
  ASSUME NEW old \in Options, NEW option, NEW value, OptionFits(option, value)
  PROVE  LET has == [old EXCEPT ![option] = value]
         IN /\ has \in Options
            /\ has.permission = IF option = "permission" THEN value ELSE old.permission
<1>1. CASE option = "model" /\ value \in {"own", "m1", "m2"}
  BY <1>1 DEF Options
<1>2. CASE option = "effort" /\ value \in {"own", "high"}
  BY <1>2 DEF Options
<1>3. CASE option = "mode" /\ value \in {"own", "code", "default", "build", "plan"}
  BY <1>3 DEF Options
<1>4. CASE option = "permission"
           /\ value \in {"own", "normal", "on-request", "default", "plan"} \cup AutoRun
  BY <1>4 DEF Options
<1> QED
  BY <1>1, <1>2, <1>3, <1>4 DEF OptionFits

\* An option that is set: the permission mode as the turn wants it or as its
\* agent has it first, or another one on either side of where the turn is settled.
LEMMA OptionIsSet ==
  ASSUME TurnsFit, kind' = kind, allowed' \in BOOLEAN, allowed => allowed',
         NEW t \in Turning, NEW x \in Turns, setup' = [setup EXCEPT ![t] = x],
         x.wish = setup[t].wish, x.lack \in {setup[t].lack, "first"},
         \/ /\ ~ NeverAuto(kind)
            /\ x.has.permission \in AutoRun =>
                 (x.wish.permission = "bypass" \/ x.lack = "first") /\ allowed'
         \/ /\ x.has.permission = setup[t].has.permission
            /\ x.at \in Settled(kind) => setup[t].at \in Settled(kind)
  PROVE  TurnsFit' /\ (saved' = setup'[t].has => SavedFits')
<1> DEFINE old == setup[t]
<1>1. TurnIsFine(old, kind, allowed) /\ old \in Turns
  BY DEF TurnsFit
<1>2. x.wish.permission = "bypass" => allowed'
  BY <1>1 DEF TurnIsFine
<1>3. TurnIsFine(x, kind, allowed')
  <2>1. CASE /\ ~ NeverAuto(kind)
             /\ x.has.permission \in AutoRun =>
                  (x.wish.permission = "bypass" \/ x.lack = "first") /\ allowed'
    BY <1>2, <2>1 DEF TurnIsFine, MayRun
  <2>2. CASE /\ x.has.permission = old.has.permission
             /\ x.at \in Settled(kind) => old.at \in Settled(kind)
    <3>1. old.lack # "none" => x.lack # "none"
      OBVIOUS
    <3> QED
      BY <1>1, <1>2, <2>2, <3>1 DEF TurnIsFine, MayRun
  <2> QED
    BY <2>1, <2>2
<1>4. setup'[t] = x /\ x.has \in Options
  BY DEF TurnsFit, Turns
<1>5. saved' = setup'[t].has => SavedFits'
  BY <1>3, <1>4 DEF TurnIsFine, SavedFits, NeverAuto
<1> QED
  BY <1>3, <1>5, OneTurn

\* The same, of a request of the turn.
LEMMA SetsFit ==
  ASSUME TurnsFit, kind' = kind, NEW t \in Turning, NEW step \in ToSet(Steps),
         NEW option, NEW value, OptionFits(option, value), allowed \in BOOLEAN,
         \/ /\ option = "permission" /\ ~ NeverAuto(kind)
            /\ value \in AutoRun => setup[t].wish.permission = "bypass"
         \/ option # "permission" /\ (step \in Settled(kind) => setup[t].at \in Settled(kind)),
         setup' = [setup EXCEPT ![t].at = step, ![t].has[option] = value], UNCHANGED allowed
  PROVE  TurnsFit' /\ (saved' = setup'[t].has => SavedFits')
<1> DEFINE old == setup[t]
           has == [old.has EXCEPT ![option] = value]
           x == [old EXCEPT !.at = step, !.has = has]
<1>1. old \in Turns /\ TurnIsFine(old, kind, allowed) /\ old.has \in Options
  BY DEF TurnsFit, Turns
<1>2. setup' = [setup EXCEPT ![t] = x]
  BY DEF TurnsFit
<1>3. /\ has \in Options
      /\ has.permission = IF option = "permission" THEN value ELSE old.has.permission
  BY <1>1, OptionsWith
<1> HIDE DEF has
<1>4. x \in Turns /\ x.at = step /\ x.wish = old.wish /\ x.has = has /\ x.lack = old.lack
  BY <1>1, <1>3 DEF Turns
<1> HIDE DEF x
<1>5. old.wish.permission = "bypass" => allowed'
  BY <1>1 DEF TurnIsFine
<1>6. \/ /\ ~ NeverAuto(kind)
         /\ x.has.permission \in AutoRun =>
              (x.wish.permission = "bypass" \/ x.lack = "first") /\ allowed'
      \/ /\ x.has.permission = setup[t].has.permission
         /\ x.at \in Settled(kind) => setup[t].at \in Settled(kind)
  BY <1>3, <1>4, <1>5
<1>7. allowed' \in BOOLEAN /\ (allowed => allowed')
  OBVIOUS
<1> QED
  BY <1>2, <1>4, <1>6, <1>7, OptionIsSet

\* The steps of an ACP agent.
LEMMA AcpKeepsSetup ==
  ASSUME SetupInv, NEW t \in Turning,
         SetsModel(t) \/ SetsEffort(t) \/ SetsInteraction(t) \/ SetsPermission(t)
           \/ SetsSessionMode(t) \/ PromptIsSent(t)
  PROVE  SetupInv'
<1> DEFINE w == setup[t].wish
<1>1. /\ TurnsFit /\ SavedFits /\ AgentFits
      /\ kind' = kind /\ offer' = offer /\ catalog' = catalog /\ turnings' = turnings /\ kind # "codex"
  BY DEF SetupInv, SetsModel, SetsEffort, SetsInteraction, SetsPermission, SetsSessionMode,
         PromptIsSent, StepAt
<1>2. w \in TurnWish
  BY <1>1 DEF TurnsFit, Turns
<1>3. AgentFits'
  BY <1>1 DEF AgentFits
<1>4. UNCHANGED <<saved, allowed>> => SavedFits'
  BY <1>1 DEF SavedFits, NeverAuto
<1>5. ASSUME NEW old \in {"opened", "model", "effort", "mode", "permission", "session_mode"},
             setup[t].at = old, After(old) \in Settled(kind) => old \in Settled(kind), Skips(t)
      PROVE  TurnsFit' /\ SavedFits'
  <2>1. After(old) \in ToSet(Steps)
    BY StepsAre
  <2>2. setup' = [setup EXCEPT ![t].at = After(old)] /\ saved' = saved /\ allowed' = allowed
    BY <1>5 DEF Skips
  <2> QED
    BY <1>1, <1>4, <1>5, <2>1, <2>2, SkipsFit
<1>6. ASSUME NEW step \in ToSet(Steps), Lacks(t, step)
      PROVE  TurnsFit' /\ SavedFits'
  <2>1. UNCHANGED <<saved, allowed>>
    BY <1>6 DEF Lacks
  <2> QED
    BY <1>1, <1>4, <1>6, <2>1, LacksFit
<1>7. ASSUME NEW old \in {"opened", "model", "effort", "mode", "permission", "session_mode"},
             setup[t].at = old, NEW option, NEW value, OptionFits(option, value),
             \/ /\ option = "permission" /\ ~ NeverAuto(kind)
                /\ value \in AutoRun => w.permission = "bypass"
             \/ option # "permission" /\ (After(old) \in Settled(kind) => old \in Settled(kind)),
             Sets(t, option, value)
      PROVE  TurnsFit' /\ SavedFits'
  <2>1. After(old) \in ToSet(Steps)
    BY StepsAre
  <2>2. /\ setup' = [setup EXCEPT ![t].at = After(old), ![t].has[option] = value]
        /\ saved' = setup'[t].has /\ allowed' = allowed
    BY <1>7 DEF Sets
  <2>3. allowed \in BOOLEAN
    BY <1>1 DEF SavedFits
  <2> QED
    BY <1>1, <1>7, <2>1, <2>2, <2>3, SetsFit
<1>a. ASSUME NEW old \in {"opened", "model", "effort", "mode", "permission", "session_mode"},
             setup[t].at = old, NEW option, NEW value, OptionFits(option, value),
             option # "permission" /\ (After(old) \in Settled(kind) => old \in Settled(kind)),
             AsksFor(t, option, value)
      PROVE  TurnsFit' /\ SavedFits'
  BY <1>5, <1>7, <1>a DEF AsksFor
<1>b. ASSUME LeavesOff(t) PROVE TurnsFit' /\ SavedFits'
  BY <1>6, <1>b, StepsAre DEF LeavesOff
\* Before an agent asks for the permission mode, no turn of it is settled that was not.
<1>8. /\ \A old \in {"opened", "model", "effort"} :
           After(old) \in Settled(kind) => old \in Settled(kind)
      /\ kind # "devin" => ("permission" \in Settled(kind) => "mode" \in Settled(kind))
      /\ kind # "gemini" =>
           ("session_mode" \in Settled(kind) => "permission" \in Settled(kind))
      /\ "runs" \in Settled(kind) => "session_mode" \in Settled(kind)
  BY <1>1, StepsAre DEF Settled
<1>9. SetsModel(t) => TurnsFit' /\ SavedFits'
  <2> SUFFICES ASSUME SetsModel(t) PROVE TurnsFit' /\ SavedFits'
    OBVIOUS
  <2>1. setup[t].at = "opened"
    BY DEF SetsModel, StepAt
  <2>2. ASSUME NEW choices \in {<<"m1">>, <<"m2">>, <<"m2", "m1">>}
        PROVE  OptionFits("model", ModelValue(w, choices))
    BY <1>2, ValuesAre DEF OptionFits
  <2>3. ASSUME NEW choices \in {<<"m1">>, <<"m2">>, <<"m2", "m1">>},
               AsksFor(t, "model", ModelValue(w, choices))
        PROVE  TurnsFit' /\ SavedFits'
    BY <1>8, <1>a, <2>1, <2>2, <2>3
  <2>5. ASSUME Skips(t) PROVE TurnsFit' /\ SavedFits'
    BY <1>5, <1>8, <2>1, <2>5
  <2> QED
    BY <1>b, <2>3, <2>5 DEF SetsModel
<1>10. SetsEffort(t) => TurnsFit' /\ SavedFits'
  <2> SUFFICES ASSUME SetsEffort(t) PROVE TurnsFit' /\ SavedFits'
    OBVIOUS
  <2>1. setup[t].at = "model"
    BY DEF SetsEffort, StepAt
  <2>2. OptionFits("effort", "high")
    BY DEF OptionFits
  <2>3. ASSUME AsksFor(t, "effort", "high") PROVE TurnsFit' /\ SavedFits'
    BY <1>8, <1>a, <2>1, <2>2, <2>3
  <2>4. ASSUME Skips(t) PROVE TurnsFit' /\ SavedFits'
    BY <1>5, <1>8, <2>1, <2>4
  <2> QED
    BY <2>3, <2>4 DEF SetsEffort
<1>11. SetsInteraction(t) => TurnsFit' /\ SavedFits'
  <2> SUFFICES ASSUME SetsInteraction(t) PROVE TurnsFit' /\ SavedFits'
    OBVIOUS
  <2>1. setup[t].at = "effort"
    BY DEF SetsInteraction, StepAt
  <2>2. ASSUME NEW choices \in {<<"build", "plan">>, <<"default", "plan">>, <<"code">>}
        PROVE  OptionFits("mode", ModeValue(kind, w, choices))
    <3>1. ModeValue(kind, w, choices) \in {"code", "default", "build", "plan"}
      BY <1>2, ValuesAre
    <3> QED
      BY <3>1 DEF OptionFits
  <2>3. ASSUME NEW choices \in {<<"build", "plan">>, <<"default", "plan">>, <<"code">>},
               AsksFor(t, "mode", ModeValue(kind, w, choices))
        PROVE  TurnsFit' /\ SavedFits'
    BY <1>8, <1>a, <2>1, <2>2, <2>3
  <2>5. ASSUME Skips(t) PROVE TurnsFit' /\ SavedFits'
    BY <1>5, <1>8, <2>1, <2>5
  <2> QED
    BY <1>b, <2>3, <2>5 DEF SetsInteraction
<1>12. SetsPermission(t) => TurnsFit' /\ SavedFits'
  <2> SUFFICES ASSUME SetsPermission(t) PROVE TurnsFit' /\ SavedFits'
    OBVIOUS
  <2>1. setup[t].at = "mode"
    BY DEF SetsPermission, StepAt
  <2>2. CASE kind = "devin"
    <3>1. ~ NeverAuto(kind)
      BY <2>2 DEF NeverAuto
    <3>2. After("mode") \in ToSet(Steps)
      BY StepsAre
    <3>3. ASSUME Lacks(t, After("mode")) PROVE TurnsFit' /\ SavedFits'
      BY <1>6, <3>2, <3>3
    <3>4. ASSUME NEW choices \in PermissionChoices, PermissionName(w) \in ToSet(choices),
                 Sets(t, "permission", PermissionValue(w, choices))
          PROVE  TurnsFit' /\ SavedFits'
      <4>1. PermissionValue(w, choices) = PermissionName(w)
        BY <1>2, <3>4, ValuesAre
      <4>2. PermissionName(w) \in {"normal", "dangerous"}
            /\ (PermissionName(w) \in AutoRun => w.permission = "bypass")
        BY <1>2, ValuesAre
      <4>3. OptionFits("permission", PermissionName(w))
        BY <4>2 DEF OptionFits, AutoRun
      <4> QED
        BY <1>7, <2>1, <3>1, <3>4, <4>1, <4>2, <4>3
    <3>5. ASSUME NEW choices \in PermissionChoices, TakesFirst(t, choices)
          PROVE  TurnsFit' /\ SavedFits'
      <4>1. choices[1] \in {"normal", "plan", "dangerous"}
        BY <1>2, ValuesAre
      <4>2. OptionFits("permission", choices[1])
        BY <4>1 DEF OptionFits, AutoRun
      <4> DEFINE has == [setup[t].has EXCEPT !["permission"] = choices[1]]
                 x == [setup[t] EXCEPT !.at = After("mode"), !.has = has, !.lack = "first"]
      <4>3. /\ setup' = [setup EXCEPT ![t].at = After("mode"), ![t].has["permission"] = choices[1],
                                     ![t].lack = "first"]
            /\ saved' = setup'[t].has /\ allowed' = (allowed \/ choices[1] \in AutoRun)
        BY <2>1, <3>5 DEF TakesFirst
      <4>4. setup[t] \in Turns /\ setup[t].has \in Options
        BY <1>1 DEF TurnsFit, Turns
      <4>5. setup' = [setup EXCEPT ![t] = x]
        BY <1>1, <4>3 DEF TurnsFit
      <4>6. has \in Options /\ has.permission = choices[1]
        BY <4>2, <4>4, OptionsWith
      <4> HIDE DEF has
      <4>7. x \in Turns /\ x.at = After("mode") /\ x.wish = w /\ x.has = has /\ x.lack = "first"
        BY <3>2, <4>4, <4>6 DEF Turns
      <4> HIDE DEF x
      <4>8. allowed' \in BOOLEAN /\ (allowed => allowed') /\ (choices[1] \in AutoRun => allowed')
        BY <1>1, <4>3 DEF SavedFits
      <4>9. TurnsFit' /\ (saved' = setup'[t].has => SavedFits')
        BY <1>1, <3>1, <4>5, <4>6, <4>7, <4>8, OptionIsSet
      <4> QED
        BY <4>3, <4>9
    <3> QED
      BY <2>2, <3>3, <3>4, <3>5 DEF SetsPermission, HasPermissionOption
  <2>3. CASE kind # "devin"
    <3>1. Skips(t)
      BY <2>3 DEF SetsPermission, HasPermissionOption
    <3>2. After("mode") = "permission"
      BY StepsAre
    <3> QED
      BY <1>5, <1>8, <2>1, <2>3, <3>1, <3>2
  <2> QED
    BY <2>2, <2>3
<1>13. SetsSessionMode(t) => TurnsFit' /\ SavedFits'
  <2> SUFFICES ASSUME SetsSessionMode(t) PROVE TurnsFit' /\ SavedFits'
    OBVIOUS
  <2>0. After("permission") = "session_mode"
    BY StepsAre
  <2>1. setup[t].at = "permission"
    BY DEF SetsSessionMode, StepAt
  <2>2. CASE kind = "devin"
    <3>1. AsksFor(t, "mode", SessionModeId("devin", w))
      BY <2>2 DEF SetsSessionMode
    <3>2. OptionFits("mode", SessionModeId("devin", w))
      BY <1>2, ValuesAre DEF OptionFits
    <3> QED
      BY <1>8, <1>a, <2>0, <2>1, <2>2, <3>1, <3>2
  <2>3. CASE kind = "gemini"
    <3>1. ~ NeverAuto(kind)
      BY <2>3 DEF NeverAuto
    <3>2. /\ OptionFits("permission", SessionModeId("gemini", w))
          /\ SessionModeId("gemini", w) \in AutoRun => w.permission = "bypass"
      <4>1. SessionModeId("gemini", w) \in {"plan", "default", "yolo"}
        BY <1>2, ValuesAre
      <4>2. OptionFits("permission", SessionModeId("gemini", w))
        BY <4>1 DEF OptionFits, AutoRun
      <4> QED
        BY <1>2, <4>2, ValuesAre
    <3>3. ASSUME Sets(t, "permission", SessionModeId("gemini", w))
          PROVE  TurnsFit' /\ SavedFits'
      BY <1>7, <2>1, <3>1, <3>2, <3>3
    <3>4. ASSUME Lacks(t, After("permission")) PROVE TurnsFit' /\ SavedFits'
      BY <1>6, <2>0, <3>4, StepsAre
    <3> QED
      BY <2>3, <3>3, <3>4 DEF SetsSessionMode
  <2>4. CASE kind \notin {"devin", "gemini"}
    <3>1. Skips(t)
      BY <2>4 DEF SetsSessionMode
    <3> QED
      BY <1>5, <1>8, <2>0, <2>1, <2>4, <3>1
  <2> QED
    BY <2>2, <2>3, <2>4
<1>14. PromptIsSent(t) => TurnsFit' /\ SavedFits'
  <2>1. ASSUME PromptIsSent(t) PROVE setup[t].at = "session_mode" /\ Skips(t)
    BY <2>1 DEF PromptIsSent, StepAt
  <2>2. After("session_mode") = "runs"
    BY StepsAre
  <2> QED
    BY <1>5, <1>8, <2>1, <2>2
<1> QED
  BY <1>3, <1>9, <1>10, <1>11, <1>12, <1>13, <1>14 DEF SetupInv

\* The steps of Codex.
LEMMA CodexKeepsSetup ==
  ASSUME SetupInv, NEW t \in Turning, ResolvesModel(t) \/ ResolvesReasoning(t) \/ TurnStarts(t)
  PROVE  SetupInv'
<1> DEFINE w == setup[t].wish
<1>1. /\ TurnsFit /\ SavedFits /\ AgentFits
      /\ kind' = kind /\ offer' = offer /\ turnings' = turnings /\ kind = "codex"
      /\ allowed' = allowed /\ allowed \in BOOLEAN
  BY DEF SetupInv, SavedFits, ResolvesModel, ResolvesReasoning, TurnStarts, AtCodex
<1>2. w \in TurnWish /\ setup[t].has \in Options
  BY <1>1 DEF TurnsFit, Turns
<1>3. AgentFits'
  BY <1>1 DEF AgentFits, ResolvesModel, ResolvesReasoning, TurnStarts, KnownModels, Catalogs
<1>4. saved' = saved => SavedFits'
  BY <1>1 DEF SavedFits, NeverAuto
<1>5. Settled(kind) = {"runs"} /\ ~ NeverAuto(kind)
      /\ {"model", "session_mode", "runs"} \subseteq ToSet(Steps)
  BY <1>1, StepsAre DEF Settled, NeverAuto
<1>6. CASE ResolvesModel(t)
  <2> DEFINE value == ResolveModel(w, KnownModels)
  <2>1. OptionFits("model", value)
    <3>1. w.model \in {"", "m2"}
      BY <1>2, ValuesAre
    <3> QED
      BY <3>1 DEF OptionFits, ResolveModel
  <2>2. setup' = [setup EXCEPT ![t].at = "model", ![t].has.model = value] /\ saved' = saved
    BY <1>6 DEF ResolvesModel
  <2> HIDE DEF value
  <2>3. TurnsFit'
    BY <1>1, <1>5, <2>1, <2>2, SetsFit
  <2> QED
    BY <1>3, <1>4, <2>2, <2>3 DEF SetupInv
<1>7. CASE ResolvesReasoning(t)
  <2> DEFINE value == ResolveReasoning(w, KnownModels, setup[t].has.model)
  <2>1. OptionFits("effort", value)
    <3>1. w.effort \in {"", "high"}
      BY <1>2, ValuesAre
    <3> QED
      BY <3>1 DEF OptionFits, ResolveReasoning
  <2>2. setup' = [setup EXCEPT ![t].at = "session_mode", ![t].has.effort = value] /\ saved' = saved
    BY <1>7 DEF ResolvesReasoning
  <2> HIDE DEF value
  <2>3. TurnsFit'
    BY <1>1, <1>5, <2>1, <2>2, SetsFit
  <2> QED
    BY <1>3, <1>4, <2>2, <2>3 DEF SetupInv
<1>8. CASE TurnStarts(t)
  <2> DEFINE value == ThreadConfig(w)
  <2>1. OptionFits("permission", value) /\ (value \in AutoRun => w.permission = "bypass")
    BY <1>2, ValuesAre DEF OptionFits, AutoRun
  <2>2. /\ setup' = [setup EXCEPT ![t].at = "runs", ![t].has.permission = value]
        /\ saved' = setup'[t].has
    BY <1>8 DEF TurnStarts
  <2> HIDE DEF value
  <2>3. TurnsFit' /\ SavedFits'
    BY <1>1, <1>5, <2>1, <2>2, SetsFit
  <2> QED
    BY <1>3, <2>3 DEF SetupInv
<1> QED
  BY <1>6, <1>7, <1>8

\* The options of a fresh session, and a first wish.
LEMMA IdleIs ==
  OwnOptions \in Options /\ OwnOptions.permission \notin AutoRun /\ FirstWish \in TurnWish
<1>1. OwnOptions \in Options
  BY DEF OwnOptions, Options
<1> QED
  BY <1>1 DEF OwnOptions, AutoRun, TurnWish

\* A turn that is none is fine.
LEMMA IdleIsFine == \A a : TurnIsFine(Idle, kind, a)
<1>1. Idle \in Turns
  BY IdleIs DEF Idle, Turns
<1>2. Idle.has = OwnOptions /\ Idle.wish.permission # "bypass"
  BY DEF Idle, FirstWish
<1> QED
  BY <1>1, <1>2, IdleIs DEF TurnIsFine, MayRun

\* No turn is asked for at first.
LEMMA SetupInvInit == SetupInit => SetupInv
<1> SUFFICES ASSUME SetupInit PROVE SetupInv
  OBVIOUS
<1>1. SavedFits
  BY IdleIs DEF SetupInit, SavedFits
<1>2. AgentFits
  BY SetupConstants DEF SetupInit, AgentFits, Catalogs
<1>3. TurnsFit
  <2>1. Idle \in Turns
    BY IdleIsFine DEF TurnIsFine
  <2> QED
    BY <2>1, IdleIsFine DEF SetupInit, TurnsFit
<1> QED
  BY <1>1, <1>2, <1>3 DEF SetupInv

\* Every step keeps the invariant of the setup.
LEMMA SetupInvStep == SetupInv /\ [SetupNext]_setupVars => SetupInv'
<1> SUFFICES ASSUME SetupInv, [SetupNext]_setupVars PROVE SetupInv'
  OBVIOUS
<1>0. TurnsFit /\ SavedFits /\ AgentFits
  BY DEF SetupInv
<1>1. CASE UNCHANGED setupVars
  BY <1>1 DEF setupVars, SetupInv, TurnsFit, SavedFits, AgentFits, TurnIsFine, MayRun,
    NeverAuto, Settled
<1>2. CASE OfferChanges \/ CatalogExpires
  <2>1. kind' = kind /\ saved' = saved /\ setup' = setup
    BY <1>2 DEF OfferChanges, CatalogExpires
  <2>a. allowed' = allowed
    BY <1>2 DEF OfferChanges, CatalogExpires
  <2>2. AgentFits'
    BY <1>0, <1>2 DEF OfferChanges, CatalogExpires, AgentFits, Catalogs
  <2>3. TurnsFit' /\ SavedFits'
    BY <1>0, <2>1, <2>a DEF TurnsFit, SavedFits, TurnIsFine, MayRun, NeverAuto, Settled
  <2> QED
    BY <2>2, <2>3 DEF SetupInv
<1>3. ASSUME NEW t \in Turning, TurnOpens(t) \/ TurnIsOver(t)
      PROVE  SetupInv'
  <2>1. kind' = kind /\ saved' = saved /\ offer' = offer /\ catalog' = catalog
    BY <1>3 DEF TurnOpens, TurnIsOver
  <2>a. allowed' \in BOOLEAN /\ (allowed => allowed')
    BY <1>0, <1>3 DEF TurnOpens, TurnIsOver, SavedFits
  <2>2. SavedFits'
    BY <1>0, <2>1, <2>a DEF SavedFits, NeverAuto
  <2>3. AgentFits'
    <3>1. turnings' \in 0 .. MaxTurning
      <4>1. turnings \in 0 .. MaxTurning /\ MaxTurning \in Nat
        BY <1>0, SetupConstants DEF AgentFits
      <4>2. turnings' = turnings \/ (turnings < MaxTurning /\ turnings' = turnings + 1)
        BY <1>3 DEF TurnOpens, TurnIsOver
      <4> QED
        BY <4>1, <4>2
    <3> QED
      BY <1>0, <2>1, <3>1 DEF AgentFits
  <2>4. CASE TurnIsOver(t)
    <3>1. TurnsFit'
      BY <1>0, <2>1, <2>4, <2>a, IdleIsFine, OneTurn DEF TurnIsOver
    <3> QED
      BY <2>2, <2>3, <3>1 DEF SetupInv
  <2>5. CASE TurnOpens(t)
    <3>1. PICK has \in {saved, OwnOptions}, wish \in TurnWish :
            /\ setup' = [setup EXCEPT ![t] = [Idle EXCEPT !.at = "opened", !.wish = wish, !.has = has]]
            /\ allowed' = (allowed \/ wish.permission = "bypass")
      BY <2>5 DEF TurnOpens
    <3> DEFINE new == [Idle EXCEPT !.at = "opened", !.wish = wish, !.has = has]
    <3>2. /\ has \in Options /\ (NeverAuto(kind) => has.permission \notin AutoRun)
          /\ has.permission \in AutoRun \/ wish.permission = "bypass" => allowed'
      BY <1>0, <3>1, IdleIs DEF SavedFits
    <3>3. Idle \in Turns /\ "opened" \in ToSet(Steps)
      BY IdleIsFine, StepsAre DEF TurnIsFine
    <3>4. new \in Turns /\ new.at = "opened" /\ new.has = has /\ new.wish = wish
      BY <3>2, <3>3 DEF Turns
    <3>5. "opened" \in Settled(kind) => NeverAuto(kind)
      BY DEF Settled, NeverAuto
    <3>6. setup' = [setup EXCEPT ![t] = new]
      BY <3>1
    <3> HIDE DEF new
    <3>7. TurnIsFine(new, kind, allowed')
      BY <3>2, <3>4, <3>5 DEF TurnIsFine, MayRun
    <3>8. TurnsFit'
      BY <1>0, <2>1, <2>a, <3>6, <3>7, OneTurn
    <3> QED
      BY <2>2, <2>3, <3>8 DEF SetupInv
  <2> QED
    BY <1>3, <2>4, <2>5
<1>4. ASSUME NEW t \in Turning,
             SetsModel(t) \/ SetsEffort(t) \/ SetsInteraction(t) \/ SetsPermission(t)
               \/ SetsSessionMode(t) \/ PromptIsSent(t)
      PROVE  SetupInv'
  BY <1>4, AcpKeepsSetup
<1>5. ASSUME NEW t \in Turning, ResolvesModel(t) \/ ResolvesReasoning(t) \/ TurnStarts(t)
      PROVE  SetupInv'
  BY <1>5, CodexKeepsSetup
<1> QED
  BY <1>1, <1>2, <1>3, <1>4, <1>5 DEF SetupNext

\* No turn runs unasked that was not to.
LEMMA SetupIsSafe == SetupInv => AutoRunIsAsked /\ SetupTypeOK
<1>1. \A k : "runs" \in Settled(k)
  BY StepsAre DEF Settled
<1>2. SetupInv => AutoRunIsAsked
  <2> SUFFICES ASSUME SetupInv, NEW t \in Turning, setup[t].at = "runs",
                      setup[t].has.permission \in AutoRun, setup[t].wish.permission # "bypass"
               PROVE  setup[t].lack = "first" \/ (setup[t].lack = "request" /\ allowed)
    BY DEF AutoRunIsAsked
  <2>1. TurnIsFine(setup[t], kind, allowed) /\ setup[t] \in Turns
    BY DEF SetupInv, TurnsFit
  <2>2. setup[t].lack # "none" /\ allowed
    BY <1>1, <2>1 DEF TurnIsFine, MayRun
  <2> QED
    BY <2>1, <2>2 DEF Turns
<1>3. SetupInv => SetupTypeOK
  BY DEF SetupInv, TurnsFit, SavedFits, AgentFits, SetupTypeOK, Turns
<1> QED
  BY <1>2, <1>3

-----------------------------------------------------------------------------
(* What goes over the wire to a machine *)

\* What goes over the wire: a key, or a button of the pointer, down or up.
WireKey == {"button", "left", "wheel", "ctrl", "shift", "a", "b"}
WireEvent == {"down", "up"} \X WireKey

\* Whatever goes down comes up again later.
Released(events) ==
  \A i \in 1 .. Len(events) : \A k \in WireKey :
    events[i] = Down(k) => \E j \in i + 1 .. Len(events) : events[j] = Up(k)

\* Sequences of events that leave nothing down.
WholeInput(events) == events \in Seq(WireEvent) /\ Released(events)

\* An event is of one key.
LEMMA WireEventIs ==
  /\ \A k \in WireKey : Down(k) \in WireEvent /\ Up(k) \in WireEvent
  /\ \A e \in WireEvent : \E k \in WireKey : e = Down(k) \/ e = Up(k)
  /\ \A k, l \in WireKey :
       Down(k) # Up(l) /\ (Down(k) = Down(l) => k = l) /\ (Up(k) = Up(l) => k = l)
  /\ \A k \in WireKey : Down(k)[2] = k /\ Up(k)[2] = k
  BY DEF Down, Up, WireEvent

\* What a concatenation has where.
IsJoin(u, s, t) ==
  /\ Len(s) \in Nat /\ Len(t) \in Nat /\ Len(u) = Len(s) + Len(t)
  /\ \A i \in 1 .. Len(s) : u[i] = s[i]
  /\ \A i \in 1 .. Len(t) : u[Len(s) + i] = t[i]

\* One sequence after another.
LEMMA ConcatIs ==
  ASSUME NEW S, NEW s \in Seq(S), NEW t \in Seq(S)
  PROVE  s \o t \in Seq(S) /\ IsJoin(s \o t, s, t)
<1>1. ASSUME NEW i \in 1 .. Len(t)
      PROVE  (s \o t)[Len(s) + i] = t[i]
  <2>1. Len(s) + i \in 1 .. Len(s) + Len(t) /\ ~ (Len(s) + i <= Len(s)) /\ (Len(s) + i) - Len(s) = i
    OBVIOUS
  <2> QED
    BY <2>1
<1> QED
  BY <1>1 DEF IsJoin

\* One whole input after the other is whole.
LEMMA WholeThenWhole ==
  ASSUME NEW s, NEW t, WholeInput(s), WholeInput(t)
  PROVE  WholeInput(s \o t)
<1> DEFINE n == Len(s)
           m == Len(t)
           u == s \o t
<1>1. /\ n \in Nat /\ m \in Nat /\ u \in Seq(WireEvent) /\ Len(u) = n + m
      /\ \A i \in 1 .. n : u[i] = s[i]
      /\ \A i \in 1 .. m : u[n + i] = t[i]
  <2>1. s \in Seq(WireEvent) /\ t \in Seq(WireEvent)
    BY DEF WholeInput
  <2> QED
    BY <2>1, ConcatIs DEF IsJoin
<1> SUFFICES ASSUME NEW i \in 1 .. n + m, NEW k \in WireKey, u[i] = Down(k)
             PROVE  \E j \in i + 1 .. n + m : u[j] = Up(k)
  BY <1>1 DEF WholeInput, Released
<1> HIDE DEF n, m, u
<1>2. CASE i \in 1 .. n
  <2>1. PICK j \in i + 1 .. n : s[j] = Up(k)
    BY <1>1, <1>2 DEF WholeInput, Released, n
  <2>2. j \in i + 1 .. n + m /\ u[j] = Up(k)
    BY <1>1, <2>1
  <2> QED
    BY <2>2
<1>3. CASE i \notin 1 .. n
  <2>1. i - n \in 1 .. m /\ t[i - n] = Down(k)
    <3>1. i - n \in 1 .. m /\ n + (i - n) = i
      BY <1>1, <1>3
    <3> QED
      BY <1>1, <3>1
  <2>2. PICK j \in (i - n) + 1 .. m : t[j] = Up(k)
    BY <2>1 DEF WholeInput, Released, m
  <2>3. n + j \in i + 1 .. n + m /\ u[n + j] = Up(k)
    BY <1>1, <2>1, <2>2
  <2> QED
    BY <2>3
<1> QED
  BY <1>2, <1>3

\* A chord lets go of its key and of every modifier, the last one first.
LEMMA ChordIsWhole ==
  ASSUME NEW mods \in Seq(WireKey), NEW key \in WireKey
  PROVE  WholeInput(Chord(mods, key))
<1> DEFINE n == Len(mods)
           downs == [i \in DOMAIN mods |-> Down(mods[i])]
           ups == [i \in DOMAIN mods |-> Up(mods[i])]
           u == Chord(mods, key)
<1>1. n \in Nat /\ DOMAIN mods = 1 .. n /\ \A i \in 1 .. n : mods[i] \in WireKey
  OBVIOUS
<1>2. /\ downs \in Seq(WireEvent) /\ Len(downs) = n /\ \A i \in 1 .. n : downs[i] = Down(mods[i])
      /\ ups \in Seq(WireEvent) /\ Len(ups) = n /\ \A i \in 1 .. n : ups[i] = Up(mods[i])
  BY <1>1, WireEventIs
<1> HIDE DEF downs, ups
<1>3. /\ Reverse(ups) \in Seq(WireEvent) /\ Len(Reverse(ups)) = n
      /\ \A i \in 1 .. n : Reverse(ups)[i] = Up(mods[n - i + 1])
  BY <1>1, <1>2 DEF Reverse
<1>4. <<Down(key), Up(key)>> \in Seq(WireEvent)
  BY WireEventIs
<1>5. /\ u = downs \o <<Down(key), Up(key)>> \o Reverse(ups)
  BY DEF Chord, downs, ups
<1>6. /\ u \in Seq(WireEvent) /\ Len(u) = n + 2 + n
      /\ \A i \in 1 .. n : u[i] = Down(mods[i])
      /\ u[n + 1] = Down(key) /\ u[n + 2] = Up(key)
      /\ \A i \in 1 .. n : u[n + 2 + i] = Up(mods[n - i + 1])
  <2> DEFINE mid == <<Down(key), Up(key)>>
             left == downs \o mid
  <2>1. /\ left \in Seq(WireEvent) /\ Len(left) = n + 2
        /\ \A i \in 1 .. n : left[i] = downs[i]
        /\ left[n + 1] = Down(key) /\ left[n + 2] = Up(key)
    <3>1. mid \in Seq(WireEvent) /\ Len(mid) = 2 /\ mid[1] = Down(key) /\ mid[2] = Up(key)
      BY <1>4
    <3> HIDE DEF mid
    <3>2. 1 \in 1 .. Len(mid) /\ 2 \in 1 .. Len(mid)
      BY <3>1
    <3> QED
      <4>1. left \in Seq(WireEvent) /\ IsJoin(left, downs, mid)
        BY <1>2, <3>1, ConcatIs
      <4> QED
        BY <1>2, <3>1, <3>2, <4>1 DEF IsJoin
  <2>2. u = left \o Reverse(ups)
    BY <1>5
  <2> HIDE DEF left, u, n
  <2>3. /\ u \in Seq(WireEvent) /\ Len(u) = n + 2 + n
        /\ \A i \in 1 .. n + 2 : u[i] = left[i]
        /\ \A i \in 1 .. n : u[n + 2 + i] = Reverse(ups)[i]
    <3>1. u \in Seq(WireEvent) /\ IsJoin(u, left, Reverse(ups))
      BY <1>3, <2>1, <2>2, ConcatIs
    <3> QED
      BY <1>3, <2>1, <3>1 DEF IsJoin
  <2>4. 1 .. n \subseteq 1 .. n + 2 /\ n + 1 \in 1 .. n + 2 /\ n + 2 \in 1 .. n + 2
    BY <1>1
  <2> QED
    BY <1>2, <1>3, <2>1, <2>3, <2>4
<1> SUFFICES ASSUME NEW i \in 1 .. n + 2 + n, NEW k \in WireKey, u[i] = Down(k)
             PROVE  \E j \in i + 1 .. n + 2 + n : u[j] = Up(k)
  BY <1>6 DEF WholeInput, Released
<1> HIDE DEF n, u
<1>7. CASE i \in 1 .. n
  <2>1. k = mods[i]
    BY <1>1, <1>6, <1>7, WireEventIs
  <2>2. (n - i) + 1 \in 1 .. n /\ n - ((n - i) + 1) + 1 = i
    BY <1>1, <1>7
  <2>3. u[n + 2 + ((n - i) + 1)] = Up(k)
    BY <1>6, <2>1, <2>2
  <2>4. n + 2 + ((n - i) + 1) \in i + 1 .. n + 2 + n
    BY <1>1, <1>7
  <2> QED
    BY <2>3, <2>4
<1>8. CASE i = n + 1
  <2>1. k = key
    BY <1>6, <1>8, WireEventIs
  <2> QED
    BY <1>1, <1>6, <1>8, <2>1
<1>9. i # n + 2
  BY <1>6, WireEventIs
<1>10. i \notin n + 3 .. n + 2 + n
  <2> SUFFICES ASSUME i \in n + 3 .. n + 2 + n
               PROVE  FALSE
    OBVIOUS
  <2>1. PICK m \in 1 .. n : n + 2 + m = i /\ n - m + 1 \in 1 .. n
    <3>1. i - (n + 2) \in 1 .. n /\ n + 2 + (i - (n + 2)) = i /\ n - (i - (n + 2)) + 1 \in 1 .. n
      BY <1>1
    <3> QED
      BY <3>1
  <2>2. u[i] = Up(mods[n - m + 1]) /\ mods[n - m + 1] \in WireKey
    BY <1>1, <1>6, <2>1
  <2> QED
    <3>1. PICK l \in WireKey : u[i] = Up(l)
      BY <2>2
    <3> QED
      BY <3>1, WireEventIs
<1> QED
  BY <1>1, <1>7, <1>8, <1>9, <1>10

\* What an input sends leaves nothing down.
LEMMA EventsAreWhole ==
  ASSUME NEW input \in Inputs \ {"off", "bad"}
  PROVE  WholeInput(Events(input))
<1>1. WholeInput(<<>>)
  BY DEF WholeInput, Released
<1>2. ASSUME NEW k \in WireKey PROVE WholeInput(<<Up(k)>>)
  BY <1>2, WireEventIs DEF WholeInput, Released
<1>3. ASSUME NEW k \in WireKey PROVE WholeInput(<<Down(k), Up(k)>>)
  <2>1. <<Down(k), Up(k)>> \in Seq(WireEvent)
    BY WireEventIs
  <2> QED
    BY <2>1, WireEventIs DEF WholeInput, Released
<1>4. ASSUME NEW k \in WireKey
      PROVE  WholeInput(Click(k)) /\ WholeInput(Tail(Click(k)))
  <2>1. Click(k) = <<Up("button")>> \o <<Down(k), Up(k)>> /\ Tail(Click(k)) = <<Down(k), Up(k)>>
    BY DEF Click
  <2>2. WholeInput(<<Up("button")>>) /\ WholeInput(<<Down(k), Up(k)>>)
    BY <1>2, <1>3 DEF WireKey
  <2> QED
    BY <2>1, <2>2, WholeThenWhole
<1>5. /\ WithShift(<<"ctrl">>, TRUE) \in Seq(WireKey) /\ WithShift(<<>>, FALSE) \in Seq(WireKey)
      /\ <<"shift">> \in Seq(WireKey) /\ <<>> \in Seq(WireKey)
  <2>1. \A mods, needs : WithShift(mods, needs) \in {mods, Append(mods, "shift")}
    BY DEF WithShift
  <2>2. <<"ctrl">> \in Seq(WireKey) /\ <<"shift">> \in Seq(WireKey) /\ <<>> \in Seq(WireKey)
    BY DEF WireKey
  <2>3. \A mods \in Seq(WireKey) : Append(mods, "shift") \in Seq(WireKey)
    BY DEF WireKey
  <2> QED
    BY <2>1, <2>2, <2>3
<1>6. /\ WholeInput(Chord(WithShift(<<"ctrl">>, TRUE), "a"))
      /\ WholeInput(Chord(WithShift(<<>>, FALSE), "shift"))
      /\ WholeInput(Chord(<<>>, "a")) /\ WholeInput(Chord(<<"shift">>, "b"))
  BY <1>5, ChordIsWhole DEF WireKey
<1>7. \A ch \in {"a", "B", "odd"} : WholeInput(Typed(ch))
  BY <1>1, <1>6 DEF Typed
<1>8. CASE input = "move"
  BY <1>2, <1>8 DEF Events, WireKey
<1>9. CASE input = "click"
  BY <1>4, <1>9 DEF Events, WireKey
<1>10. CASE input = "scroll"
  <2>1. WholeInput(Click("wheel")) /\ WholeInput(Tail(Click("wheel")))
    BY <1>4 DEF WireKey
  <2>2. WholeInput(Click("wheel") \o Tail(Click("wheel")))
    BY <2>1, WholeThenWhole
  <2> QED
    BY <1>10, <2>2 DEF Events
<1>11. CASE input \in {"ctrl+A", "shift"}
  BY <1>6, <1>11 DEF Events
<1>12. CASE input = "text"
  <2>1. WholeInput(Typed("a")) /\ WholeInput(Typed("B")) /\ WholeInput(Typed("odd"))
    BY <1>7
  <2>2. WholeInput(Typed("a") \o Typed("B"))
    BY <2>1, WholeThenWhole
  <2>3. WholeInput(Typed("a") \o Typed("B") \o Typed("odd"))
    BY <2>1, <2>2, WholeThenWhole
  <2> QED
    BY <1>12, <2>3 DEF Events
<1> QED
  BY <1>8, <1>9, <1>10, <1>11, <1>12 DEF Inputs

\* After the whole of it nothing is down, and after a part of it keys are.
LEMMA HeldOfWhole ==
  ASSUME NEW events, WholeInput(events), NEW n \in 0 .. Len(events)
  PROVE  /\ Held(SubSeq(events, 1, n)) \subseteq WireKey
         /\ n = Len(events) => Held(SubSeq(events, 1, n)) = {}
<1>1. events \in Seq(WireEvent) /\ Len(events) \in Nat
  BY DEF WholeInput
<1> DEFINE piece == SubSeq(events, 1, n)
<1>2. piece \in Seq(WireEvent)
  BY <1>1
<1>3. Held(piece) \subseteq WireKey
  <2> SUFFICES ASSUME NEW i \in DOMAIN piece
               PROVE  piece[i][2] \in WireKey
    BY DEF Held
  <2>1. piece[i] \in WireEvent
    BY <1>2
  <2> QED
    BY <2>1 DEF WireEvent
<1>4. ASSUME n = Len(events)
      PROVE  Held(piece) = {}
  <2>1. piece = events
    BY <1>1, <1>4, SubSeqFull
  <2> SUFFICES ASSUME NEW k \in Held(events)
               PROVE  FALSE
    BY <2>1
  <2>2. k \in WireKey
    BY <1>3, <2>1
  <2>3. PICK i \in DOMAIN events : /\ events[i] = Down(k)
                                   /\ \A j \in i + 1 .. Len(events) : events[j] # Up(k)
    BY DEF Held
  <2>4. i \in 1 .. Len(events)
    BY <1>1
  <2> QED
    BY <2>2, <2>3, <2>4 DEF WholeInput, Released
<1> QED
  BY <1>3, <1>4

\* A rectangle that fits is written inside the canvas.
LEMMA PlacesFit ==
  ASSUME NEW r \in Rects, RectFits(r)
  PROVE  Places(r) \subseteq 0 .. Width * Height - 1
<1>1. /\ r[1] \in Nat /\ r[2] \in Nat /\ r[3] \in Nat /\ r[4] \in Nat
      /\ r[1] + r[3] <= 2 /\ r[2] + r[4] <= 2
  BY DEF Rects, RectFits, Width, Height
<1>2. ASSUME NEW i \in 0 .. r[3] - 1, NEW j \in 0 .. r[4] - 1
      PROVE  (r[2] + j) * 2 + r[1] + i \in 0 .. 3
  <2>1. \A a, b, c, d \in Nat : \A k \in 0 .. c - 1, l \in 0 .. d - 1 :
          a + c <= 2 /\ b + d <= 2 => (b + l) * 2 + a + k \in 0 .. 3
    OBVIOUS
  <2> QED
    BY <1>1, <2>1
<1> QED
  BY <1>2 DEF Places, Width, Height

-----------------------------------------------------------------------------
(* Machines: the rows and the changes under way *)

\* Ports are numbers, and the default ones are among them.
LEMMA PortsAre ==
  /\ MaxPort \in Nat /\ BadPort = MaxPort + 1 /\ NoPort = 0
  /\ SshPort \in 1 .. MaxPort /\ VncPort \in 1 .. MaxPort /\ VncPort + 1 \in 1 .. MaxPort
  BY SMT DEF MaxPort, BadPort, SshPort, VncPort, NoPort

\* Where the pin of a machine was seen.
SeenAt == [host : Host \cup {"none", "owner"}, port : 0 .. MaxPort]

\* A row of the table.
MachineRow ==
  [live : BOOLEAN, kind : {"vnc", "ssh"}, host : Host, port : 1 .. MaxPort, user : {"", "u"},
   pin : HostKey \cup {""}, at : SeenAt,
   secrets : SUBSET Secret, astray : BOOLEAN, raced : BOOLEAN]

\* A record of such fields is a row.
LEMMA RowIs ==
  ASSUME NEW live \in BOOLEAN, NEW madeKind \in {"vnc", "ssh"}, NEW host \in Host,
         NEW port \in 1 .. MaxPort, NEW madeUser \in {"", "u"}, NEW pin \in HostKey \cup {""},
         NEW at \in SeenAt,
         NEW secrets \in SUBSET Secret, NEW astray \in BOOLEAN, NEW raced \in BOOLEAN
  PROVE  [live |-> live, kind |-> madeKind, host |-> host, port |-> port, user |-> madeUser,
          pin |-> pin, at |-> at, secrets |-> secrets, astray |-> astray,
          raced |-> raced] \in MachineRow
  BY DEF MachineRow

\* What PinBelongsToEndpoint and SshHasLogin say of a row.
MachineIsFine(r) ==
  /\ r \in MachineRow
  /\ r.live /\ r.pin # "" => r.at \in {Endpoint(r), ByOwner} \/ r.astray
  /\ r.live /\ r.kind = "ssh" => r.user # "" \/ r.raced

\* What a request may change of it.
MachinePatch ==
  [kind : {"keep", "vnc", "ssh"}, host : Host \cup {"keep"}, port : 0 .. MaxPort,
   user : {"keep", "", "u"}, pin : {"keep", "", "k2"}, secrets : {"keep", "none", "key"}]

\* Of the row that it was made for a patch keeps the endpoint, or it says what
\* becomes of the pin; and what is driven over SSH has a login.
PatchFits(p, r) ==
  /\ p.pin = "keep" => Coalesce(p.host, r.host) = r.host /\ FirstGiven(p.port, r.port) = r.port
  /\ Coalesce(p.kind, r.kind) = "ssh" => Coalesce(p.user, r.user) # ""

\* A change under way has read the row that it was made for.
OwningFits(o) ==
  o # NotOwning => /\ o.id \in Machine /\ o.patch \in MachinePatch /\ o.existing \in MachineRow
                   /\ PatchFits(o.patch, o.existing)

\* A pasted machine has the fields of one.
RequestFits(req) ==
  /\ req.kind \in {"keep", "vnc", "ssh"} /\ req.user \in {"keep", "", "u", "bad"}
  /\ req.pin \in {"keep", "", "k2", "bad"} /\ req.secrets \in {"keep", "key", "none", "bad"}
  /\ req.port \in 0 .. BadPort /\ req.url.port \in 0 .. BadPort
  /\ req.url.host \in Host \cup {"keep"} /\ req.url.user \in {"keep", "u"}

\* Every request has the fields of one.
LEMMA RequestIs == \A req \in MachineRequests : RequestFits(req)
<1> SUFFICES ASSUME NEW req \in MachineRequests PROVE RequestFits(req)
  OBVIOUS
<1> DEFINE Urls == {NoUrl, Url("h1", NoPort, "keep"), Url("h2", SshPort, "u"),
                    Url("h1", BadPort, "keep")}
<1>1. \A url \in Urls : /\ url.host \in Host \cup {"keep"} /\ url.port \in 0 .. BadPort
                       /\ url.user \in {"keep", "u"}
  BY PortsAre DEF NoUrl, Url, Host
<1>2. /\ req.url \in Urls /\ req.port \in 0 .. BadPort
      /\ req.kind \in {"keep", "vnc", "ssh"} /\ req.user \in {"keep", "", "u", "bad"}
      /\ req.pin \in {"keep", "", "k2", "bad"} /\ req.secrets \in {"keep", "key", "none", "bad"}
  <2> HIDE DEF Urls
  <2>1. /\ NoUrl \in Urls /\ Url("h1", NoPort, "keep") \in Urls /\ Url("h2", SshPort, "u") \in Urls
        /\ Url("h1", BadPort, "keep") \in Urls
    BY DEF Urls
  <2>2. CASE req \in [kind : {"keep", "vnc", "ssh"}, url : {NoUrl, Url("h1", NoPort, "keep")},
                     port : {NoPort}, user : {"keep", "", "u"}, pin : {"keep"}, secrets : {"keep"}]
    <3>1. /\ req.url \in {NoUrl, Url("h1", NoPort, "keep")} /\ req.port = NoPort
          /\ req.kind \in {"keep", "vnc", "ssh"} /\ req.user \in {"keep", "", "u"}
          /\ req.pin = "keep" /\ req.secrets = "keep"
      BY <2>2
    <3>2. NoPort \in 0 .. BadPort /\ BadPort \in 0 .. BadPort /\ VncPort + 1 \in 0 .. BadPort
      BY PortsAre
    <3> QED
      BY <2>1, <3>1, <3>2
  <2>3. CASE req \in [kind : {"keep"}, url : {NoUrl, Url("h2", SshPort, "u")}, port : {NoPort, VncPort + 1},
                     user : {"keep"}, pin : {"keep", "", "k2"}, secrets : {"keep"}]
    <3>1. /\ req.url \in {NoUrl, Url("h2", SshPort, "u")} /\ req.port \in {NoPort, VncPort + 1}
          /\ req.kind = "keep" /\ req.user = "keep"
          /\ req.pin \in {"keep", "", "k2"} /\ req.secrets = "keep"
      BY <2>3
    <3>2. NoPort \in 0 .. BadPort /\ BadPort \in 0 .. BadPort /\ VncPort + 1 \in 0 .. BadPort
      BY PortsAre
    <3> QED
      BY <2>1, <3>1, <3>2
  <2>4. CASE req \in [kind : {"keep", "ssh"},
                     url : {Url("h1", NoPort, "keep"), Url("h1", BadPort, "keep")},
                     port : {NoPort, BadPort}, user : {"u", "bad"}, pin : {"keep", "bad"},
                     secrets : {"key", "none", "bad"}]
    <3>1. /\ req.url \in {Url("h1", NoPort, "keep"), Url("h1", BadPort, "keep")}
          /\ req.port \in {NoPort, BadPort}
          /\ req.kind \in {"keep", "ssh"} /\ req.user \in {"u", "bad"}
          /\ req.pin \in {"keep", "bad"} /\ req.secrets \in {"key", "none", "bad"}
      BY <2>4
    <3>2. NoPort \in 0 .. BadPort /\ BadPort \in 0 .. BadPort /\ VncPort + 1 \in 0 .. BadPort
      BY PortsAre
    <3> QED
      BY <2>1, <3>1, <3>2
  <2> QED
    BY <2>2, <2>3, <2>4 DEF MachineRequests
<1> HIDE DEF Urls
<1> QED
  BY <1>1, <1>2 DEF RequestFits

\* A created row is fine.
LEMMA CreatedIsFine ==
  ASSUME NEW req \in MachineRequests, ValidCreate(req)
  PROVE  MachineIsFine(Created(req))
<1> DEFINE madeKind == IF req.kind = "keep" THEN "vnc" ELSE req.kind
           madeUser == UserField(madeKind, req.url, req.user)
           port == FirstGiven(FirstGiven(req.url.port, req.port), DefaultPort(madeKind))
           login == IF madeUser = "keep" THEN "" ELSE madeUser
           secrets == SecretsAfter({}, req)
<1>0. RequestFits(req)
  BY RequestIs
<1>1. /\ madeKind \in {"vnc", "ssh"} /\ madeUser \in {"keep", "", "u"} /\ port \in 1 .. MaxPort
      /\ (madeKind = "ssh" => madeUser \notin {"keep", ""}) /\ req.url.host \in Host
  <2>1. /\ ValidUser(madeUser) /\ ValidPort(port) /\ ValidUrl(req.url)
        /\ madeKind = "ssh" => madeUser \notin {"keep", ""}
    BY DEF ValidCreate
  <2>2. madeKind \in {"vnc", "ssh"}
    BY <1>0 DEF RequestFits
  <2> HIDE DEF madeKind, madeUser, port
  <2> QED
    BY <2>1, <2>2 DEF ValidUser, ValidPort, ValidUrl
<1>2. secrets \in SUBSET Secret
  <2>1. req.secrets \in {"keep", "key", "none"}
    BY <1>0 DEF ValidCreate, RequestFits
  <2> QED
    BY <2>1 DEF SecretsAfter, Secret
<1>3. login \in {"", "u"} /\ (madeKind = "ssh" => login # "")
  BY <1>1
<1>4. Created(req) = [NoMachine EXCEPT !.live = TRUE, !.kind = madeKind, !.host = req.url.host,
                        !.port = port, !.user = login, !.secrets = secrets]
  BY DEF Created
<1> HIDE DEF madeKind, madeUser, port, login, secrets
<1> DEFINE new == [live |-> TRUE, kind |-> madeKind, host |-> req.url.host, port |-> port,
                   user |-> login, pin |-> "", at |-> NoPin, secrets |-> secrets,
                   astray |-> FALSE, raced |-> FALSE]
<1>5. Created(req) = new
  BY <1>4 DEF NoMachine
<1>6. new \in MachineRow
  <2>1. NoPin \in SeenAt
    BY PortsAre DEF NoPin, SeenAt
  <2> QED
    BY <1>1, <1>2, <1>3, <2>1, RowIs
<1>7. new.pin = "" /\ new.kind = madeKind /\ new.user = login
  OBVIOUS
<1> HIDE DEF new
<1>8. MachineIsFine(new)
  BY <1>3, <1>6, <1>7 DEF MachineIsFine
<1> QED
  BY <1>5, <1>8


\* A valid change is made for the row that it was read with.
LEMMA PatchOfFits ==
  ASSUME NEW req \in MachineRequests, NEW old \in MachineRow, ValidUpdate(req, old)
  PROVE  PatchOf(req, old) \in MachinePatch /\ PatchFits(PatchOf(req, old), old)
<1> DEFINE madeKind == MergedKind(req, old)
           madeUser == UserField(madeKind, req.url, req.user)
           port == PatchPort(req, old)
           p == PatchOf(req, old)
<1>0. RequestFits(req)
  BY RequestIs
<1>1. /\ madeKind \in {"vnc", "ssh"} /\ madeKind = Coalesce(req.kind, old.kind)
      /\ madeUser \in {"keep", "", "u"}
      /\ madeKind = "ssh" => Coalesce(madeUser, old.user) # ""
  <2>1. madeKind \in {"vnc", "ssh"} /\ madeKind = Coalesce(req.kind, old.kind)
    BY <1>0 DEF RequestFits, MachineRow, MergedKind, Coalesce
  <2>2. /\ ValidUser(madeUser)
        /\ madeKind = "ssh" => (IF madeUser = "keep" THEN old.user ELSE madeUser) # ""
    BY DEF ValidUpdate
  <2> HIDE DEF madeKind, madeUser, port
  <2> QED
    BY <2>1, <2>2 DEF ValidUser, Coalesce
<1>2. port \in 0 .. MaxPort
  <2>1. FirstGiven(req.url.port, req.port) \in 0 .. MaxPort
    <3>1. FirstGiven(req.url.port, req.port) \in 0 .. BadPort
      BY <1>0 DEF RequestFits, FirstGiven
    <3>2. FirstGiven(req.url.port, req.port) # BadPort
      BY DEF ValidUpdate
    <3> QED
      BY <3>1, <3>2, PortsAre
  <2> QED
    BY <2>1, PortsAre DEF PatchPort, DefaultPort
<1>3. req.pin \in {"keep", "", "k2"} /\ req.secrets \in {"keep", "key", "none"}
  BY <1>0 DEF RequestFits, ValidUpdate
<1>4. /\ p.kind = req.kind /\ p.host = req.url.host /\ p.port = port /\ p.user = madeUser
      /\ p.pin = (IF req.pin = "keep" /\ Moved(req, old) THEN "" ELSE req.pin)
      /\ p.secrets = req.secrets
  BY DEF PatchOf
<1>5. p \in MachinePatch
  <2>1. (IF req.pin = "keep" /\ Moved(req, old) THEN "" ELSE req.pin) \in {"keep", "", "k2"}
    BY <1>3
  <2> HIDE DEF madeKind, madeUser, port
  <2>2. madeUser = UserField(MergedKind(req, old), req.url, req.user) /\ port = PatchPort(req, old)
    BY DEF madeKind, madeUser, port
  <2> QED
    BY <1>0, <1>1, <1>2, <1>3, <2>1, <2>2 DEF RequestFits, MachinePatch, PatchOf
<1>6. ASSUME p.pin = "keep"
      PROVE  Coalesce(p.host, old.host) = old.host /\ FirstGiven(p.port, old.port) = old.port
  <2>1. ~ Moved(req, old)
    BY <1>4, <1>6
  <2> QED
    BY <1>4, <2>1 DEF Moved, Coalesce, FirstGiven
<1> QED
  BY <1>1, <1>4, <1>5, <1>6 DEF PatchFits

\* A change written over the row it was made for leaves it fine; over another
\* row it leaves a trace.
LEMMA PatchedIsFine ==
  ASSUME NEW r, MachineIsFine(r), r.live,
         NEW p \in MachinePatch, NEW old \in MachineRow, PatchFits(p, old)
  PROVE  MachineIsFine(PatchedRow(r, p, old # r))
<1> DEFINE raced == old # r
           astray == p.pin = "keep" /\ (r.astray \/ raced)
           madeKind == Coalesce(p.kind, r.kind)
           host == Coalesce(p.host, r.host)
           port == FirstGiven(p.port, r.port)
           madeUser == Coalesce(p.user, r.user)
           pin == Coalesce(p.pin, r.pin)
           at == IF p.pin = "keep" THEN r.at ELSE IF p.pin = "" THEN NoPin ELSE ByOwner
           secrets == SecretsAfter(r.secrets, p)
           new == [live |-> r.live, kind |-> madeKind, host |-> host, port |-> port, user |-> madeUser,
                   pin |-> pin, at |-> at, secrets |-> secrets, astray |-> astray,
                   raced |-> raced]
<1>0. r \in MachineRow
  BY DEF MachineIsFine
<1>1. PatchedRow(r, p, raced) = new
  BY DEF PatchedRow
<1>2. /\ r.live \in BOOLEAN /\ r.kind \in {"vnc", "ssh"} /\ r.host \in Host
      /\ r.port \in 1 .. MaxPort /\ r.user \in {"", "u"} /\ r.pin \in HostKey \cup {""}
      /\ r.at \in SeenAt /\ r.secrets \in SUBSET Secret
  BY <1>0 DEF MachineRow
<1>3. /\ p.kind \in {"keep", "vnc", "ssh"} /\ p.host \in Host \cup {"keep"}
      /\ p.port \in 0 .. MaxPort /\ p.user \in {"keep", "", "u"} /\ p.pin \in {"keep", "", "k2"}
      /\ p.secrets \in {"keep", "none", "key"}
  BY DEF MachinePatch
<1>4. madeKind \in {"vnc", "ssh"} /\ host \in Host
  BY <1>2, <1>3 DEF Coalesce, Host
<1>5. port \in 1 .. MaxPort
  <2>1. r.port \in 1 .. MaxPort /\ p.port \in 0 .. MaxPort
    BY <1>2, <1>3
  <2> QED
    BY <2>1, PortsAre DEF FirstGiven
<1>6. madeUser \in {"", "u"} /\ pin \in HostKey \cup {""}
  BY <1>2, <1>3 DEF Coalesce, HostKey
<1>7. secrets \in SUBSET Secret
  BY <1>2, <1>3 DEF SecretsAfter, Secret
<1>8. at \in SeenAt
  <2>1. NoPin \in SeenAt /\ ByOwner \in SeenAt
    BY PortsAre DEF NoPin, ByOwner, SeenAt
  <2> QED
    BY <1>2, <2>1
<1>9. new \in MachineRow
  <2>1. raced \in BOOLEAN /\ astray \in BOOLEAN
    BY <1>0 DEF MachineRow
  <2> HIDE DEF raced, astray, madeKind, host, port, madeUser, pin, at, secrets
  <2> QED
    BY <1>2, <1>4, <1>5, <1>6, <1>7, <1>8, <2>1, RowIs
<1>10. ASSUME ~ astray, pin # ""
       PROVE  at \in {Endpoint(new), ByOwner}
  <2>1. CASE p.pin = "keep"
    <3>1. old = r /\ ~ r.astray
      BY <1>10, <2>1
    <3>2. host = r.host /\ port = r.port /\ pin = r.pin /\ at = r.at
      BY <1>10, <2>1, <3>1 DEF PatchFits, Coalesce
    <3>3. Endpoint(new) = Endpoint(r)
      BY <3>2 DEF Endpoint
    <3> QED
      BY <1>10, <3>1, <3>2, <3>3 DEF MachineIsFine
  <2>2. CASE p.pin # "keep"
    BY <1>10, <2>2 DEF Coalesce
  <2> QED
    BY <2>1, <2>2
<1>11. ASSUME ~ raced, madeKind = "ssh"
       PROVE  madeUser # ""
  BY <1>11 DEF PatchFits
<1>12. /\ new.pin = pin /\ new.at = at /\ new.kind = madeKind /\ new.user = madeUser
       /\ new.raced = raced /\ new.astray = astray
  OBVIOUS
<1> HIDE DEF new, raced, astray, madeKind, host, port, madeUser, pin, at, secrets
<1>13. MachineIsFine(new)
  BY <1>9, <1>10, <1>11, <1>12 DEF MachineIsFine
<1> QED
  BY <1>1, <1>13 DEF raced

\* A request, and what is known of it.
Calls ==
  [step : {"none", "allowed", "loaded", "connected", "pinned", "answered"},
   op : {"none", "test", "screenshot", "exec", "input"},
   id : Machine \cup {CHOOSE m \in Machine : TRUE}, row : MachineRow,
   input : Inputs \cup {"none"}, seen : HostKey \cup {""}, sent : Nat,
   held : SUBSET WireKey, pixels : SUBSET (0 .. Width * Height - 1),
   answer : {"none", "200", "400", "401", "403", "404", "502", "504"}]

\* Until a request is answered nothing went over the wire.
CallIsFine(k) ==
  /\ k \in Calls
  /\ k.step # "none" => k.id \in Machine
  /\ k.step # "answered" => k.sent = 0 /\ k.held = {}
  /\ k.step \in {"allowed", "loaded", "connected"} /\ k.op = "input" => k.input \in Inputs \ {"bad"}
  /\ k.op = "input" =>
       /\ k.answer = "400" => k.sent = 0
       /\ k.input = "off" => k.sent = 0
       /\ k.answer = "200" => k.held = {}

\* The rows, the grants, the calls, the changes under way and the counts.
RowsFit == mrow \in [Machine -> MachineRow] /\ \A m \in Machine : MachineIsFine(mrow[m])
GrantsFit == DOMAIN grant \subseteq Token /\ \A t \in DOMAIN grant : grant[t] \subseteq Machine
CallsFit == ctl \in [Control -> Calls] /\ \A c \in Control : CallIsFine(ctl[c])
OwningsFit == owning = [e \in Owning |-> owning[e]] /\ \A e \in Owning : OwningFits(owning[e])
CountsFit == medits \in 0 .. MaxMachineEdits /\ controls \in 0 .. MaxControls

\* The inductive invariant of the machines.
MachineInv == RowsFit /\ GrantsFit /\ CallsFit /\ OwningsFit /\ CountsFit

\* A place without a machine is fine.
LEMMA NoMachineIsFine == MachineIsFine(NoMachine)
<1>1. NoPin \in SeenAt /\ VncPort \in 1 .. MaxPort
  BY PortsAre DEF NoPin, SeenAt
<1>2. NoMachine \in MachineRow
  BY <1>1, RowIs DEF NoMachine, Host
<1>3. NoMachine.pin = "" /\ NoMachine.kind = "vnc"
  BY DEF NoMachine
<1> QED
  BY <1>2, <1>3 DEF MachineIsFine

\* A record of such fields is a call.
LEMMA CallIs ==
  ASSUME NEW step \in {"none", "allowed", "loaded", "connected", "pinned", "answered"},
         NEW op \in {"none", "test", "screenshot", "exec", "input"},
         NEW id \in Machine \cup {CHOOSE m \in Machine : TRUE}, NEW row \in MachineRow,
         NEW input \in Inputs \cup {"none"}, NEW key \in HostKey \cup {""}, NEW sent \in Nat,
         NEW held \in SUBSET WireKey, NEW pixels \in SUBSET (0 .. Width * Height - 1),
         NEW answer \in {"none", "200", "400", "401", "403", "404", "502", "504"}
  PROVE  [step |-> step, op |-> op, id |-> id, row |-> row, input |-> input, seen |-> key,
          sent |-> sent, held |-> held, pixels |-> pixels, answer |-> answer] \in Calls
  BY ZenonT(60) DEF Calls

\* A call that is none is fine.
LEMMA RestingIsFine == CallIsFine(Resting)
<1>1. Resting \in Calls
  <2>1. NoMachine \in MachineRow
    BY NoMachineIsFine DEF MachineIsFine
  <2> QED
    BY <2>1, CallIs DEF Resting
<1>2. Resting.step = "none" /\ Resting.op = "none" /\ Resting.sent = 0 /\ Resting.held = {}
  BY DEF Resting
<1> QED
  BY <1>1, <1>2 DEF CallIsFine

\* One request changes.
LEMMA OneCall ==
  ASSUME CallsFit, NEW c \in Control, NEW k, CallIsFine(k), ctl' = [ctl EXCEPT ![c] = k]
  PROVE  CallsFit'
<1>1. k \in Calls
  BY DEF CallIsFine
<1>2. ctl' \in [Control -> Calls] /\ \A d \in Control : ctl'[d] = IF d = c THEN k ELSE ctl[d]
  BY <1>1 DEF CallsFit
<1> QED
  BY <1>2 DEF CallsFit

\* An answer is given before anything went over the wire.
LEMMA AnswersFit ==
  ASSUME CallsFit, NEW c \in Control, ctl[c].step \in {"allowed", "loaded", "connected", "pinned"},
         NEW answer \in {"200", "400", "404", "502", "504"}, Answers(c, answer)
  PROVE  CallsFit'
<1> DEFINE k == ctl[c]
           new == [k EXCEPT !.step = "answered", !.answer = answer]
<1>1. CallIsFine(k) /\ k \in Calls
  BY DEF CallsFit, CallIsFine
<1>2. ctl' = [ctl EXCEPT ![c] = new]
  BY DEF Answers, CallsFit
<1>3. /\ new \in Calls /\ new.step = "answered" /\ new.answer = answer /\ new.op = k.op
      /\ new.id = k.id /\ new.sent = k.sent /\ new.held = k.held /\ new.input = k.input
  BY <1>1 DEF Calls
<1>4. k.sent = 0 /\ k.held = {} /\ k.id \in Machine
  BY <1>1 DEF CallIsFine
<1> HIDE DEF new
<1>5. CallIsFine(new)
  BY <1>3, <1>4 DEF CallIsFine
<1> QED
  BY <1>2, <1>5, OneCall

\* One row changes.
LEMMA OneMachine ==
  ASSUME RowsFit, NEW m \in Machine, NEW r, MachineIsFine(r), mrow' = [mrow EXCEPT ![m] = r]
  PROVE  RowsFit'
<1>1. r \in MachineRow
  BY DEF MachineIsFine
<1>2. /\ mrow' \in [Machine -> MachineRow]
      /\ \A n \in Machine : mrow'[n] = IF n = m THEN r ELSE mrow[n]
  BY <1>1 DEF RowsFit
<1> QED
  BY <1>2 DEF RowsFit

\* There is no machine at first.
LEMMA MachineInvInit == MachineConstants /\ MachineInit => MachineInv
<1> SUFFICES ASSUME MachineConstants, MachineInit PROVE MachineInv
  OBVIOUS
<1>1. RowsFit
  <2> DEFINE first == [NoMachine EXCEPT !.live = TRUE, !.kind = "ssh", !.port = SshPort, !.user = "u",
                         !.secrets = {"password"}]
  <2>1. first \in MachineRow
    <3>1. SshPort \in 1 .. MaxPort
      BY PortsAre
    <3>2. {"password"} \in SUBSET Secret
      BY DEF Secret
    <3>3. NoMachine \in MachineRow
      BY NoMachineIsFine DEF MachineIsFine
    <3> QED
      BY <3>1, <3>2, <3>3 DEF MachineRow
  <2>3. first.pin = "" /\ first.user = "u"
    BY DEF NoMachine
  <2>4. mrow = [m \in Machine |-> IF m = CHOOSE n \in Machine : TRUE THEN first ELSE NoMachine]
    BY DEF MachineInit
  <2> HIDE DEF first
  <2>5. MachineIsFine(first)
    BY <2>1, <2>3 DEF MachineIsFine
  <2>6. \A m \in Machine : mrow[m] = first \/ mrow[m] = NoMachine
    BY <2>4
  <2>7. \A m \in Machine : MachineIsFine(mrow[m])
    BY <2>5, <2>6, NoMachineIsFine
  <2>8. \A m \in Machine : mrow[m] \in MachineRow
    BY <2>7 DEF MachineIsFine
  <2> QED
    BY <2>4, <2>7, <2>8 DEF RowsFit
<1>2. CallsFit
  <2>1. Resting \in Calls
    BY RestingIsFine DEF CallIsFine
  <2> QED
    BY <2>1, RestingIsFine DEF MachineInit, CallsFit
<1>3. OwningsFit
  BY DEF MachineInit, OwningsFit, OwningFits
<1>4. GrantsFit
  BY DEF MachineInit, GrantsFit
<1>5. CountsFit
  BY DEF MachineInit, CountsFit, MachineConstants
<1> QED
  BY <1>1, <1>2, <1>3, <1>4, <1>5 DEF MachineInv

\* The rows and the changes of the owner.
LEMMA OwnerKeepsMachines ==
  ASSUME MachineInv,
         CreateMachine \/ DeleteMachine \/ \E e \in Owning : UpdateReads(e) \/ UpdateWrites(e)
  PROVE  MachineInv'
<1>1. CASE CreateMachine
  <2>1. RowsFit'
    <3>1. PICK m \in Machine, req \in MachineRequests :
            ValidCreate(req) /\ mrow' = [mrow EXCEPT ![m] = Created(req)]
      BY <1>1 DEF CreateMachine
    <3>2. MachineIsFine(Created(req))
      BY <3>1, CreatedIsFine
    <3> QED
      BY <3>1, <3>2, OneMachine DEF MachineInv
  <2>2. CountsFit'
    BY <1>1, MachineConstants DEF MachineInv, CreateMachine, CountEdit, CountsFit
  <2> QED
    BY <1>1, <2>1, <2>2 DEF MachineInv, CreateMachine, GrantsFit, CallsFit, OwningsFit
<1>2. CASE DeleteMachine
  <2>1. RowsFit'
    <3> DEFINE gone == [NoMachine EXCEPT !.raced = TRUE]
    <3>1. PICK m \in Machine : mrow' = [mrow EXCEPT ![m] = gone]
      BY <1>2 DEF DeleteMachine
    <3>2. NoMachine \in MachineRow
      BY NoMachineIsFine DEF MachineIsFine
    <3>3. gone \in MachineRow /\ gone.live = FALSE
      BY <3>2 DEF MachineRow, NoMachine
    <3> HIDE DEF gone
    <3>4. MachineIsFine(gone)
      BY <3>3 DEF MachineIsFine
    <3> QED
      BY <3>1, <3>4, OneMachine DEF MachineInv
  <2>2. CountsFit'
    BY <1>2, MachineConstants DEF MachineInv, DeleteMachine, CountEdit, CountsFit
  <2> QED
    BY <1>2, <2>1, <2>2 DEF MachineInv, DeleteMachine, GrantsFit, CallsFit, OwningsFit
<1>3. ASSUME NEW e \in Owning, UpdateReads(e)
      PROVE  MachineInv'
  <2>1. OwningsFit'
    <3>1. PICK m \in Machine, req \in MachineRequests :
            /\ mrow[m].live /\ ValidUpdate(req, mrow[m])
            /\ owning' = [owning EXCEPT ![e] =
                 [id |-> m, patch |-> PatchOf(req, mrow[m]), existing |-> mrow[m]]]
      BY <1>3 DEF UpdateReads
    <3> DEFINE o == [id |-> m, patch |-> PatchOf(req, mrow[m]), existing |-> mrow[m]]
    <3>2. mrow[m] \in MachineRow
      BY DEF MachineInv, RowsFit
    <3>3. PatchOf(req, mrow[m]) \in MachinePatch /\ PatchFits(PatchOf(req, mrow[m]), mrow[m])
      BY <3>1, <3>2, PatchOfFits
    <3>4. o.id = m /\ o.patch = PatchOf(req, mrow[m]) /\ o.existing = mrow[m]
      OBVIOUS
    <3>5. owning' = [owning EXCEPT ![e] = o]
      BY <3>1
    <3> HIDE DEF o
    <3>6. OwningFits(o)
      BY <3>2, <3>3, <3>4 DEF OwningFits
    <3>7. owning = [d \in Owning |-> owning[d]] /\ \A d \in Owning : OwningFits(owning[d])
      BY DEF MachineInv, OwningsFit
    <3>8. owning' = [d \in Owning |-> owning'[d]]
          /\ \A d \in Owning : owning'[d] = IF d = e THEN o ELSE owning[d]
      BY <3>5, <3>7
    <3> QED
      BY <3>6, <3>7, <3>8 DEF OwningsFit
  <2>2. CountsFit'
    BY <1>3, MachineConstants DEF MachineInv, UpdateReads, CountEdit, CountsFit
  <2> QED
    BY <1>3, <2>1, <2>2 DEF MachineInv, UpdateReads, GrantsFit, CallsFit, RowsFit
<1>4. ASSUME NEW e \in Owning, UpdateWrites(e)
      PROVE  MachineInv'
  <2> DEFINE o == owning[e]
             r == mrow[o.id]
             new == PatchedRow(r, o.patch, o.existing # r)
  <2>1. o.id \in Machine /\ o.patch \in MachinePatch /\ o.existing \in MachineRow
        /\ PatchFits(o.patch, o.existing)
    BY <1>4 DEF UpdateWrites, MachineInv, OwningsFit, OwningFits
  <2>2. RowsFit'
    <3>1. CASE r.live
      <4>1. MachineIsFine(r)
        BY <2>1 DEF MachineInv, RowsFit
      <4>2. MachineIsFine(new)
        BY <2>1, <3>1, <4>1, PatchedIsFine
      <4>3. mrow' = [mrow EXCEPT ![o.id] = new]
        BY <1>4, <3>1, Zenon DEF UpdateWrites
      <4> QED
        BY <2>1, <4>2, <4>3, OneMachine DEF MachineInv
    <3>2. CASE ~ r.live
      BY <1>4, <3>2 DEF UpdateWrites, MachineInv, RowsFit
    <3> QED
      BY <3>1, <3>2
  <2>3. OwningsFit'
    <3>1. owning' = [owning EXCEPT ![e] = NotOwning]
      BY <1>4 DEF UpdateWrites
    <3>2. owning = [d \in Owning |-> owning[d]] /\ \A d \in Owning : OwningFits(owning[d])
      BY DEF MachineInv, OwningsFit
    <3>3. owning' = [d \in Owning |-> owning'[d]]
          /\ \A d \in Owning : owning'[d] = IF d = e THEN NotOwning ELSE owning[d]
      BY <3>1, <3>2
    <3>4. OwningFits(NotOwning)
      BY DEF OwningFits
    <3> QED
      BY <3>2, <3>3, <3>4 DEF OwningsFit
  <2> QED
    BY <1>4, <2>2, <2>3 DEF MachineInv, UpdateWrites, GrantsFit, CallsFit, CountsFit
<1> QED
  BY <1>1, <1>2, <1>3, <1>4

\* The grants.
LEMMA GrantsKeepMachines ==
  ASSUME MachineInv, Restart \/ \E t \in Token : SendReferences(t)
  PROVE  MachineInv'
<1>1. CASE Restart
  <2>1. GrantsFit' /\ OwningsFit'
    BY <1>1 DEF Restart, GrantsFit, OwningsFit, OwningFits
  <2>2. CallsFit'
    <3>1. Resting \in Calls
      BY RestingIsFine DEF CallIsFine
    <3> QED
      BY <1>1, <3>1, RestingIsFine DEF Restart, CallsFit
  <2> QED
    BY <1>1, <2>1, <2>2 DEF Restart, MachineInv, RowsFit, CountsFit
<1>2. ASSUME NEW t \in Token, SendReferences(t)
      PROVE  MachineInv'
  <2>1. GrantsFit'
    <3>1. PICK ids \in SUBSET Machine :
            grant' = [u \in DOMAIN grant \cup {t} |->
                        IF u = t THEN {m \in ids : mrow[m].live} ELSE grant[u]]
      BY <1>2 DEF SendReferences
    <3> QED
      BY <3>1 DEF MachineInv, GrantsFit
  <2> QED
    BY <1>2, <2>1 DEF SendReferences, MachineInv, RowsFit, CallsFit, OwningsFit, CountsFit
<1> QED
  BY <1>1, <1>2

\* A request is made, its row is read, and it is forgotten.
LEMMA CallsKeepMachines ==
  ASSUME MachineInv, NEW c \in Control, CallIsMade(c) \/ CallLoads(c) \/ CallIsForgotten(c)
  PROVE  MachineInv'
<1>0. CallsFit
  BY DEF MachineInv
<1>1. CASE CallIsMade(c)
  <2>1. ASSUME NEW m \in Machine, NEW op \in {"test", "screenshot", "exec", "input"},
               NEW input \in Inputs \cup {"none"}, NEW answer \in {"none", "400", "401", "403"},
               op = "input" /\ answer = "none" => input \in Inputs \ {"bad"},
               ctl' = [ctl EXCEPT ![c] = Request(m, op, input, answer)]
        PROVE  CallsFit'
    <3> DEFINE new == Request(m, op, input, answer)
               step == IF answer = "none" THEN "allowed" ELSE "answered"
    <3>1. Resting \in Calls /\ Resting.sent = 0 /\ Resting.held = {}
      BY RestingIsFine DEF CallIsFine, Resting
    <3>2. step \in {"allowed", "answered"} /\ (step = "allowed" => answer = "none")
      OBVIOUS
    <3>3. new = [Resting EXCEPT !.step = step, !.op = op, !.id = m, !.input = input, !.answer = answer]
      BY DEF Request
    <3> HIDE DEF step
    <3>4. /\ new \in Calls /\ new.step = step /\ new.op = op /\ new.input = input /\ new.id = m
          /\ new.answer = answer /\ new.sent = 0 /\ new.held = {}
      <4>1. new \in Calls
        BY <3>1, <3>2, <3>3, ZenonT(60) DEF Calls
      <4>2. /\ new.step = step /\ new.op = op /\ new.input = input /\ new.id = m
            /\ new.answer = answer /\ new.sent = 0 /\ new.held = {}
        BY <3>1, <3>3, ZenonT(60) DEF Calls
      <4> QED
        BY <4>1, <4>2
    <3> HIDE DEF new
    <3>5. CallIsFine(new)
      BY <2>1, <3>2, <3>4 DEF CallIsFine
    <3> QED
      BY <1>0, <2>1, <3>5, OneCall DEF new
  <2>2. \A t, m, op, input : /\ Refusal(t, m, op, input) \in {"none", "400", "401", "403"}
                             /\ op = "input" /\ Refusal(t, m, op, input) = "none" => input # "bad"
    BY DEF Refusal
  <2>3. PICK m \in Machine :
          \/ ctl' = [ctl EXCEPT ![c] = Request(m, "test", "none", "none")]
          \/ \E t \in Token :
               \/ \E op \in {"screenshot", "exec"} :
                    ctl' = [ctl EXCEPT ![c] = Request(m, op, "none", Refusal(t, m, op, "none"))]
               \/ \E input \in Inputs :
                    ctl' = [ctl EXCEPT ![c] = Request(m, "input", input, Refusal(t, m, "input", input))]
    BY <1>1 DEF CallIsMade
  <2>4. ASSUME ctl' = [ctl EXCEPT ![c] = Request(m, "test", "none", "none")]
        PROVE  CallsFit'
    BY <2>1, <2>4
  <2>5. ASSUME NEW t \in Token, NEW op \in {"screenshot", "exec"},
               ctl' = [ctl EXCEPT ![c] = Request(m, op, "none", Refusal(t, m, op, "none"))]
        PROVE  CallsFit'
    <3>1. Refusal(t, m, op, "none") \in {"none", "400", "401", "403"}
      BY <2>2
    <3> QED
      BY <2>1, <2>5, <3>1
  <2>7. ASSUME NEW t \in Token, NEW input \in Inputs,
               ctl' = [ctl EXCEPT ![c] = Request(m, "input", input, Refusal(t, m, "input", input))]
        PROVE  CallsFit'
    <3>1. /\ Refusal(t, m, "input", input) \in {"none", "400", "401", "403"}
          /\ Refusal(t, m, "input", input) = "none" => input \in Inputs \ {"bad"}
      BY <2>2
    <3> QED
      BY <2>1, <2>7, <3>1
  <2>8. CallsFit'
    BY <2>3, <2>4, <2>5, <2>7
  <2>6. CountsFit'
    BY <1>1, MachineConstants DEF MachineInv, CountsFit, CallIsMade
  <2> QED
    BY <1>1, <2>6, <2>8 DEF MachineInv, CallIsMade, RowsFit, GrantsFit, OwningsFit
<1>2. CASE CallLoads(c)
  <2> DEFINE r == mrow[ctl[c].id]
             k == ctl[c]
             new == [k EXCEPT !.step = "loaded", !.row = r]
  <2>1. k.step = "allowed" /\ CallIsFine(k) /\ k \in Calls /\ k.id \in Machine
    BY <1>0, <1>2 DEF CallLoads, CallsFit, CallIsFine
  <2>2. ASSUME Answers(c, "404") \/ Answers(c, "400")
        PROVE  CallsFit'
    BY <1>0, <2>1, <2>2, AnswersFit
  <2>3. ASSUME ctl' = [ctl EXCEPT ![c].step = "loaded", ![c].row = r]
        PROVE  CallsFit'
    <3>1. r \in MachineRow
      BY <2>1 DEF MachineInv, RowsFit
    <3>2. /\ new \in Calls /\ new.step = "loaded" /\ new.op = k.op /\ new.id = k.id
          /\ new.sent = k.sent /\ new.held = k.held /\ new.input = k.input /\ new.answer = k.answer
      BY <2>1, <3>1 DEF Calls
    <3>3. ctl' = [ctl EXCEPT ![c] = new]
      BY <1>0, <2>3 DEF CallsFit
    <3> HIDE DEF new
    <3>4. CallIsFine(new)
      BY <2>1, <3>2 DEF CallIsFine
    <3> QED
      BY <1>0, <3>3, <3>4, OneCall
  <2>4. CallsFit'
    BY <1>2, <2>2, <2>3 DEF CallLoads
  <2> QED
    BY <1>2, <2>4 DEF MachineInv, CallLoads, RowsFit, GrantsFit, OwningsFit, CountsFit
<1>3. CASE CallIsForgotten(c)
  <2>1. CallsFit'
    BY <1>0, <1>3, RestingIsFine, OneCall DEF CallIsForgotten
  <2> QED
    BY <1>3, <2>1 DEF MachineInv, CallIsForgotten, RowsFit, GrantsFit, OwningsFit, CountsFit
<1> QED
  BY <1>1, <1>2, <1>3

\* What a machine is driven with over SSH, and the key that is noted for it.
LEMMA SshKeepsMachines ==
  ASSUME MachineInv, NEW c \in Control, SshConnects(c) \/ SshPins(c) \/ SshExecs(c)
  PROVE  MachineInv'
<1> DEFINE k == ctl[c]
<1>0. CallsFit /\ CallIsFine(k) /\ k \in Calls
  BY DEF MachineInv, CallsFit, CallIsFine
<1>1. CASE SshConnects(c)
  <2>1. k.step = "loaded"
    BY <1>1 DEF SshConnects
  <2>2. ASSUME Answers(c, "502")
        PROVE  CallsFit'
    BY <1>0, <2>1, <2>2, AnswersFit
  <2>3. ASSUME NEW key \in HostKey, ctl' = [ctl EXCEPT ![c].step = "connected", ![c].seen = key]
        PROVE  CallsFit'
    <3> DEFINE new == [k EXCEPT !.step = "connected", !.seen = key]
    <3>1. /\ new \in Calls /\ new.step = "connected" /\ new.op = k.op /\ new.id = k.id
          /\ new.sent = k.sent /\ new.held = k.held /\ new.input = k.input /\ new.answer = k.answer
      BY <1>0 DEF Calls
    <3>2. ctl' = [ctl EXCEPT ![c] = new]
      BY <1>0, <2>3 DEF CallsFit
    <3> HIDE DEF new
    <3>3. CallIsFine(new)
      BY <1>0, <2>1, <3>1 DEF CallIsFine
    <3> QED
      BY <1>0, <3>2, <3>3, OneCall
  <2>4. CallsFit'
    BY <1>1, <2>2, <2>3 DEF SshConnects
  <2> QED
    BY <1>1, <2>4 DEF MachineInv, SshConnects, RowsFit, GrantsFit, OwningsFit, CountsFit
<1>2. CASE SshPins(c)
  <2>0. k.step = "connected" /\ k.id \in Machine
    BY <1>0, <1>2 DEF SshPins, CallIsFine
  <2>1. CallsFit'
    <3> DEFINE new == [k EXCEPT !.step = "pinned"]
    <3>1. /\ new \in Calls /\ new.step = "pinned" /\ new.op = k.op /\ new.id = k.id
          /\ new.sent = k.sent /\ new.held = k.held /\ new.input = k.input /\ new.answer = k.answer
      BY <1>0 DEF Calls
    <3>2. ctl' = [ctl EXCEPT ![c] = new]
      BY <1>0, <1>2 DEF CallsFit, SshPins
    <3> HIDE DEF new
    <3>3. CallIsFine(new)
      BY <1>0, <2>0, <3>1 DEF CallIsFine
    <3> QED
      BY <1>0, <3>2, <3>3, OneCall
  <2>2. RowsFit'
    <3> DEFINE r == mrow[k.id]
    <3>1. MachineIsFine(r) /\ r \in MachineRow
      BY <2>0 DEF MachineInv, RowsFit
    <3>2. MachineIsFine(Pins(r, c))
      <4>1. CASE r.pin # ""
        BY <3>1, <4>1 DEF Pins
      <4>2. CASE r.pin = ""
        <5> DEFINE at == Endpoint(k.row)
                   astray == Endpoint(r) # Endpoint(k.row)
                   new == [r EXCEPT !.pin = k.seen, !.at = at, !.astray = astray]
        <5>1. k.seen \in HostKey \cup {""} /\ k.row \in MachineRow
          BY <1>0 DEF Calls
        <5>2. at \in SeenAt
          <6>1. k.row.host \in Host /\ k.row.port \in 1 .. MaxPort
            BY <5>1 DEF MachineRow
          <6> QED
            BY <6>1, PortsAre DEF Endpoint, SeenAt
        <5>3. astray \in BOOLEAN
          OBVIOUS
        <5>4. Pins(r, c) = new
          BY <4>2 DEF Pins
        <5>5. ~ astray => at = Endpoint(r)
          OBVIOUS
        <5> HIDE DEF at, astray
        <5>6. /\ new \in MachineRow /\ new.at = at /\ new.astray = astray /\ new.host = r.host
              /\ new.raced = r.raced /\ new.port = r.port /\ new.kind = r.kind /\ new.user = r.user /\ new.live = r.live
          BY <3>1, <5>1, <5>2, <5>3 DEF MachineRow
        <5>7. Endpoint(new) = Endpoint(r)
          BY <5>6 DEF Endpoint
        <5> HIDE DEF new
        <5>8. MachineIsFine(new)
          BY <3>1, <5>5, <5>6, <5>7 DEF MachineIsFine
        <5> QED
          BY <5>4, <5>8
      <4> QED
        BY <4>1, <4>2
    <3>3. mrow' = [mrow EXCEPT ![k.id] = Pins(r, c)] \/ mrow' = mrow
      BY <1>2 DEF SshPins
    <3> QED
      <4>1. CASE mrow' = [mrow EXCEPT ![k.id] = Pins(r, c)]
        BY <2>0, <3>2, <4>1, OneMachine DEF MachineInv
      <4>2. CASE mrow' = mrow
        BY <4>2 DEF MachineInv, RowsFit
      <4> QED
        BY <3>3, <4>1, <4>2
  <2> QED
    BY <1>2, <2>1, <2>2 DEF MachineInv, SshPins, GrantsFit, OwningsFit, CountsFit
<1>3. CASE SshExecs(c)
  <2>1. CallsFit'
    BY <1>0, <1>3, AnswersFit DEF SshExecs, ExecAnswers
  <2> QED
    BY <1>3, <2>1 DEF MachineInv, SshExecs, RowsFit, GrantsFit, OwningsFit, CountsFit
<1> QED
  BY <1>1, <1>2, <1>3

\* What is sent to a screen, and what comes back from it.
LEMMA VncKeepsMachines ==
  ASSUME MachineInv, NEW c \in Control, VncConnects(c) \/ VncInputs(c) \/ VncShoots(c)
  PROVE  MachineInv'
<1> DEFINE k == ctl[c]
<1>0. CallsFit /\ CallIsFine(k) /\ k \in Calls
  BY DEF MachineInv, CallsFit, CallIsFine
<1>1. CASE VncConnects(c)
  <2>1. k.step = "loaded"
    BY <1>1 DEF VncConnects
  <2>2. ASSUME NEW answer \in {"200", "502"}, Answers(c, answer)
        PROVE  CallsFit'
    BY <1>0, <2>1, <2>2, AnswersFit
  <2>3. ASSUME ctl' = [ctl EXCEPT ![c].step = "connected"]
        PROVE  CallsFit'
    <3> DEFINE new == [k EXCEPT !.step = "connected"]
    <3>1. /\ new \in Calls /\ new.step = "connected" /\ new.op = k.op /\ new.id = k.id
          /\ new.sent = k.sent /\ new.held = k.held /\ new.input = k.input /\ new.answer = k.answer
      BY <1>0 DEF Calls
    <3>2. ctl' = [ctl EXCEPT ![c] = new]
      BY <1>0, <2>3 DEF CallsFit
    <3> HIDE DEF new
    <3>3. CallIsFine(new)
      BY <1>0, <2>1, <3>1 DEF CallIsFine
    <3> QED
      BY <1>0, <3>2, <3>3, OneCall
  <2>4. CallsFit'
    BY <1>1, <2>2, <2>3 DEF VncConnects
  <2> QED
    BY <1>1, <2>4 DEF MachineInv, VncConnects, RowsFit, GrantsFit, OwningsFit, CountsFit
<1>2. CASE VncInputs(c)
  <2>1. k.step = "connected" /\ k.op = "input" /\ k.input \in Inputs \ {"bad"} /\ k.id \in Machine
    BY <1>0, <1>2 DEF VncInputs, CallIsFine
  <2>2. ASSUME Answers(c, "400")
        PROVE  CallsFit'
    BY <1>0, <2>1, <2>2, AnswersFit
  <2>3. ASSUME NEW p \in Pointers(k.input),
               ~ (k.input \in {"off", "move", "click", "scroll"} /\ OffScreen(p[1], p[2])),
               NEW n \in 0 .. Len(Events(k.input)), NEW answer \in {"200", "502", "504"},
               (answer = "200") <=> (n = Len(Events(k.input))),
               ctl' = [ctl EXCEPT ![c].step = "answered", ![c].answer = answer, ![c].sent = n,
                                  ![c].held = Held(SubSeq(Events(k.input), 1, n))]
        PROVE  CallsFit'
    <3>1. k.input # "off"
      BY <2>3 DEF Pointers, OffScreen, Width, Height
    <3>2. WholeInput(Events(k.input))
      BY <2>1, <3>1, EventsAreWhole
    <3> DEFINE held == Held(SubSeq(Events(k.input), 1, n))
               new == [k EXCEPT !.step = "answered", !.answer = answer, !.sent = n, !.held = held]
    <3>3. held \in SUBSET WireKey /\ (answer = "200" => held = {}) /\ n \in Nat
      BY <2>3, <3>2, HeldOfWhole
    <3>4. ctl' = [ctl EXCEPT ![c] = new]
      BY <1>0, <2>3 DEF CallsFit
    <3> HIDE DEF held
    <3>5. /\ new \in Calls /\ new.step = "answered" /\ new.op = k.op /\ new.id = k.id
          /\ new.held = held /\ new.input = k.input /\ new.answer = answer
      BY <1>0, <3>3 DEF Calls
    <3> HIDE DEF new
    <3>6. CallIsFine(new)
      BY <2>1, <3>1, <3>3, <3>5 DEF CallIsFine
    <3> QED
      BY <1>0, <3>4, <3>6, OneCall
  <2>4. CallsFit'
    <3>1. PICK p \in Pointers(k.input) :
            IF k.input \in {"off", "move", "click", "scroll"} /\ OffScreen(p[1], p[2])
            THEN Answers(c, "400")
            ELSE LET events == Events(IF k.input = "off" THEN "click" ELSE k.input)
                 IN \E n \in 0 .. Len(events) : \E answer \in {"200", "502", "504"} :
                      /\ (answer = "200") <=> (n = Len(events))
                      /\ ctl' = [ctl EXCEPT ![c].step = "answered", ![c].answer = answer,
                                   ![c].sent = n, ![c].held = Held(SubSeq(events, 1, n))]
      BY <1>2 DEF VncInputs
    <3>2. CASE k.input \in {"off", "move", "click", "scroll"} /\ OffScreen(p[1], p[2])
      BY <2>2, <3>1, <3>2
    <3>3. CASE ~ (k.input \in {"off", "move", "click", "scroll"} /\ OffScreen(p[1], p[2]))
      <4>1. k.input # "off"
        BY <3>3 DEF Pointers, OffScreen, Width, Height
      <4> QED
        BY <2>3, <3>1, <3>3, <4>1
    <3> QED
      BY <3>2, <3>3
  <2> QED
    BY <1>2, <2>4 DEF MachineInv, VncInputs, RowsFit, GrantsFit, OwningsFit, CountsFit
<1>3. CASE VncShoots(c)
  <2>1. k.step = "connected" /\ k.op = "screenshot" /\ k.id \in Machine
    BY <1>0, <1>3 DEF VncShoots, CallIsFine
  <2>2. ASSUME NEW answer \in {"502", "504"}, Answers(c, answer)
        PROVE  CallsFit'
    BY <1>0, <2>1, <2>2, AnswersFit
  <2>3. ASSUME NEW answer \in {"200", "502"}, NEW pixels \in SUBSET (0 .. Width * Height - 1),
               ctl' = [ctl EXCEPT ![c].step = "answered", ![c].answer = answer, ![c].pixels = pixels]
        PROVE  CallsFit'
    <3> DEFINE new == [k EXCEPT !.step = "answered", !.answer = answer, !.pixels = pixels]
    <3>1. /\ new \in Calls /\ new.step = "answered" /\ new.op = k.op /\ new.id = k.id
      BY <1>0 DEF Calls
    <3>2. ctl' = [ctl EXCEPT ![c] = new]
      BY <1>0, <2>3 DEF CallsFit
    <3> HIDE DEF new
    <3>3. CallIsFine(new)
      BY <2>1, <3>1 DEF CallIsFine
    <3> QED
      BY <1>0, <3>2, <3>3, OneCall
  <2>4. ASSUME NEW rects \in SeqOf(Rects, 2), NEW reads,
               reads = {i \in DOMAIN rects :
                 \A j \in 1 .. i : RectFits(rects[j])
                                  /\ (j = 2 => Area(rects[1]) + Area(rects[2]) <= Width * Height)},
               ctl' = [ctl EXCEPT ![c].step = "answered",
                         ![c].answer = IF reads = DOMAIN rects THEN "200" ELSE "502",
                         ![c].pixels = UNION {Places(rects[i]) : i \in reads}]
        PROVE  CallsFit'
    <3>1. ASSUME NEW i \in reads
          PROVE  Places(rects[i]) \subseteq 0 .. Width * Height - 1
      <4>1. DOMAIN rects \subseteq Nat \ {0} /\ \A j \in DOMAIN rects : rects[j] \in Rects
        BY DEF SeqOf
      <4>2. i \in DOMAIN rects /\ i \in 1 .. i
        <5>1. i \in DOMAIN rects
          BY <2>4
        <5>2. i \in Nat \ {0}
          BY <4>1, <5>1
        <5> QED
          BY <5>1, <5>2
      <4>3. RectFits(rects[i])
        BY <2>4, <3>1, <4>2
      <4> QED
        BY <4>1, <4>2, <4>3, PlacesFit
    <3>2. UNION {Places(rects[i]) : i \in reads} \in SUBSET (0 .. Width * Height - 1)
      BY <3>1
    <3> DEFINE pixels == UNION {Places(rects[i]) : i \in reads}
               answer == IF reads = DOMAIN rects THEN "200" ELSE "502"
    <3>3. answer \in {"200", "502"}
      OBVIOUS
    <3>4. ctl' = [ctl EXCEPT ![c].step = "answered", ![c].answer = answer, ![c].pixels = pixels]
      BY <2>4
    <3> HIDE DEF pixels, answer
    <3>5. pixels \in SUBSET (0 .. Width * Height - 1)
      BY <3>2 DEF pixels
    <3> QED
      BY <2>3, <3>3, <3>4, <3>5
  <2>5. CallsFit'
    BY <1>3, <2>2, <2>4 DEF VncShoots
  <2> QED
    BY <1>3, <2>5 DEF MachineInv, VncShoots, RowsFit, GrantsFit, OwningsFit, CountsFit
<1> QED
  BY <1>1, <1>2, <1>3

\* Every step keeps the invariant of the machines.
LEMMA MachineInvStep == MachineInv /\ [MachineNext]_machineVars => MachineInv'
<1> SUFFICES ASSUME MachineInv, [MachineNext]_machineVars PROVE MachineInv'
  OBVIOUS
<1>1. CASE UNCHANGED machineVars
  BY <1>1 DEF machineVars, MachineInv, RowsFit, GrantsFit, CallsFit, OwningsFit, CountsFit
<1>2. CASE CreateMachine \/ DeleteMachine \/ \E e \in Owning : UpdateReads(e) \/ UpdateWrites(e)
  BY <1>2, OwnerKeepsMachines
<1>3. CASE Restart \/ \E t \in Token : SendReferences(t)
  BY <1>3, GrantsKeepMachines
<1>4. ASSUME NEW c \in Control, CallIsMade(c) \/ CallLoads(c) \/ CallIsForgotten(c)
      PROVE  MachineInv'
  BY <1>4, CallsKeepMachines
<1>5. ASSUME NEW c \in Control, SshConnects(c) \/ SshPins(c) \/ SshExecs(c)
      PROVE  MachineInv'
  BY <1>5, SshKeepsMachines
<1>6. ASSUME NEW c \in Control, VncConnects(c) \/ VncInputs(c) \/ VncShoots(c)
      PROVE  MachineInv'
  BY <1>6, VncKeepsMachines
<1> QED
  BY <1>1, <1>2, <1>3, <1>4, <1>5, <1>6 DEF MachineNext

\* What the invariant says of pins, logins, input and pictures.
LEMMA MachinesAreSafe == MachineInv => OtherMachinesAreSafe /\ MachineTypeOK
<1> SUFFICES ASSUME MachineInv PROVE OtherMachinesAreSafe /\ MachineTypeOK
  OBVIOUS
<1>1. PinBelongsToEndpoint /\ SshHasLogin
  BY DEF MachineInv, RowsFit, MachineIsFine, PinBelongsToEndpoint, SshHasLogin
<1>2. \A c \in Control : CallIsFine(ctl[c]) /\ ctl[c] \in Calls
  BY DEF MachineInv, CallsFit, CallIsFine
<1>3. InputIsWholeOrNothing
  BY <1>2 DEF CallIsFine, InputIsWholeOrNothing
<1>4. FrameStaysInside
  BY <1>2 DEF Calls, FrameStaysInside
<1>5. MachineTypeOK
  <2>1. ASSUME NEW m \in Machine
        PROVE  /\ mrow[m].kind \in {"vnc", "ssh"} /\ mrow[m].host \in Host
               /\ mrow[m].port \in 1 .. MaxPort /\ mrow[m].user \in {"", "u"}
               /\ mrow[m].pin \in HostKey \cup {""} /\ mrow[m].secrets \subseteq Secret
    <3>1. mrow[m] \in MachineRow
      BY DEF MachineInv, RowsFit
    <3> QED
      BY <3>1 DEF MachineRow
  <2>2. \A c \in Control :
          ctl[c].step \in {"none", "allowed", "loaded", "connected", "pinned", "answered"}
    BY <1>2 DEF Calls
  <2> QED
    BY <2>1, <2>2 DEF MachineInv, GrantsFit, CountsFit, MachineTypeOK
<1> QED
  BY <1>1, <1>3, <1>4, <1>5 DEF OtherMachinesAreSafe

-----------------------------------------------------------------------------
(* Records: each behaviour is one of one component *)

\* What is true of every component, whichever of them a behaviour is about.
RecordsInv ==
  /\ AccountInv /\ ManagedArePlain
  /\ SignInv /\ ChoiceInv /\ ProbeInv /\ ThreadRowInv
  /\ ProjectInv /\ GroupInv /\ RemovalInv /\ ReaderInv
  /\ ShareInv /\ PatchesFit /\ McpInv /\ SetupInv /\ MachineInv
  /\ part \in {"accounts", "sign_in", "choice", "probe", "thread", "projects", "groups",
               "removal", "readers", "share", "servers", "setup", "machines"}

\* A step of Records is a step of each component, or leaves it as it is.
LEMMA StepsOfComponents ==
  ASSUME [RecordsNext]_recordsVars
  PROVE  /\ [AccountNext]_accountVars /\ [SignNext]_signVars /\ [ChoiceNext]_choiceVars
         /\ [ProbeNext]_probeVars /\ [ThreadRowNext]_threadRowVars
         /\ [ProjectNext]_projectVars /\ [GroupNext]_groupVars
         /\ [RemovalNext]_removalVars /\ [ReaderNext]_readerVars /\ [ShareNext]_shareVars
         /\ [McpNext]_mcpVars /\ [SetupNext]_setupVars /\ [MachineNext]_machineVars
         /\ UNCHANGED part
<1>1. CASE RecordsNext
  BY <1>1 DEF RecordsNext
<1>2. CASE UNCHANGED recordsVars
  BY <1>2 DEF recordsVars
<1> QED
  BY <1>1, <1>2

\* Every component starts with its invariant.
LEMMA RecordsInvInit == RecordsInit => RecordsInv
<1>1. RecordsInit =>
        /\ AccountInit /\ SignInit /\ ChoiceInit /\ ProbeInit /\ ThreadRowInit
        /\ ProjectInit /\ GroupInit /\ RemovalInit /\ ReaderInit
        /\ ShareInit /\ McpInit /\ SetupInit /\ MachineInit
        /\ part \in {"accounts", "sign_in", "choice", "probe", "thread", "projects",
                    "groups", "removal", "readers", "share", "servers", "setup", "machines"}
  BY DEF RecordsInit
<1>2. RecordsInit => ShareInv /\ PatchesFit /\ McpInv /\ SetupInv /\ MachineInv
  BY <1>1, ShareInvInit, PatchesCount, McpInvInit, SetupInvInit, MachineConstants,
     MachineInvInit
<1>3. RecordsInit => /\ AccountInv /\ ManagedArePlain /\ SignInv /\ ChoiceInv /\ ProbeInv
                     /\ ThreadRowInv /\ ProjectInv /\ GroupInv /\ RemovalInv /\ ReaderInv
  BY <1>1, AccountInvInit, ManagedArePlainInit, SignInvInit, ChoiceInvInit, ProbeInvInit,
     ThreadRowInvInit, ProjectInvInit, GroupInvInit, RemovalInvInit, ReaderInvInit
<1> QED
  BY <1>1, <1>2, <1>3 DEF RecordsInv

\* Every component keeps its invariant.
LEMMA RecordsInvStep == RecordsInv /\ [RecordsNext]_recordsVars => RecordsInv'
<1> SUFFICES ASSUME RecordsInv, [RecordsNext]_recordsVars
             PROVE  RecordsInv'
  OBVIOUS
<1>1. /\ AccountInv /\ ManagedArePlain /\ SignInv /\ ChoiceInv /\ ProbeInv /\ ThreadRowInv
      /\ ProjectInv /\ GroupInv /\ RemovalInv /\ ReaderInv
      /\ ShareInv /\ PatchesFit /\ McpInv /\ SetupInv /\ MachineInv
  BY DEF RecordsInv
<1>2. AccountInv' /\ ManagedArePlain'
  BY <1>1, StepsOfComponents, AccountInvStep, OwnersStep
<1>3. SignInv' /\ ChoiceInv' /\ ProbeInv'
  BY <1>1, StepsOfComponents, SignInvStep, ChoiceInvStep, ProbeInvStep
<1>4. ThreadRowInv' /\ ProjectInv'
  BY <1>1, StepsOfComponents, ThreadRowInvStep, ProjectInvStep
<1>5. GroupInv' /\ RemovalInv' /\ ReaderInv'
  BY <1>1, StepsOfComponents, GroupInvStep, RemovalInvStep, ReaderInvStep
<1>6. ShareInv' /\ PatchesFit' /\ McpInv'
  BY <1>1, StepsOfComponents, ShareInvStep, PatchesCount, McpInvStep
<1>7. SetupInv' /\ MachineInv'
  BY <1>1, StepsOfComponents, SetupInvStep, MachineInvStep
<1>8. part' = part
  BY StepsOfComponents
<1> QED
  BY <1>2, <1>3, <1>4, <1>5, <1>6, <1>7, <1>8 DEF RecordsInv

\* RecordsInv holds of every reachable state.
LEMMA RecordsInvariance == RecordsSpec => []RecordsInv
  BY RecordsInvInit, RecordsInvStep, PTL DEF RecordsSpec

\* Every component has the types it states, whichever of them a behaviour is
\* about: rows and requests keep to their columns (db/), and every count to its
\* bound.
THEOREM RecordsAreTyped == RecordsSpec => []RecordsTypeOK
<1>1. RecordsInv => ChoiceTypeOK
  <2>1. ASSUME ChoiceInv, NEW r \in Patcher PROVE patcher[r].wish \in Wish /\ patcher[r].row \in Choice
    BY <2>1 DEF ChoiceInv
  <2> QED
    BY <2>1 DEF RecordsInv, ChoiceInv, PatchesFit, ChoiceTypeOK
<1>2. RecordsInv => /\ AccountTypeOK /\ SignTypeOK /\ ProbeTypeOK /\ ThreadRowTypeOK
                    /\ ProjectTypeOK /\ GroupTypeOK /\ RemovalTypeOK /\ ReaderTypeOK
  BY DEF RecordsInv, AccountInv, SignInv, ProbeInv, ThreadRowInv, ProjectInv, GroupInv,
         RemovalInv, ReaderInv
<1>3. RecordsInv => ShareTypeOK /\ McpTypeOK /\ SetupTypeOK /\ MachineTypeOK
  BY ShareIsTyped, ServersAreSafe, SetupIsSafe, MachinesAreSafe DEF RecordsInv
<1>4. RecordsInv =>
        part \in {"accounts", "sign_in", "choice", "probe", "thread", "projects", "groups",
                 "removal", "readers", "share", "servers", "setup", "machines"}
  BY DEF RecordsInv
<1>5. RecordsInv => RecordsTypeOK
  BY <1>1, <1>2, <1>3, <1>4 DEF RecordsTypeOK
<1> QED
  BY <1>5, RecordsInvariance, PTL

\* A run gets what its owner has set: no server of a bundle has an argument that
\* is nothing but the placeholder of a value (mcpb.rs), none that was off when
\* the send came reaches the agent switched on unless it was switched on since,
\* whatever was installed or shadowed in between, no two come under one name
\* (mcp.rs), and a session asks nobody only if the turn was to be unasked, took
\* the first choice of an agent that has no other mode, or could not have its
\* mode set and runs as some turn was allowed to (acp/session_config.rs,
\* codex/provider.rs).
THEOREM RunsAlwaysAsConfigured == RecordsSpec => []RunsAsConfigured
<1>1. RecordsInv => RunsAsConfigured
  BY ServersAreSafe, SetupIsSafe DEF RecordsInv, RunsAsConfigured
<1> QED
  BY <1>1, RecordsInvariance, PTL

\* Another machine gets what is meant for it, whole: a pin is one that the
\* endpoint of the row showed or that its owner set, unless a call or a change
\* that had read another row wrote or kept it and neither a move nor the owner
\* has taken it away since (api/machines.rs); what is driven over SSH has a
\* login, unless the last change of the row overlapped another one (ssh.rs); a
\* key or a button that went down comes up again if the input is answered with
\* success (vnc/keysym.rs), and a picture has no pixel outside (vnc/mod.rs).
THEOREM OtherMachinesStaySafe == RecordsSpec => []OtherMachinesAreSafe
<1>1. RecordsInv => OtherMachinesAreSafe
  BY MachinesAreSafe DEF RecordsInv
<1> QED
  BY <1>1, RecordsInvariance, PTL

\* The rows agree: after a boot that acts as the local account that account is
\* an owner, unless a user with a password has its name (auth/bootstrap.rs), no
\* second factor is on whose secret was
\* not confirmed by a code (api/auth.rs; it may come on again after it was
\* turned off, see PromotedIsStaged), the session in the row of a thread is
\* one of the provider in that row, however a run and a change of settings
\* overlap (db/threads.rs), and a project names a group only while it is there
\* (db/project_groups.rs).
THEOREM RowsAlwaysAgree == RecordsSpec => []RowsAgree
<1>1. RecordsInv => RowsAgree
  BY DEF RecordsInv, RowsAgree, AccountInv, SignInv, ThreadRowInv, GroupInv
<1> QED
  BY <1>1, RecordsInvariance, PTL

\* Nothing is missed: a message of the agent counts as unread exactly if no
\* reader had it when the watermark was put on the last one, what a request
\* marks as viewed is in its answer (db/threads.rs), and of each thread that is
\* removed one request has the row, which it cleans up after once,
\* unless it is dropped (api/threads/routes.rs, api/projects.rs).
THEOREM NothingIsEverMissed == RecordsSpec => []NothingIsMissed
<1>1. RecordsInv => NothingIsMissed
  BY DEF RecordsInv, NothingIsMissed, ReaderInv, RemovalInv
<1> QED
  BY <1>1, RecordsInvariance, PTL

\* No request undoes what another has set: those who manage accounts never
\* touch an owner's (api/accounts.rs), a command that is named runs for the
\* provider it was named for (api/auth.rs), nothing but the user renames a
\* thread that has its title, a share keeps its link until it is revoked
\* (db/threads.rs), a new project comes after those that were there when its
\* place was read (db/projects.rs), and a probe that is under way is joined
\* (providers/status.rs).
THEOREM OthersAreAlwaysRespected == RecordsSpec => OthersAreRespected
<1>1. RecordsInv /\ [RecordsNext]_recordsVars =>
        [\A n \in Username : Exists(n) =>
           /\ account'[n].hash # "none"
           /\ account[n].owner => account'[n] = account[n]]_accountVars
  BY StepsOfComponents, OwnersStep DEF RecordsInv
<1>2. RecordsInv /\ [RecordsNext]_recordsVars =>
        [\A r \in Patcher :
           chosen' # chosen /\ patcher[r].wish.command # Keep /\ patcher'[r].wish = NoWish =>
             CommandFor(chosen', Effective(patcher[r].wish, patcher[r].row))
               = patcher[r].wish.command]_choiceVars
  BY StepsOfComponents, ChoiceInvStep DEF RecordsInv
<1>3. RecordsInv /\ [RecordsNext]_recordsVars =>
        [thread.named => thread'.title \in {thread.title, "user"}]_threadRowVars
  BY StepsOfComponents, TitleStep DEF RecordsInv
<1>4. [RecordsNext]_recordsVars =>
        [share.link # 0 /\ share'.link # 0 => share'.link = share.link]_shareVars
  BY StepsOfComponents, LinkStep
<1>5. RecordsInv /\ [RecordsNext]_recordsVars =>
        [\A c \in Creator : creator[c].at = "insert" /\ lastId' = lastId + 1
                              /\ creator'[c] = NoCreator =>
           \A i \in creator[c].older \cap Live :
             project[i].pos < project'[lastId'].pos]_projectVars
  BY StepsOfComponents, ProjectInvStep DEF RecordsInv
<1>6. RecordsInv /\ [RecordsNext]_recordsVars =>
        [\A c \in Prober : ~ At(c, "probes") /\ prober'[c].at = "probes" =>
           ~ cached /\ (drops > 0 \/ \A d \in Prober : ~ At(d, "probes"))]_probeVars
  BY StepsOfComponents, ProbeInvStep DEF RecordsInv
<1>7. RecordsSpec => OwnersAreLeftAlone
  BY <1>1, RecordsInvariance, PTL DEF RecordsSpec, OwnersAreLeftAlone
<1>8. RecordsSpec => NamedCommandRuns
  BY <1>2, RecordsInvariance, PTL DEF RecordsSpec, NamedCommandRuns
<1>9. RecordsSpec => TitleIsTheUsers
  BY <1>3, RecordsInvariance, PTL DEF RecordsSpec, TitleIsTheUsers
<1>10. RecordsSpec => LinkStaysStable
  BY <1>4, RecordsInvariance, PTL DEF RecordsSpec, LinkStaysStable
<1>11. RecordsSpec => NewProjectComesLast
  BY <1>5, RecordsInvariance, PTL DEF RecordsSpec, NewProjectComesLast
<1>12. RecordsSpec => ProbesAreShared
  BY <1>6, RecordsInvariance, PTL DEF RecordsSpec, ProbesAreShared
<1> QED
  BY <1>7, <1>8, <1>9, <1>10, <1>11, <1>12 DEF OthersAreRespected
=============================================================================
