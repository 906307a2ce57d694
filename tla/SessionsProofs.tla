-------------------------- MODULE SessionsProofs ---------------------------
(* Signing in: what a cookie and an assertion are worth, for any accounts,  *)
(* passphrases, signing keys and restarts, and whom the doors keep waiting. *)
EXTENDS Sessions, Throttle, TLAPS

TableOf == INSTANCE AccountTableProofs

---------------------------------------------------------------------------
\* The cached keys that still count have none that was withdrawn before the
\* last time the cache ran out.
NoneGone ==
    /\ issuer \cap gone = {}
    /\ cache.fresh => cache.kids \cap gone = {}

LEMMA CacheInit == Init => NoneGone
BY DEF Init, NoneGone

LEMMA CacheStep == NoneGone /\ [Next]_vars => NoneGone'
<1> SUFFICES ASSUME NoneGone, [Next]_vars PROVE NoneGone'
  OBVIOUS
<1> USE DEF NoneGone
<1>1. ASSUME NEW kid \in Kids, Assertion(kid) PROVE NoneGone'
  BY <1>1 DEF Assertion
<1>2. ASSUME NEW kid \in Kids, RotatesIn(kid) PROVE NoneGone'
  BY <1>2 DEF RotatesIn
<1>3. ASSUME NEW kid \in Kids, Withdraws(kid) PROVE NoneGone'
  BY <1>3 DEF Withdraws
<1>4. CASE CacheRunsOut
  <2>1. cache'.fresh = FALSE
    BY <1>4 DEF CacheRunsOut
  <2> QED BY <1>4, <2>1 DEF CacheRunsOut
<1>5. ASSUME NEW c \in Confs, Restart(c) PROVE NoneGone'
  BY <1>5 DEF Restart
<1>6. CASE UNCHANGED proxyVars
  BY <1>6 DEF proxyVars
<1>7. ASSUME \/ \E uid \in Uids : Login(uid) \/ Enroll(uid) \/ ChangePassword(uid)
             \/ LoginPass
             \/ \E c \in cookies : Gate(c) \/ Expires(c)
             \/ ChangeRefused \/ Administer
             \/ UNCHANGED vars
      PROVE  UNCHANGED proxyVars
  BY <1>7 DEF Login, Enroll, ChangePassword, LoginPass, Gate, Expires, ChangeRefused,
              Administer, vars, proxyVars
<1> QED BY <1>1, <1>2, <1>3, <1>4, <1>5, <1>6, <1>7 DEF Next

\* A key Cloudflare withdrew is refused once the cache that held it has run
\* out, whatever is asked and rotated meanwhile (cf_access._key_for).
THEOREM WithdrawnKeysEnd == Spec => []WithdrawnRefused
<1>1. NoneGone => WithdrawnRefused
  BY DEF NoneGone, WithdrawnRefused, Accepts
<1> QED BY <1>1, CacheInit, CacheStep, PTL DEF Spec

---------------------------------------------------------------------------
\* Everything that changes the accounts here is one operation of the table, so
\* what AccountTableProofs proves of it holds of the accounts sessions rest on.
LEMMA TableMoves == [Next]_vars => [TableOf!Next]_TableOf!tableVars
<1> SUFFICES ASSUME [Next]_vars PROVE TableOf!Next \/ UNCHANGED tableVars
  BY DEF TableOf!tableVars, tableVars
<1> DEFINE Op(uid) ==
      \/ Table!IssueInvite(uid) \/ Table!RedeemInvite(uid) \/ Table!SetPassword(uid)
      \/ Table!UpgradeHash(uid) \/ Table!Delete(uid)
      \/ \E role \in Roles, disabled \in BOOLEAN : Table!Update(uid, role, disabled)
<1>1. ASSUME NEW uid \in Live(users), Op(uid) PROVE TableOf!Next
  BY <1>1
  DEF TableOf!Next, TableOf!IssueInvite, TableOf!RedeemInvite, TableOf!SetPassword,
      TableOf!UpgradeHash, TableOf!Update, TableOf!Delete, TableOf!Fresh, TableOf!Ends,
      TableOf!Live, TableOf!Put, TableOf!Invited, TableOf!WithPassword, TableOf!Rehashed,
      TableOf!Updated, TableOf!UpdateAllowed, TableOf!DeleteAllowed, TableOf!UsableAdmin,
      TableOf!Administers, TableOf!CanSignIn, TableOf!AnotherAdmin, TableOf!None,
      Table!IssueInvite, Table!RedeemInvite, Table!SetPassword, Table!UpgradeHash,
      Table!Update, Table!Delete, Table!Fresh, Table!Ends, Table!Live, Table!Put,
      Table!Invited, Table!WithPassword, Table!Rehashed, Table!Updated,
      Table!UpdateAllowed, Table!DeleteAllowed, Table!UsableAdmin, Table!Administers,
      Table!CanSignIn, Table!AnotherAdmin, Table!None, Live
<1>2. ASSUME NEW uid \in Uids, NEW name \in Names, NEW role \in Roles,
             Table!Create(uid, name, role)
      PROVE  TableOf!Next
  BY <1>2
  DEF TableOf!Next, TableOf!Create, TableOf!NameFree, TableOf!NewRow, TableOf!Fresh,
      TableOf!Put, TableOf!Live, TableOf!None,
      Table!Create, Table!NameFree, Table!NewRow, Table!Fresh, Table!Put, Table!Live,
      Table!None
<1>3. CASE \E uid \in Uids : Login(uid) \/ Enroll(uid) \/ ChangePassword(uid)
  BY <1>1, <1>3 DEF Login, Enroll, ChangePassword
<1>4. CASE Administer
  BY <1>1, <1>2, <1>4 DEF Administer
<1>5. ASSUME \/ LoginPass \/ ChangeRefused \/ CacheRunsOut
             \/ \E c \in cookies : Gate(c) \/ Expires(c)
             \/ \E c \in Confs : Restart(c)
             \/ \E kid \in Kids : Assertion(kid) \/ RotatesIn(kid) \/ Withdraws(kid)
             \/ UNCHANGED vars
      PROVE  UNCHANGED tableVars
  BY <1>5 DEF LoginPass, ChangeRefused, CacheRunsOut, Gate, Expires, Restart, Assertion,
              RotatesIn, Withdraws, vars, tableVars
<1> QED BY <1>3, <1>4, <1>5 DEF Next

\* A cookie is signed over all it says: an account's over its role and hash, a
\* passphrase's over the passphrase.
OfAccount(c) ==
    /\ c.uid \in Uids
    /\ c.key = <<c.secret, c.role, c.uid, c.hash>>
OfPass(c) ==
    /\ c.uid = NoUid
    /\ c.key = <<c.secret, c.pass>>
Signed == \A c \in cookies : OfAccount(c) \/ OfPass(c)
SessionInv == TableOf!TableInv /\ conf \in Confs /\ Signed

\* The instance's assumptions are those of AccountOps.
LEMMA SameAssumptions ==
    TableOf!RolesAssumption /\ TableOf!NoRowAssumption /\ TableOf!StartAssumption
BY RolesAssumption, NoRowAssumption, StartAssumption
DEF TableOf!RolesAssumption, TableOf!NoRowAssumption, TableOf!StartAssumption,
    Row, UserMaps, Live, Creds, Cred, None, CredsDistinct,
    TableOf!Row, TableOf!UserMaps, TableOf!Live, TableOf!Creds, TableOf!Cred,
    TableOf!None, TableOf!CredsDistinct

LEMMA SessionInit == Init => SessionInv
<1> SUFFICES ASSUME Init PROVE SessionInv
  OBVIOUS
<1>1. TableOf!Init
  BY DEF Init, Table!Init, TableOf!Init, TableOf!Live, Table!Live
<1>2. TableOf!TableInv
  BY <1>1, TableOf!TableInit, SameAssumptions
<1> QED BY <1>2 DEF Init, SessionInv, Signed

\* A passphrase's cookie is signed with the passphrase it was given for.
LEMMA PassSigned ==
    ASSUME NEW rk \in RoleKeys(conf)
    PROVE  OfPass(PassCookie(rk, PassFor(conf, rk.role)))
<1>1. rk.key = SigningKey(conf.secret, PassFor(conf, rk.role))
  BY SessionsAssumption DEF RoleKeys, PassFor
<1> QED BY <1>1 DEF PassCookie, OfPass, SigningKey

LEMMA SessionStep == SessionInv /\ [Next]_vars => SessionInv'
<1> SUFFICES ASSUME SessionInv, [Next]_vars PROVE SessionInv'
  OBVIOUS
<1>1. TableOf!TableInv'
  BY TableMoves, TableOf!TableStep, SameAssumptions DEF SessionInv
<1>2. conf' \in Confs
  <2>1. CASE \E c \in Confs : Restart(c)
    BY <2>1 DEF Restart
  <2>2. CASE UNCHANGED conf
    BY <2>2 DEF SessionInv
  <2> QED BY <2>1, <2>2 DEF Next, vars, Login, Enroll, ChangePassword, LoginPass, Gate,
             Expires, ChangeRefused, Administer, Assertion, RotatesIn, Withdraws,
             CacheRunsOut
<1>0. ASSUME NEW cookie, OfAccount(cookie) \/ OfPass(cookie),
             cookies' \subseteq cookies \cup {cookie}
      PROVE  Signed'
  <2> SUFFICES ASSUME NEW c \in cookies' PROVE OfAccount(c) \/ OfPass(c)
    BY DEF Signed, OfAccount, OfPass
  <2> QED BY <1>0 DEF SessionInv, Signed
<1>3. ASSUME NEW uid \in Uids, NEW row, Mint(AccountCookie(uid, row)) PROVE Signed'
  <2>1. OfAccount(AccountCookie(uid, row))
    BY DEF AccountCookie, AccountKey, OfAccount
  <2> QED BY <1>0, <1>3, <2>1 DEF Mint
<1>4. ASSUME LoginPass PROVE Signed'
  <2>1. PICK rk \in RoleKeys(conf) : Mint(PassCookie(rk, PassFor(conf, rk.role)))
    BY <1>4 DEF LoginPass
  <2>2. OfPass(PassCookie(rk, PassFor(conf, rk.role)))
    BY PassSigned
  <2> QED BY <1>0, <2>1, <2>2 DEF Mint
<1>5. ASSUME \E uid \in Uids : Login(uid) \/ Enroll(uid) \/ ChangePassword(uid)
      PROVE  Signed'
  BY <1>3, <1>5 DEF Login, Enroll, ChangePassword
<1>6. ASSUME cookies' \subseteq cookies PROVE Signed'
  <2> SUFFICES ASSUME NEW c \in cookies' PROVE OfAccount(c) \/ OfPass(c)
    BY DEF Signed, OfAccount, OfPass
  <2> QED BY <1>6 DEF SessionInv, Signed
<1>7. ASSUME \/ ChangeRefused \/ Administer \/ CacheRunsOut
             \/ \E c \in cookies : Gate(c) \/ Expires(c)
             \/ \E c \in Confs : Restart(c)
             \/ \E kid \in Kids : Assertion(kid) \/ RotatesIn(kid) \/ Withdraws(kid)
             \/ UNCHANGED vars
      PROVE  cookies' \subseteq cookies
  BY <1>7 DEF Gate, Expires, ChangeRefused, Administer, Restart, Assertion, RotatesIn,
              Withdraws, CacheRunsOut, vars
<1>8. Signed'
  BY <1>4, <1>5, <1>6, <1>7 DEF Next
<1> QED BY <1>1, <1>2, <1>8 DEF SessionInv

---------------------------------------------------------------------------
\* What a cookie that still counts among the accounts was signed over is what
\* the table says now.
LEMMA AccountsAgree ==
    ASSUME SessionInv, conf.mode = "accounts", NEW c \in cookies, Valid(c)
    PROVE  /\ Proves(c).role = users[c.uid].role /\ c.uid \in Live(users)
           /\ c.secret = conf.secret /\ c.role = users[c.uid].role
           /\ c.hash = users[c.uid].hash
           /\ users[c.uid].hash # None /\ ~users[c.uid].disabled
<1>1. ProvesAccount(c, users) # Nobody
  BY DEF Valid, Proves
<1>2. /\ c.uid \in Live(users) /\ CanSignIn(users[c.uid])
      /\ c.key = <<conf.secret, users[c.uid].role, c.uid, users[c.uid].hash>>
      /\ Proves(c) = [who |-> users[c.uid].name, role |-> users[c.uid].role]
  BY <1>1 DEF ProvesAccount, AccountKey, Proves
<1>3. OfAccount(c)
  BY <1>2, SessionsAssumption DEF SessionInv, Signed, OfPass, Live
<1> QED BY <1>2, <1>3 DEF OfAccount, CanSignIn

\* A cookie that still counts where there are passphrases was made with one of
\* those in force, and proves the role that one opens.
RoleOf(d, pass) == IF d.admin = NoPass \/ pass = d.admin THEN RoleAdmin ELSE RoleUser
Opened(d, c) ==
    /\ c.uid = NoUid /\ c.secret = d.secret
    /\ c.pass = d.pass \/ (d.admin # NoPass /\ c.pass = d.admin)
LEMMA PassAgree ==
    ASSUME NEW d \in Confs, NEW c, OfAccount(c) \/ OfPass(c)
    PROVE  /\ (c.uid = NoUid /\ \E rk \in RoleKeys(d) : rk.key = c.key) <=> Opened(d, c)
           /\ Opened(d, c) => (CHOOSE rk \in RoleKeys(d) : rk.key = c.key).role
                                = RoleOf(d, c.pass)
<1>1. c.uid = NoUid => c.key = <<c.secret, c.pass>>
  BY SessionsAssumption DEF OfAccount, OfPass
<1>2. d.pass # d.admin
  BY SessionsAssumption
<1>3. \A rk \in RoleKeys(d) : c.uid = NoUid /\ rk.key = c.key =>
          /\ Opened(d, c) /\ rk.role = RoleOf(d, c.pass)
  BY <1>1, <1>2 DEF RoleKeys, SigningKey, Opened, RoleOf
<1>4. ASSUME Opened(d, c) PROVE \E rk \in RoleKeys(d) : rk.key = c.key
  BY <1>1, <1>4 DEF RoleKeys, SigningKey, Opened
<1>5. ASSUME Opened(d, c)
      PROVE  (CHOOSE rk \in RoleKeys(d) : rk.key = c.key).role = RoleOf(d, c.pass)
  <2> DEFINE rk == CHOOSE rk \in RoleKeys(d) : rk.key = c.key
  <2>1. rk \in RoleKeys(d) /\ rk.key = c.key
    BY <1>4, <1>5
  <2> QED BY <1>3, <1>5, <2>1 DEF Opened
<1> QED BY <1>3, <1>4, <1>5 DEF Opened

\* No session outlives what it rests on: the account it names, the role and the
\* password it was begun with, the secret and the passphrase of this start
\* (auth._valid_account, _valid), through every operation and restart.
THEOREM SessionsAreCurrent == Spec => []SessionsCurrent
<1>1. SessionInv => SessionsCurrent
  <2> SUFFICES ASSUME SessionInv, NEW c \in cookies, Valid(c)
               PROVE  /\ c.secret = conf.secret
                      /\ conf.mode = "accounts" =>
                           /\ c.hash \notin spent /\ c.role = Proves(c).role
                           /\ users[c.uid].hash # None /\ ~users[c.uid].disabled
                      /\ conf.mode = "passphrase" =>
                           /\ c.pass \in {conf.pass, conf.admin}
                           /\ Proves(c).role = RoleAdmin
                                <=> (c.pass = conf.admin \/ conf.admin = NoPass)
    BY DEF SessionsCurrent
  <2>1. CASE conf.mode = "accounts"
    <3>1. users[c.uid].hash \in TableOf!Creds(users)
      BY <2>1, AccountsAgree DEF TableOf!Creds, TableOf!Live, TableOf!None, Live, None
    <3>2. users[c.uid].hash \notin spent
      BY <3>1 DEF SessionInv, TableOf!TableInv, TableOf!SpentStaysSpent
    <3> QED BY <2>1, <3>2, AccountsAgree
  <2>2. CASE conf.mode = "passphrase"
    <3>1. c.uid = NoUid /\ \E rk \in RoleKeys(conf) : rk.key = c.key
      BY <2>2 DEF Valid, Proves, ProvesPass
    <3>2. Proves(c).role = (CHOOSE rk \in RoleKeys(conf) : rk.key = c.key).role
      BY <2>2, <3>1 DEF Proves, ProvesPass
    <3>3. conf \in Confs /\ (OfAccount(c) \/ OfPass(c))
      BY DEF SessionInv, Signed
    <3>4. Opened(conf, c) /\ Proves(c).role = RoleOf(conf, c.pass)
      BY <3>1, <3>2, <3>3, PassAgree
    <3> QED BY <2>2, <3>3, <3>4, SessionsAssumption DEF Opened, RoleOf
  <2>3. CASE conf.mode \notin {"accounts", "passphrase"}
    BY <2>3 DEF Valid, Proves
  <2> QED BY <2>1, <2>2, <2>3
<1> QED BY <1>1, SessionInit, SessionStep, PTL DEF Spec

\* Starting the server with one of two passphrases rotated ends the sessions
\* that one opened, and the others prove what they proved (auth._role_keys).
THEOREM RotationSparesOthers == Spec => RotationSpares
<1> DEFINE Spared == Rotates(conf, conf') => \A c \in cookies : Valid(c) =>
                        IF c.pass \in {conf'.pass, conf'.admin} THEN Proves(c)' = Proves(c)
                                                                ELSE ~Valid(c)'
<1>1. SessionInv /\ SessionInv' => Spared
  <2> SUFFICES ASSUME SessionInv, SessionInv', Rotates(conf, conf'),
                      NEW c \in cookies, Valid(c)
               PROVE  IF c.pass \in {conf'.pass, conf'.admin} THEN Proves(c)' = Proves(c)
                                                              ELSE ~Valid(c)'
    OBVIOUS
  <2>1. conf.mode = "passphrase" /\ conf'.mode = "passphrase"
    BY DEF Rotates
  <2>2. Proves(c) = ProvesPass(c) /\ Proves(c)' = ProvesPass(c)'
    BY <2>1 DEF Proves
  <2>3. conf \in Confs /\ conf' \in Confs /\ (OfAccount(c) \/ OfPass(c))
    BY DEF SessionInv, Signed
  <2>4. /\ Opened(conf, c)
        /\ ProvesPass(c) = [who |-> Nobody, role |-> RoleOf(conf, c.pass)]
    BY <2>2, <2>3, PassAgree DEF Valid, ProvesPass
  <2>5. ProvesPass(c)' = IF Opened(conf', c)
                         THEN [who |-> Nobody, role |-> RoleOf(conf', c.pass)]
                         ELSE Nobody
    BY <2>3, PassAgree DEF ProvesPass
  <2>6. CASE c.pass \in {conf'.pass, conf'.admin}
    <3>1. Opened(conf', c) /\ RoleOf(conf', c.pass) = RoleOf(conf, c.pass)
      BY <2>3, <2>4, <2>6, SessionsAssumption DEF Rotates, Opened, RoleOf
    <3> QED BY <2>2, <2>4, <2>5, <2>6, <3>1
  <2>7. CASE c.pass \notin {conf'.pass, conf'.admin}
    <3>1. ~Opened(conf', c)
      BY <2>7 DEF Opened
    <3> QED BY <2>2, <2>5, <2>7, <3>1 DEF Valid
  <2> QED BY <2>6, <2>7
<1>2. SessionInv /\ SessionInv' /\ [Next]_vars => [Spared]_vars
  BY <1>1
<1> QED BY <1>2, SessionInit, SessionStep, PTL DEF Spec, RotationSpares

----------------------------------------------------------------------------
(* The doors where a cookie is asked for: the throttle, for any limits,     *)
(* addresses and names.                                                     *)

\* A table is earned by what a history blames each key for: no entry counts
\* more failures than there were, and under backoff no entry delays a key that
\* has not used up its free attempts.
Earned(tab, bl) ==
    /\ DOMAIN tab \subseteq Keys
    /\ \A k \in DOMAIN tab :
          /\ tab[k].count \in Nat /\ tab[k].count <= bl[k]
          /\ Backoff /\ tab[k].blocked # 0 => tab[k].count > FreeOf(k)

Blames == [Keys -> 0..MaxCount]
More(bl, key) == [bl EXCEPT ![key] = Least(@ + 1, MaxCount)]

LEMMA Limits ==
    /\ MaxCount \in Nat \ {0} /\ MaxAttempts \in Nat
    /\ \A k \in Keys : FreeOf(k) \in Nat
BY ThrottleAssumption DEF Keys, Kinds, FreeOf

\* A purge invents nothing.
LEMMA PurgedEarned ==
    ASSUME NEW tab, NEW bl, Earned(tab, bl)
    PROVE  Earned(Purged(tab), bl)
BY DEF Earned, Purged, Remembered, NoAttempts

LEMMA MoreBlames ==
    ASSUME NEW bl \in Blames, NEW key \in Keys
    PROVE  /\ More(bl, key) \in Blames
           /\ \A k \in Keys : More(bl, key)[k] = IF k = key THEN Least(bl[k] + 1, MaxCount) ELSE bl[k]
           /\ More(bl, key)[key] >= 1
BY Limits DEF Blames, More, Least

\* One failure recorded is one failure more to blame.
LEMMA FailedEarned ==
    ASSUME NEW tab, NEW bl \in Blames, Earned(tab, bl), NEW key \in Keys
    PROVE  Earned(Failed(tab, key), More(bl, key))
<1> DEFINE kept == Purged(tab)
           count == CountOf(kept, key)
<1>1. Earned(kept, bl)
  BY PurgedEarned
<1>2. count \in Nat /\ count <= More(bl, key)[key]
  <2>1. CASE key \notin DOMAIN kept \/ kept[key].forget = 0
    BY <2>1, MoreBlames DEF CountOf, Blames
  <2>2. CASE ~(key \notin DOMAIN kept \/ kept[key].forget = 0)
    <3>1. kept[key].count \in Nat /\ kept[key].count <= bl[key] /\ bl[key] \in Nat
      BY <1>1, <2>2 DEF Earned, Blames
    <3>2. count = Least(kept[key].count + 1, MaxCount)
      BY <2>2 DEF CountOf
    <3> QED BY <3>1, <3>2, Limits, MoreBlames DEF Least
  <2> QED BY <2>1, <2>2
<1>3. Backoff /\ Delay(key, count) # 0 => count > FreeOf(key)
  BY <1>2, Limits DEF Delay
<1>4. /\ DOMAIN Failed(tab, key) = DOMAIN kept \cup {key}
      /\ \A k \in DOMAIN kept : k # key => Failed(tab, key)[k] = kept[k]
      /\ Failed(tab, key)[key].count = count
      /\ Failed(tab, key)[key].blocked = IF Backoff THEN Delay(key, count) ELSE Lockout
  BY DEF Failed
<1>5. ASSUME NEW k \in DOMAIN kept, k # key
      PROVE  /\ Failed(tab, key)[k].count \in Nat
             /\ Failed(tab, key)[k].count <= More(bl, key)[k]
             /\ Backoff /\ Failed(tab, key)[k].blocked # 0 => Failed(tab, key)[k].count > FreeOf(k)
  BY <1>1, <1>4, <1>5, MoreBlames DEF Earned
<1> QED BY <1>1, <1>2, <1>3, <1>4, <1>5 DEF Earned

\* A success takes the entry and the blame away together.
LEMMA ClearEarned ==
    ASSUME NEW keys, blame \in Blames, Earned(attempts, blame), Clear(keys), UNCHANGED mode
    PROVE  Earned(attempts, blame)' /\ blame' \in Blames
<1>1. /\ attempts' = [k \in DOMAIN attempts \ keys |-> attempts[k]]
      /\ blame' = [k \in Keys |-> IF k \in keys THEN 0 ELSE blame[k]]
  BY DEF Clear
<1>2. blame' \in Blames
  BY <1>1, Limits DEF Blames
<1> QED BY <1>1, <1>2 DEF Earned, Backoff

---------------------------------------------------------------------------
DInv == blame \in Blames /\ Earned(attempts, blame)

LEMMA DInit == ThrottleInit => DInv
BY Limits DEF ThrottleInit, DInv, Blames, Earned, NoAttempts

LEMMA RecordInv ==
    ASSUME DInv, NEW key \in Keys, Record(key), UNCHANGED mode
    PROVE  DInv'
<1>1. attempts' = Failed(attempts, key) /\ blame' = More(blame, key)
  BY DEF Record, More
<1> QED BY <1>1, FailedEarned, MoreBlames DEF DInv, Earned, Backoff

LEMMA RecordBothInv ==
    ASSUME DInv, NEW a \in Addresses, NEW n \in Offered,
           RecordBoth(<<"ip", a>>, <<"user", n>>), UNCHANGED mode
    PROVE  DInv'
<1> DEFINE ip == <<"ip", a>>
           user == <<"user", n>>
           bl == More(blame, ip)
<1>1. ip \in Keys /\ user \in Keys /\ ip # user
  BY DEF Keys
<1>2. bl \in Blames /\ Earned(Failed(attempts, ip), bl)
  BY <1>1, FailedEarned, MoreBlames DEF DInv
<1>3. /\ More(bl, user) \in Blames
      /\ Earned(Failed(Failed(attempts, ip), user), More(bl, user))
  BY <1>1, <1>2, FailedEarned, MoreBlames
<1>4. blame' = More(bl, user)
  BY <1>1 DEF RecordBoth, More, DInv, Blames
<1>5. attempts' = Failed(Failed(attempts, ip), user)
  BY DEF RecordBoth
<1> QED BY <1>3, <1>4, <1>5 DEF DInv, Earned, Backoff

LEMMA DStep == DInv /\ [ThrottleNext]_throttleVars => DInv'
<1> SUFFICES ASSUME DInv, [ThrottleNext]_throttleVars PROVE DInv'
  OBVIOUS
<1>1. ASSUME NEW a \in Addresses, NEW n \in Offered, LoginWrong(a, n) PROVE DInv'
  BY <1>1, RecordBothInv DEF LoginWrong
<1>2. ASSUME NEW keys, Clear(keys), UNCHANGED mode PROVE DInv'
  BY <1>2, ClearEarned DEF DInv
<1>3. ASSUME NEW a \in Addresses, NEW n \in Offered, LoginRight(a, n) \/ EnrollGood(a, n)
      PROVE  DInv'
  BY <1>2, <1>3 DEF LoginRight, EnrollGood
<1>4. ASSUME NEW a \in Addresses, PassphraseRight(a) PROVE DInv'
  BY <1>2, <1>4 DEF PassphraseRight
<1>5. ASSUME NEW a \in Addresses, PassphraseWrong(a) \/ EnrollBad(a) PROVE DInv'
  <2>1. <<"ip", a>> \in Keys /\ <<"enroll", a>> \in Keys
    BY DEF Keys
  <2> QED BY <1>5, <2>1, RecordInv DEF PassphraseWrong, EnrollBad
<1>6. ASSUME NEW n \in Offered, WrongCurrent(n) PROVE DInv'
  <2>1. <<"user", n>> \in Keys
    BY DEF Keys
  <2> QED BY <1>6, <2>1, RecordInv DEF WrongCurrent
<1>7. ASSUME NEW m \in Modes, ServerRestart(m) PROVE DInv'
  BY <1>7, Limits DEF ServerRestart, DInv, Blames, Earned, NoAttempts
<1>8. CASE Tick
  BY <1>8 DEF Tick, Down, DInv, Earned, Backoff
<1>9. CASE UNCHANGED throttleVars
  BY <1>9 DEF throttleVars, DInv, Earned, Backoff
<1> QED BY <1>1, <1>3, <1>4, <1>5, <1>6, <1>7, <1>8, <1>9 DEF ThrottleNext

\* Whoever waits has failed too often since somebody last got in with that key,
\* in either mode, with any limits, through purges of the table and restarts
\* (auth._record_one_failure, _clear_failures).
THEOREM DelaysAreDeserved == ThrottleSpec => []Deserved
<1>1. DInv => Deserved
  <2> SUFFICES ASSUME DInv, NEW k \in Keys, WaitOf(k) > 0
               PROVE  blame[k] >= IF Backoff THEN FreeOf(k) + 1 ELSE MaxAttempts
    BY DEF Deserved
  <2>1. k \in DOMAIN attempts
    BY DEF WaitOf
  <2>2. attempts[k].count \in Nat /\ attempts[k].count <= blame[k] /\ blame[k] \in Nat
    BY <2>1 DEF DInv, Earned, Blames
  <2>3. CASE Backoff
    <3>1. attempts[k].blocked # 0
      BY <2>1, <2>3 DEF WaitOf
    <3>2. attempts[k].count > FreeOf(k)
      BY <2>1, <2>3, <3>1 DEF DInv, Earned
    <3> QED BY <2>2, <2>3, <3>2, Limits
  <2>4. CASE ~Backoff
    <3>1. attempts[k].count >= MaxAttempts
      BY <2>1, <2>4 DEF WaitOf
    <3> QED BY <2>2, <2>4, <3>1, Limits
  <2> QED BY <2>3, <2>4
<1> QED BY <1>1, DInit, DStep, PTL DEF ThrottleSpec
============================================================================
