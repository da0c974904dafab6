---------------------------- MODULE HubAuthProofs ----------------------------
(***************************************************************************)
(* Proofs about the start of the hub and its brute-force protection.       *)
(***************************************************************************)
EXTENDS HubAuth, FiniteSetTheorems, TLAPS

-----------------------------------------------------------------------------
(* The host key.  A file that holds a key holds the first one served, a     *)
(* file that is being written was never served from, and a torn one stops   *)
(* every later start.                                                       *)

HostKeyInv ==
    /\ starts \in Nat /\ hub \in {"down", "writing", "up"}
    /\ hostFile \in [is : {"absent", "torn", "key"}, key : Nat]
    /\ hostFile.is = "absent" => firstKey = 0
    /\ hostFile.is = "key" => firstKey # 0 /\ hostFile.key = firstKey
    /\ hub = "writing" => hostFile.is = "torn" /\ firstKey = 0 /\ starts # 0
    /\ hub = "up" => hostFile.is = "key" /\ hostKey = firstKey

\* A hub with a key path serves the key it served first, across crashes at any
\* point of any number of starts.
THEOREM HostKeyPinned == AuthSpec => []HostKeyKept
<1>1. AuthInit => HostKeyInv
  BY DEF AuthInit, HostKeyInv
<1>2. HostKeyInv /\ [AuthNext]_authVars => HostKeyInv'
  <2> SUFFICES ASSUME HostKeyInv, [AuthNext]_authVars PROVE HostKeyInv' OBVIOUS
  <2> USE DEF HostKeyInv
  <2>1. CASE LoadHostKey
    BY <2>1 DEF LoadHostKey, Serve
  <2>2. CASE GenerateHostKey
    BY <2>2 DEF GenerateHostKey, KeyFileExists
  <2>3. CASE WriteHostKey
    BY <2>3 DEF WriteHostKey, Serve
  <2>4. CASE HubDies
    BY <2>4 DEF HubDies
  <2>5. CASE UNCHANGED <<hub, hostFile, hostKey, starts, firstKey>>
    BY <2>5
  <2> QED BY <2>1, <2>2, <2>3, <2>4, <2>5
          DEF AuthNext, authVars, AuthTick, AuthPublickey, Validate, RecordAttempt
<1>3. HostKeyInv => HostKeyKept
  BY DEF HostKeyInv, HostKeyKept
<1> QED BY <1>1, <1>2, <1>3, PTL DEF AuthSpec

-----------------------------------------------------------------------------
(* Lists of failures.                                                       *)

Lists == UNION {[S -> 0..LockoutTicks] : S \in {T \in SUBSET Nat : IsFiniteSet(T)}}
Size(f) == Cardinality(DOMAIN f)
AllRecent(f) == \A n \in DOMAIN f : f[n] < LockoutTicks

\* What it is to be a list.
LEMMA ListFacts ==
    ASSUME NEW f
    PROVE  f \in Lists <=> /\ f \in [DOMAIN f -> 0..LockoutTicks]
                           /\ DOMAIN f \subseteq Nat /\ IsFiniteSet(DOMAIN f)
BY DEF Lists

\* The empty list.
LEMMA NoFailuresList ==
    NoFailures \in Lists /\ Size(NoFailures) = 0 /\ Recent(NoFailures) = NoFailures
    /\ DOMAIN NoFailures = {}
<1>1. DOMAIN NoFailures = {} /\ NoFailures \in [DOMAIN NoFailures -> 0..LockoutTicks]
  BY DEF NoFailures
<1>2. Recent(NoFailures) = NoFailures
  BY DEF NoFailures, Recent, Restrict
<1> QED BY <1>1, <1>2, ListFacts, FS_EmptySet DEF Size

\* retain keeps a part of a list, and what it keeps is inside the duration.
LEMMA RecentFacts ==
    ASSUME NEW f \in Lists
    PROVE  /\ Recent(f) \in Lists /\ AllRecent(Recent(f))
           /\ DOMAIN Recent(f) = {n \in DOMAIN f : f[n] < LockoutTicks}
           /\ \A n \in DOMAIN Recent(f) : Recent(f)[n] = f[n]
           /\ Size(f) \in Nat /\ Size(Recent(f)) \in Nat /\ Size(Recent(f)) <= Size(f)
<1>1. /\ f \in [DOMAIN f -> 0..LockoutTicks]
      /\ DOMAIN f \subseteq Nat /\ IsFiniteSet(DOMAIN f)
  BY ListFacts
<1>2. /\ DOMAIN Recent(f) = {n \in DOMAIN f : f[n] < LockoutTicks}
      /\ \A n \in DOMAIN Recent(f) : Recent(f)[n] = f[n]
      /\ Recent(f) \in [DOMAIN Recent(f) -> 0..LockoutTicks]
  BY <1>1 DEF Recent, Restrict
<1>3. /\ IsFiniteSet(DOMAIN Recent(f)) /\ Size(f) \in Nat /\ Size(Recent(f)) \in Nat
      /\ Size(Recent(f)) <= Size(f)
  BY <1>1, <1>2, FS_Subset, FS_CardinalityType DEF Size
<1>4. AllRecent(Recent(f))
  BY <1>2 DEF AllRecent
<1>5. Recent(f) \in Lists
  BY <1>1, <1>2, <1>3, ListFacts
<1> QED BY <1>2, <1>3, <1>4, <1>5

\* A list inside the duration is kept whole.
LEMMA RecentWhole ==
    ASSUME NEW f \in Lists, AllRecent(f)
    PROVE  Recent(f) = f
<1>1. f \in [DOMAIN f -> 0..LockoutTicks]
  BY ListFacts
<1> QED BY <1>1 DEF Recent, Restrict, AllRecent

\* push makes a list longer by one: among the first numbers, one more than it has
\* members, some number is free.
LEMMA PushedFacts ==
    ASSUME NEW f \in Lists
    PROVE  /\ Pushed(f) \in Lists /\ Size(Pushed(f)) = Size(f) + 1
           /\ AllRecent(f) => AllRecent(Pushed(f))
<1> DEFINE D == DOMAIN f
           new == CHOOSE n \in 0..Cardinality(D) : n \notin D
<1>1. f \in [D -> 0..LockoutTicks] /\ D \subseteq Nat /\ IsFiniteSet(D) /\ Cardinality(D) \in Nat
  BY ListFacts, FS_CardinalityType
<1> HIDE DEF D
<1>2. \E n \in 0..Cardinality(D) : n \notin D
  <2> SUFFICES ASSUME 0..Cardinality(D) \subseteq D PROVE FALSE OBVIOUS
  <2>1. Cardinality(0..Cardinality(D)) <= Cardinality(D)
    BY <1>1, FS_Subset
  <2>2. Cardinality(0..Cardinality(D)) = Cardinality(D) + 1
    BY <1>1, FS_Interval
  <2> QED BY <1>1, <2>1, <2>2
<1>3. new \in 0..Cardinality(D) /\ new \notin D
  BY <1>2
<1>4. Pushed(f) = [n \in D \cup {new} |-> IF n = new THEN 0 ELSE f[n]]
  BY DEF Pushed, D
<1> HIDE DEF new
<1>5. new \in Nat /\ 0 \in 0..LockoutTicks
  BY <1>1, <1>3, HubAuthAssumption
<1>6. /\ DOMAIN Pushed(f) = D \cup {new}
      /\ Pushed(f) \in [D \cup {new} -> 0..LockoutTicks]
  BY <1>1, <1>4, <1>5
<1>7. IsFiniteSet(D \cup {new}) /\ Cardinality(D \cup {new}) = Cardinality(D) + 1
  BY <1>1, <1>3, FS_AddElement
<1>8. Pushed(f) \in Lists
  BY <1>1, <1>5, <1>6, <1>7, ListFacts
<1>9. Size(Pushed(f)) = Size(f) + 1
  BY <1>6, <1>7 DEF Size, D
<1>10. AllRecent(f) => AllRecent(Pushed(f))
  BY <1>4, <1>6, HubAuthAssumption DEF AllRecent, D
<1> QED BY <1>8, <1>9, <1>10

\* A tick ages every member and loses none.
LEMMA AgedFacts ==
    ASSUME NEW f \in Lists
    PROVE  /\ Aged(f) \in Lists /\ Size(Aged(f)) = Size(f) /\ DOMAIN Aged(f) = DOMAIN f
           /\ \A n \in DOMAIN f : Aged(f)[n] = Older(f[n])
<1>1. /\ f \in [DOMAIN f -> 0..LockoutTicks]
      /\ DOMAIN f \subseteq Nat /\ IsFiniteSet(DOMAIN f)
  BY ListFacts
<1>2. \A n \in 0..LockoutTicks : Older(n) \in 0..LockoutTicks
  BY HubAuthAssumption DEF Older
<1>3. /\ DOMAIN Aged(f) = DOMAIN f /\ Aged(f) \in [DOMAIN f -> 0..LockoutTicks]
      /\ \A n \in DOMAIN f : Aged(f)[n] = Older(f[n])
  BY <1>1, <1>2 DEF Aged
<1> QED BY <1>1, <1>3, ListFacts DEF Size

\* Forgetting before a tick forgets nothing that forgetting after it would keep.
LEMMA RecentAged ==
    ASSUME NEW f \in Lists
    PROVE  Recent(Aged(Recent(f))) = Recent(Aged(f))
<1>1. /\ Recent(f) \in Lists /\ DOMAIN Recent(f) = {n \in DOMAIN f : f[n] < LockoutTicks}
      /\ \A n \in DOMAIN Recent(f) : Recent(f)[n] = f[n]
  BY RecentFacts
<1>2. /\ Aged(f) \in Lists /\ DOMAIN Aged(f) = DOMAIN f
      /\ \A n \in DOMAIN f : Aged(f)[n] = Older(f[n])
  BY AgedFacts
<1>3. /\ Aged(Recent(f)) \in Lists /\ DOMAIN Aged(Recent(f)) = DOMAIN Recent(f)
      /\ \A n \in DOMAIN Recent(f) : Aged(Recent(f))[n] = Older(Recent(f)[n])
  BY <1>1, AgedFacts
<1>4. \A n \in DOMAIN f : f[n] \in 0..LockoutTicks
  BY ListFacts
<1>5. \A n \in DOMAIN f : Older(f[n]) < LockoutTicks => f[n] < LockoutTicks
  BY <1>4, HubAuthAssumption DEF Older
<1>6. {n \in DOMAIN Aged(Recent(f)) : Aged(Recent(f))[n] < LockoutTicks}
      = {n \in DOMAIN Aged(f) : Aged(f)[n] < LockoutTicks}
  BY <1>1, <1>2, <1>3, <1>5
<1>7. \A n \in DOMAIN Recent(f) : Aged(Recent(f))[n] = Aged(f)[n]
  BY <1>1, <1>2, <1>3
<1> DEFINE S == {n \in DOMAIN Aged(f) : Aged(f)[n] < LockoutTicks}
<1>8. S \subseteq DOMAIN Recent(f)
  BY <1>1, <1>2, <1>5
<1>9. Recent(Aged(Recent(f))) = [n \in S |-> Aged(Recent(f))[n]]
  BY <1>6 DEF Recent, Restrict
<1>10. Recent(Aged(f)) = [n \in S |-> Aged(f)[n]]
  BY DEF Recent, Restrict
<1> HIDE DEF S
<1> QED BY <1>7, <1>8, <1>9, <1>10

-----------------------------------------------------------------------------
(* The brute-force protection.  While an address has as many failures as    *)
(* lead to a lockout, the lockout is no older than any of them: so it is    *)
(* still in force, nobody new passes the check, and only the connections    *)
(* that were past it already can add to the failures.                       *)

AttemptRec == [pc : {"idle", "asked", "answered"}, addr : Addrs \cup {0}, ok : BOOLEAN]
Conns == Cardinality(AuthConns)
Past(a) == {c \in AuthConns : attempt[c].pc # "idle" /\ attempt[c].addr = a}

AuthTypeOK ==
    /\ attempt \in [AuthConns -> AttemptRec]
    /\ \A c \in AuthConns : attempt[c].pc # "idle" => attempt[c].addr \in Addrs
    /\ lockouts \in [Addrs -> 0..LockoutTicks]
    /\ failures \in [Addrs -> Lists] /\ guesses \in [Addrs -> Lists]

AddressOK(a) ==
    /\ guesses[a] = Recent(failures[a])
    /\ Size(guesses[a]) >= MaxAuthAttempts =>
          \A n \in DOMAIN guesses[a] : lockouts[a] <= guesses[a][n]
    /\ Size(guesses[a]) + Cardinality(Past(a)) <= MaxAuthAttempts + Conns - 1

AuthInv == AuthTypeOK /\ \A a \in Addrs : AddressOK(a)

\* The connections past the check are among all connections.
LEMMA PastFacts ==
    ASSUME NEW a
    PROVE  /\ IsFiniteSet(Past(a)) /\ Cardinality(Past(a)) \in Nat /\ Conns \in Nat
           /\ Cardinality(Past(a)) <= Conns
BY HubAuthAssumption, FS_Subset, FS_CardinalityType DEF Past, Conns

\* An address that is not locked out has fewer failures than lead to a lockout.
LEMMA FewWhenFree ==
    ASSUME AuthInv, NEW a \in Addrs, ~IsLockedOut(a)
    PROVE  Size(guesses[a]) \in Nat /\ Size(guesses[a]) < MaxAuthAttempts
<1>1. /\ guesses[a] = Recent(failures[a]) /\ failures[a] \in Lists
      /\ lockouts[a] \in 0..LockoutTicks /\ ~(lockouts[a] < LockoutTicks)
  BY DEF AuthInv, AuthTypeOK, AddressOK, IsLockedOut
<1>2. guesses[a] \in Lists /\ AllRecent(guesses[a]) /\ Size(guesses[a]) \in Nat
  BY <1>1, RecentFacts
<1>3. CASE DOMAIN guesses[a] = {}
  BY <1>3, HubAuthAssumption, FS_EmptySet DEF Size
<1>4. ASSUME NEW n \in DOMAIN guesses[a] PROVE Size(guesses[a]) < MaxAuthAttempts
  <2>1. guesses[a][n] \in 0..LockoutTicks /\ guesses[a][n] < LockoutTicks
    BY <1>2, ListFacts DEF AllRecent
  <2>2. ~(lockouts[a] <= guesses[a][n])
    BY <1>1, <2>1, HubAuthAssumption
  <2> QED BY <1>2, <2>2, HubAuthAssumption DEF AuthInv, AddressOK
<1> QED BY <1>2, <1>3, <1>4

\* A check, an answer, a record, a tick and a crash keep the protection's account.
LEMMA AuthStep ==
    ASSUME AuthInv, [AuthNext]_authVars
    PROVE  AuthInv'
<1>0. /\ AuthTypeOK
      /\ \A a \in Addrs : /\ AddressOK(a) /\ failures[a] \in Lists /\ guesses[a] \in Lists
                          /\ lockouts[a] \in 0..LockoutTicks /\ Size(guesses[a]) \in Nat
  BY RecentFacts DEF AuthInv, AuthTypeOK
<1>a. /\ Conns \in Nat /\ MaxAuthAttempts \in Nat /\ MaxAuthAttempts >= 1
      /\ LockoutTicks \in Nat /\ LockoutTicks >= 1
  BY PastFacts, HubAuthAssumption
<1>1. ASSUME NEW c \in AuthConns, NEW b \in Addrs, AuthPublickey(c, b) PROVE AuthInv'
  <2> DEFINE x == [pc |-> "asked", addr |-> b, ok |-> FALSE]
  <2>1. /\ attempt[c].pc = "idle" /\ ~IsLockedOut(b) /\ attempt' = [attempt EXCEPT ![c] = x]
        /\ UNCHANGED <<failures, lockouts, guesses>>
    BY <1>1 DEF AuthPublickey
  <2>2. x \in AttemptRec /\ x.addr = b /\ x.pc = "asked"
    BY DEF AttemptRec
  <2> HIDE DEF x
  <2>3. AuthTypeOK'
    BY <1>0, <2>1, <2>2 DEF AuthTypeOK
  <2>4. ASSUME NEW a \in Addrs PROVE AddressOK(a)'
    <3>1. CASE a = b
      <4>1. Size(guesses[a]) < MaxAuthAttempts
        BY <2>1, <3>1, FewWhenFree
      <4>2. Cardinality(Past(a)') \in Nat /\ Cardinality(Past(a)') <= Conns
        BY HubAuthAssumption, FS_Subset, FS_CardinalityType DEF Past, Conns
      <4> QED BY <1>0, <1>a, <2>1, <4>1, <4>2 DEF AddressOK, Conns
    <3>2. CASE a # b
      <4>1. Past(a)' = Past(a)
        BY <1>0, <2>1, <2>2, <3>2 DEF Past, AuthTypeOK
      <4> QED BY <1>0, <2>1, <4>1 DEF AddressOK, Conns
    <3> QED BY <3>1, <3>2
  <2> QED BY <2>3, <2>4 DEF AuthInv
<1>2. ASSUME NEW c \in AuthConns, NEW valid \in BOOLEAN, Validate(c, valid) PROVE AuthInv'
  <2> DEFINE x == [attempt[c] EXCEPT !.pc = "answered", !.ok = Accepted(valid)]
  <2>1. /\ attempt[c].pc = "asked" /\ attempt' = [attempt EXCEPT ![c] = x]
        /\ UNCHANGED <<failures, lockouts, guesses>>
    BY <1>2 DEF Validate
  <2>2. x \in AttemptRec /\ x.addr = attempt[c].addr /\ x.pc = "answered"
    <3>1. attempt[c] \in AttemptRec /\ Accepted(valid) \in BOOLEAN
      BY <1>0 DEF AuthTypeOK, Accepted
    <3> QED BY <3>1 DEF AttemptRec
  <2> HIDE DEF x
  <2>3. AuthTypeOK' /\ \A a \in Addrs : Past(a)' = Past(a)
    BY <1>0, <2>1, <2>2 DEF AuthTypeOK, Past
  <2> QED BY <1>0, <2>1, <2>3 DEF AuthInv, AddressOK, Conns
<1>3. ASSUME NEW c \in AuthConns, RecordAttempt(c) PROVE AuthInv'
  <2>0. PICK b \in Addrs : b = attempt[c].addr
    BY <1>0, <1>3 DEF RecordAttempt, AuthTypeOK
  <2> DEFINE failed == Pushed(Recent(failures[b]))
             lock == IF TooMany(Size(failed)) THEN 0 ELSE lockouts[b]
  <2>1. /\ attempt[c].pc = "answered" /\ b \in Addrs
        /\ attempt' = [attempt EXCEPT ![c] = NoAttempt]
        /\ attempt[c].ok =>
              /\ failures' = [failures EXCEPT ![b] = NoFailures]
              /\ lockouts' = [lockouts EXCEPT ![b] = LockoutTicks]
              /\ guesses' = [guesses EXCEPT ![b] = NoFailures]
        /\ ~attempt[c].ok =>
              /\ failures' = [failures EXCEPT ![b] = failed]
              /\ lockouts' = [lockouts EXCEPT ![b] = lock]
              /\ guesses' = [guesses EXCEPT ![b] = Pushed(Recent(guesses[b]))]
    BY <1>3, <2>0 DEF RecordAttempt, Size
  <2>2. NoAttempt \in AttemptRec /\ NoAttempt.pc = "idle"
    BY DEF NoAttempt, AttemptRec
  <2>3. /\ \A a \in Addrs : a # b => Past(a)' = Past(a)
        /\ Past(b)' = Past(b) \ {c} /\ c \in Past(b)
    BY <1>0, <2>0, <2>1, <2>2 DEF Past, AuthTypeOK
  <2>4. Cardinality(Past(b)') = Cardinality(Past(b)) - 1 /\ Cardinality(Past(b)) \in Nat
        /\ Cardinality(Past(b)) <= Conns
    BY <2>3, PastFacts, FS_RemoveElement
  <2>5. attempt' \in [AuthConns -> AttemptRec]
        /\ \A d \in AuthConns : attempt'[d].pc # "idle" => attempt'[d].addr \in Addrs
    BY <1>0, <2>1, <2>2 DEF AuthTypeOK
  <2>6. CASE attempt[c].ok
    <3>0. /\ failures' = [failures EXCEPT ![b] = NoFailures]
          /\ lockouts' = [lockouts EXCEPT ![b] = LockoutTicks]
          /\ guesses' = [guesses EXCEPT ![b] = NoFailures]
          /\ LockoutTicks \in 0..LockoutTicks
      BY <1>a, <2>1, <2>6
    <3>1. AuthTypeOK'
      BY <1>0, <2>5, <3>0, NoFailuresList DEF AuthTypeOK
    <3>2. ASSUME NEW a \in Addrs PROVE AddressOK(a)'
      <4>1. CASE a = b
        <5>1. failures'[a] = NoFailures /\ guesses'[a] = NoFailures
          BY <1>0, <2>1, <2>6, <4>1 DEF AuthTypeOK
        <5> QED BY <1>a, <2>4, <4>1, <5>1, NoFailuresList DEF AddressOK, Conns
      <4>2. CASE a # b
        BY <1>0, <2>1, <2>3, <2>6, <4>2 DEF AddressOK, AuthTypeOK, Conns
      <4> QED BY <4>1, <4>2
    <3> QED BY <3>1, <3>2 DEF AuthInv
  <2>7. CASE ~attempt[c].ok
    <3>0. /\ guesses[b] = Recent(failures[b]) /\ failures[b] \in Lists /\ AddressOK(b)
      BY <1>0, <2>1 DEF AddressOK
    <3>1. /\ Recent(failures[b]) \in Lists /\ AllRecent(Recent(failures[b]))
          /\ Recent(guesses[b]) = guesses[b]
      BY <3>0, RecentFacts, RecentWhole
    <3>2. /\ failed \in Lists /\ Size(failed) = Size(guesses[b]) + 1 /\ AllRecent(failed)
          /\ Recent(failed) = failed
      BY <3>0, <3>1, PushedFacts, RecentWhole
    <3>3. lock \in 0..LockoutTicks
      BY <1>0, <1>a, <2>1
    <3>4. failures' = [failures EXCEPT ![b] = failed] /\ guesses' = [guesses EXCEPT ![b] = failed]
          /\ lockouts' = [lockouts EXCEPT ![b] = lock]
      BY <2>1, <2>7, <3>0, <3>1
    <3>5. Size(failed) >= MaxAuthAttempts => lock = 0
      BY DEF TooMany
    <3> HIDE DEF failed, lock
    <3>6. AuthTypeOK'
      BY <1>0, <2>1, <2>5, <3>2, <3>3, <3>4 DEF AuthTypeOK
    <3>7. ASSUME NEW a \in Addrs PROVE AddressOK(a)'
      <4>1. CASE a = b
        <5>1. failures'[a] = failed /\ guesses'[a] = failed /\ lockouts'[a] = lock
          BY <1>0, <2>1, <3>4, <4>1 DEF AuthTypeOK
        <5>2. Size(failed) >= MaxAuthAttempts => \A n \in DOMAIN failed : lock <= failed[n]
          <6>1. \A n \in DOMAIN failed : 0 <= failed[n]
            BY <3>2, <1>a, ListFacts
          <6> QED BY <3>5, <6>1
        <5>3. Size(failed) + Cardinality(Past(b)') <= MaxAuthAttempts + Conns - 1
          <6>1. Size(guesses[b]) \in Nat
            BY <1>0, <2>1
          <6> QED BY <1>a, <2>4, <3>0, <3>2, <6>1 DEF AddressOK
        <5> QED BY <3>2, <4>1, <5>1, <5>2, <5>3 DEF AddressOK, Conns
      <4>2. CASE a # b
        BY <1>0, <2>1, <2>3, <3>4, <4>2 DEF AddressOK, AuthTypeOK, Conns
      <4> QED BY <4>1, <4>2
    <3> QED BY <3>6, <3>7 DEF AuthInv
  <2> QED BY <2>6, <2>7
<1>4. CASE HubDies
  <2>1. NoAttempt \in AttemptRec /\ NoAttempt.pc = "idle"
    BY DEF NoAttempt, AttemptRec
  <2>2. AuthTypeOK'
    BY <1>4, <1>a, <2>1, NoFailuresList DEF HubDies, AuthTypeOK
  <2>3. \A a \in Addrs : Past(a)' = {}
    BY <1>4, <2>1 DEF HubDies, Past
  <2>4. ASSUME NEW a \in Addrs PROVE AddressOK(a)'
    <3>1. failures'[a] = NoFailures /\ guesses'[a] = NoFailures
      BY <1>4 DEF HubDies
    <3>2. Cardinality(Past(a)') = 0
      BY <2>3, FS_EmptySet
    <3>3. 0 <= MaxAuthAttempts + Conns - 1
      BY <1>a
    <3> QED BY <1>a, <3>1, <3>2, <3>3, NoFailuresList DEF AddressOK, Conns
  <2> QED BY <2>2, <2>4 DEF AuthInv
<1>5. CASE AuthTick
  <2>1. /\ failures' = [a \in Addrs |-> Aged(failures[a])]
        /\ lockouts' = [a \in Addrs |-> Older(lockouts[a])]
        /\ guesses' = [a \in Addrs |-> Recent(Aged(guesses[a]))]
        /\ attempt' = attempt
    BY <1>5 DEF AuthTick
  <2>2. \A n \in 0..LockoutTicks : Older(n) \in 0..LockoutTicks
    BY <1>a DEF Older
  <2>3. AuthTypeOK'
    BY <1>0, <2>1, <2>2, AgedFacts, RecentFacts DEF AuthTypeOK
  <2>4. ASSUME NEW a \in Addrs PROVE AddressOK(a)'
    <3> DEFINE g == guesses[a]  h == Recent(Aged(guesses[a]))
    <3>1. g \in Lists /\ failures[a] \in Lists /\ g = Recent(failures[a]) /\ Size(g) \in Nat
      BY <1>0 DEF AddressOK
    <3>2. /\ Aged(g) \in Lists /\ Size(Aged(g)) = Size(g) /\ DOMAIN Aged(g) = DOMAIN g
          /\ \A n \in DOMAIN g : Aged(g)[n] = Older(g[n])
      BY <3>1, AgedFacts
    <3>3. /\ Size(h) \in Nat /\ Size(h) <= Size(g) /\ DOMAIN h \subseteq DOMAIN g
          /\ \A n \in DOMAIN h : h[n] = Older(g[n])
      BY <3>2, RecentFacts
    <3>4. h = Recent(Aged(failures[a]))
      BY <3>1, RecentAged
    <3>5. ASSUME Size(h) >= MaxAuthAttempts, NEW n \in DOMAIN h
          PROVE  Older(lockouts[a]) <= h[n]
      <4>1. Size(g) >= MaxAuthAttempts /\ n \in DOMAIN g
        BY <1>a, <3>1, <3>3, <3>5
      <4>2. lockouts[a] <= g[n]
        BY <1>0, <4>1 DEF AddressOK
      <4>3. g[n] \in 0..LockoutTicks /\ lockouts[a] \in 0..LockoutTicks
        BY <1>0, <3>1, <4>1, ListFacts
      <4>4. Older(lockouts[a]) <= Older(g[n])
        BY <1>a, <4>2, <4>3 DEF Older
      <4> QED BY <3>3, <3>5, <4>4
    <3>6. Past(a)' = Past(a) /\ Cardinality(Past(a)) \in Nat
      BY <2>1, PastFacts DEF Past
    <3>7. /\ failures'[a] = Aged(failures[a]) /\ guesses'[a] = h
          /\ lockouts'[a] = Older(lockouts[a])
      BY <2>1
    <3>8. Size(g) + Cardinality(Past(a)) <= MaxAuthAttempts + Conns - 1
      BY <1>0 DEF AddressOK
    <3> HIDE DEF g, h
    <3>9. Size(h) + Cardinality(Past(a)) <= MaxAuthAttempts + Conns - 1
      BY <1>a, <3>1, <3>3, <3>6, <3>8
    <3> QED BY <3>4, <3>5, <3>6, <3>7, <3>9 DEF AddressOK, Conns
  <2> QED BY <2>3, <2>4 DEF AuthInv
<1>6. CASE UNCHANGED <<attempt, failures, lockouts, guesses>>
  <2>1. \A a \in Addrs : Past(a)' = Past(a)
    BY <1>6 DEF Past
  <2> QED BY <1>6, <2>1 DEF AuthInv, AuthTypeOK, AddressOK, Conns
<1> QED BY <1>1, <1>2, <1>3, <1>4, <1>5, <1>6
        DEF AuthNext, authVars, LoadHostKey, GenerateHostKey, WriteHostKey

\* However the connections of an address overlap and however lockouts run out, no
\* more than max_auth_attempts wrong keys of it are checked in a lockout period,
\* plus one for each other connection that was past the check already.
THEOREM GuessingBounded == AuthSpec => []GuessesBounded
<1>1. AuthInit => AuthInv
  <2> SUFFICES ASSUME AuthInit PROVE AuthInv OBVIOUS
  <2>1. NoAttempt \in AttemptRec /\ NoAttempt.pc = "idle"
    BY DEF NoAttempt, AttemptRec
  <2>2. AuthTypeOK
    BY <2>1, NoFailuresList, HubAuthAssumption DEF AuthInit, AuthTypeOK
  <2>3. \A a \in Addrs : Past(a) = {}
    BY <2>1 DEF AuthInit, Past
  <2>4. ASSUME NEW a \in Addrs PROVE AddressOK(a)
    <3>1. failures[a] = NoFailures /\ guesses[a] = NoFailures
      BY DEF AuthInit
    <3> QED BY <2>3, <3>1, NoFailuresList, FS_EmptySet, PastFacts, HubAuthAssumption DEF AddressOK
  <2> QED BY <2>2, <2>4 DEF AuthInv
<1>2. AuthInv /\ [AuthNext]_authVars => AuthInv'
  BY AuthStep
<1>3. AuthInv => GuessesBounded
  <2> SUFFICES ASSUME AuthInv, NEW a \in Addrs
               PROVE  Cardinality(DOMAIN guesses[a]) <= MaxAuthAttempts + Cardinality(AuthConns) - 1
    BY DEF GuessesBounded
  <2>1. guesses[a] \in Lists /\ Size(guesses[a]) \in Nat
    BY RecentFacts DEF AuthInv, AuthTypeOK
  <2> QED BY <2>1, PastFacts, HubAuthAssumption DEF AuthInv, AddressOK, Size, Conns
<1> QED BY <1>1, <1>2, <1>3, PTL DEF AuthSpec
=============================================================================
