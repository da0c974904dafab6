---------------------------- MODULE DnssecSigner ----------------------------
(***************************************************************************)
(* DNSSEC key management and signing (crates/dnsd/src/sign.rs): the key    *)
(* lists of DnssecKeyManager, their rotation, the signature cache, the     *)
(* RRSIG records of ProductionDnssecSigner and their validation.           *)
(*                                                                         *)
(* Rotations and signatures run on any thread; each takes the locks of the *)
(* key lists and of the cache one after the other, so their steps          *)
(* interleave.  A key is [id, left, active] where left is the time to its  *)
(* expiry, negative after it.  A signature is the id of the key it was     *)
(* made with and, as history, that key's time to expiry.                   *)
(***************************************************************************)
EXTENDS Integers, Sequences, FiniteSets

CONSTANTS
    Algs,         \* the algorithms
    DefaultAlg,   \* DnssecConfig::default_algorithm
    HmacAlg,      \* the algorithm of the key from FDNS_HMAC_KEY
    Rotators,     \* threads that call check_and_rotate_keys, force_key_rotation
    Interval,     \* DnssecConfig::rotation_interval
    Grace,        \* DnssecConfig::grace_period
    SigTtl,       \* DnssecConfig::signature_cache_ttl
    KeyIds,       \* identities of keys, reused once nothing names them (a bound)
    MaxKeys,      \* keys of one algorithm (a bound: max_keys is never read)
    MaxHold       \* ticks one rotation or the making of one signature may take (a bound)

ASSUME SignerAssumption ==
    /\ {DefaultAlg, HmacAlg} \subseteq Algs
    /\ {Interval, Grace, SigTtl, MaxKeys, MaxHold} \subseteq Nat \ {0}
    /\ KeyIds \subseteq Nat

VARIABLES
    keys,      \* keys[a]: the key list of algorithm a
    rotAge,    \* ticks since last_rotation
    rot,       \* rot[r]: pc, algorithms to do and ticks taken of rotator r
    sigCache,  \* sigCache[a]: cached signature of the rrset and its age
    rrsig,     \* the record being built or validated: pc, alg, sig, key tag, ticks taken
    missed     \* algorithms the last finished rotation generated no key for

signVars == <<keys, rotAge, rot, sigCache, rrsig, missed>>

NoKey == -1
\* A signature is cached for SigTtl, and made up to MaxHold before that.  A life
\* below -Stale, or a key past its grace period, makes no further difference.
Stale == SigTtl + MaxHold
NoSig == [key |-> NoKey, life |-> -Stale]
IdleRot == [pc |-> "idle", todo |-> {}, took |-> 0, failed |-> {}]
NoRrsig == [pc |-> "idle", alg |-> DefaultAlg, sig |-> NoSig, tag |-> NoKey, status |-> "none",
            took |-> 0]

UsedIds == UNION {{keys[a][i].id : i \in DOMAIN keys[a]} : a \in Algs}
              \cup {sigCache[a].sig.key : a \in Algs} \cup {rrsig.sig.key, rrsig.tag}
Fresh == KeyIds \ UsedIds
NewKey(id) == [id |-> id, left |-> Interval, active |-> TRUE]

\* The default algorithm gets a key, HMAC one from FDNS_HMAC_KEY if it is set.
SignInit ==
    /\ \E id1, id2 \in KeyIds :
         /\ id1 < id2 /\ \A id \in KeyIds : id >= id1 /\ (id # id1 => id >= id2)
         /\ \/ keys = [a \in Algs |-> IF a = DefaultAlg THEN <<NewKey(id1)>> ELSE <<>>]
            \/ keys = [a \in Algs |-> (IF a = DefaultAlg THEN <<NewKey(id1)>> ELSE <<>>)
                                   \o (IF a = HmacAlg THEN <<NewKey(id2)>> ELSE <<>>)]
    /\ rotAge = Interval + 1
    /\ rot = [r \in Rotators |-> IdleRot]
    /\ sigCache = [a \in Algs |-> [sig |-> NoSig, age |-> SigTtl]]
    /\ rrsig = NoRrsig
    /\ missed = Algs

-----------------------------------------------------------------------------
(* Keys *)

Usable(k) == k.active /\ k.left > 0

\* get_active_key: the first usable key of the list, or an error.
GetActiveKey(a) ==
    LET usable == {i \in DOMAIN keys[a] : Usable(keys[a][i])}
    IN IF usable = {} THEN [id |-> NoKey, left |-> -Stale]
       ELSE keys[a][CHOOSE i \in usable : \A j \in usable : i <= j]

\* generate_key appends to the list.
PushFront(ks, k) == <<k>> \o ks
PushKey(ks, k) == Append(ks, k)

\* generate_key of one algorithm; the random generator may fail, which
\* rotate_keys logs and passes over.
GenerateKey(r, a) ==
    /\ rot[r].pc = "generate"
    /\ a \in rot[r].todo
    /\ \/ /\ Fresh # {}
          /\ keys' = [keys EXCEPT ![a] = PushKey(@, NewKey(CHOOSE i \in Fresh : \A j \in Fresh : i <= j))]
          /\ rot' = [rot EXCEPT ![r].todo = @ \ {a}]
       \/ /\ rot' = [rot EXCEPT ![r].todo = @ \ {a}, ![r].failed = @ \cup {a}]
          /\ UNCHANGED keys
    /\ UNCHANGED <<rotAge, sigCache, rrsig, missed>>

NeedsRotation == rotAge > Interval

\* force_key_rotation asks nothing.
Forced == TRUE

\* check_and_rotate_keys, or force_key_rotation.
StartRotation(r) ==
    /\ rot[r].pc = "idle"
    /\ NeedsRotation \/ Forced
    /\ \A a \in Algs : Len(keys[a]) + Cardinality({q \in Rotators : rot[q].pc # "idle"}) < MaxKeys
    /\ rot' = [rot EXCEPT ![r] = [IdleRot EXCEPT !.pc = "generate", !.todo = Algs]]
    /\ UNCHANGED <<keys, rotAge, sigCache, rrsig, missed>>

\* Vec::retain: the elements at the positions kept, in their order.  The j-th of
\* them is at the position that has j of the positions kept up to it.
Rank(kept, i) == Cardinality({k \in kept : k <= i})
Retained(s, kept) == [j \in 1..Cardinality(kept) |-> s[CHOOSE i \in kept : Rank(kept, i) = j]]

\* deactivate_old_keys: keys past their expiry are deactivated, keys past the
\* grace period removed.
DeactivateFresh(ks) == [i \in DOMAIN ks |-> [ks[i] EXCEPT !.active = FALSE]]
Deactivated(ks) ==
    LET marked == [i \in DOMAIN ks |->
                     IF ks[i].left < 0 THEN [ks[i] EXCEPT !.active = FALSE] ELSE ks[i]]
    IN Retained(marked, {i \in DOMAIN ks : ks[i].left + Grace > 0})

DeactivateOldKeys(r) ==
    /\ rot[r].pc = "generate" /\ rot[r].todo = {}
    /\ keys' = [a \in Algs |-> Deactivated(keys[a])]
    /\ rot' = [rot EXCEPT ![r].pc = "mark"]
    /\ UNCHANGED <<rotAge, sigCache, rrsig, missed>>

MarkRotation(r) ==
    /\ rot[r].pc = "mark"
    /\ rotAge' = 0
    /\ missed' = rot[r].failed
    /\ rot' = [rot EXCEPT ![r] = IdleRot]
    /\ UNCHANGED <<keys, sigCache, rrsig>>

-----------------------------------------------------------------------------
(* Signing and validation *)

\* get_cached_signature
CachedForever(a) == sigCache[a].sig # NoSig
Cached(a) == sigCache[a].sig # NoSig /\ sigCache[a].age < SigTtl

\* sign takes three locks one after the other: the cached signature,
LookUp(a) ==
    /\ rrsig.pc = "idle"
    /\ rrsig' = [NoRrsig EXCEPT !.pc = IF Cached(a) THEN "signed" ELSE "make", !.alg = a,
                               !.sig = IF Cached(a) THEN sigCache[a].sig ELSE NoSig]
    /\ UNCHANGED <<keys, rotAge, rot, sigCache, missed>>

\* or one of the active key, if there is one,
MakeSignature ==
    /\ rrsig.pc = "make"
    /\ LET k == GetActiveKey(rrsig.alg) IN
       rrsig' = IF k.id = NoKey THEN NoRrsig
                ELSE [rrsig EXCEPT !.pc = "made", !.sig = [key |-> k.id, life |-> k.left]]
    /\ UNCHANGED <<keys, rotAge, rot, sigCache, missed>>

\* which is then cached; the caching drops every entry that has aged out.
CacheSignature ==
    /\ rrsig.pc = "made"
    /\ rrsig' = [rrsig EXCEPT !.pc = "signed", !.took = 0]
    /\ sigCache' = [b \in Algs |-> IF b = rrsig.alg THEN [sig |-> rrsig.sig, age |-> 0]
                                   ELSE IF Cached(b) THEN sigCache[b]
                                   ELSE [sig |-> NoSig, age |-> SigTtl]]
    /\ UNCHANGED <<keys, rotAge, rot, missed>>

\* rrsig_record_with_algorithm asks for the active key once more, for its tag;
\* without one the record fails.
TakeTag ==
    /\ rrsig.pc = "signed"
    /\ LET k == GetActiveKey(rrsig.alg) IN
       rrsig' = IF k.id = NoKey THEN NoRrsig
                ELSE [rrsig EXCEPT !.pc = "tagged", !.tag = k.id]
    /\ UNCHANGED <<keys, rotAge, rot, sigCache, missed>>

\* validate_rrsig signs anew with the active key and compares.
ValidateRrsig(s, a) ==
    LET k == GetActiveKey(a)
    IN IF k.id = NoKey THEN "error" ELSE IF k.id = s.key THEN "valid" ELSE "invalid"

\* The overall status of a message from the outcomes of its signatures.
MessageStatus(outcomes) ==
    CASE "error" \in outcomes   -> "Error"
      [] "invalid" \in outcomes -> "Invalid"
      [] "valid" \in outcomes   -> "Valid"
      [] OTHER                  -> "Unsigned"

\* validate_dns_message of a message with the record and perhaps other
\* signatures: one of an unsupported algorithm, or over records the message
\* does not hold, is passed over.
ValidateMessage ==
    /\ rrsig.pc = "tagged"
    /\ \E others \in SUBSET {"unsupported", "uncovered"} :
         rrsig' = [rrsig EXCEPT !.pc = "validated",
                     !.status = MessageStatus({ValidateRrsig(rrsig.sig, rrsig.alg)} \cup others)]
    /\ UNCHANGED <<keys, rotAge, rot, sigCache, missed>>

DropRrsig ==
    /\ rrsig.pc \in {"tagged", "validated"}
    /\ rrsig' = NoRrsig
    /\ UNCHANGED <<keys, rotAge, rot, sigCache, missed>>

-----------------------------------------------------------------------------
Aged(s) == IF s.life > -Stale THEN [s EXCEPT !.life = @ - 1] ELSE s
AgedKey(k) == IF k.left > -Grace THEN [k EXCEPT !.left = @ - 1] ELSE k

SignTick ==
    /\ \A r \in Rotators : rot[r].pc # "idle" => rot[r].took < MaxHold
    /\ rrsig.pc = "made" => rrsig.took < MaxHold
    /\ keys' = [a \in Algs |-> [i \in DOMAIN keys[a] |-> AgedKey(keys[a][i])]]
    /\ rotAge' = IF rotAge > Interval THEN rotAge ELSE rotAge + 1
    /\ rot' = [r \in Rotators |-> IF rot[r].pc = "idle" THEN rot[r]
                                  ELSE [rot[r] EXCEPT !.took = @ + 1]]
    /\ sigCache' = [a \in Algs |-> [sig |-> Aged(sigCache[a].sig),
                                    age |-> IF sigCache[a].age < SigTtl
                                            THEN sigCache[a].age + 1 ELSE SigTtl]]
    /\ rrsig' = [rrsig EXCEPT !.sig = Aged(@), !.took = IF rrsig.pc = "made" THEN @ + 1 ELSE @]
    /\ UNCHANGED missed

SignNext ==
    \/ \E r \in Rotators :
          \/ StartRotation(r) \/ DeactivateOldKeys(r) \/ MarkRotation(r)
          \/ \E a \in Algs : GenerateKey(r, a)
    \/ \E a \in Algs : LookUp(a)
    \/ MakeSignature \/ CacheSignature \/ TakeTag \/ ValidateMessage \/ DropRrsig
    \/ SignTick

SignSpec == SignInit /\ [][SignNext]_signVars

-----------------------------------------------------------------------------
(* Properties *)

SignTypeOK ==
    /\ \A a \in Algs : \A i \in DOMAIN keys[a] :
          keys[a][i].id \in KeyIds /\ keys[a][i].left \in -Grace..Interval
    /\ rotAge \in 0..Interval + 1
    /\ \A r \in Rotators : rot[r].pc \in {"idle", "generate", "mark"}
    /\ rrsig.pc \in {"idle", "make", "made", "signed", "tagged", "validated"}

\* An RRSIG names the key its signature was made with, and validates, as long
\* as that key has not expired: rotation appends new keys behind the one in use,
\* so sign, the key tag of rrsig_record_with_algorithm and validate_rrsig agree
\* on the first usable key however rotations fall between them.
TagNamesSigner ==
    /\ rrsig.pc \in {"tagged", "validated"} /\ rrsig.tag # rrsig.sig.key => rrsig.sig.life <= 0
    /\ rrsig.status \in {"Invalid", "Error", "Unsigned"} => rrsig.sig.life <= 0

\* A signature handed out was made with a key that was usable less than
\* signature_cache_ttl ago, and the time the call that made it took between
\* making and caching it: sign serves cached signatures without looking at the
\* key they came from.
SignatureRecent ==
    [][rrsig.pc # "signed" /\ rrsig'.pc = "signed" => rrsig'.sig.life > -Stale]_signVars

\* An algorithm is without a usable key only at the end of a rotation interval
\* (needs_rotation turns true after the keys of the last rotation have expired,
\* not before) or when the last rotation failed to generate one.
KeyUntilDue ==
    \A a \in Algs : GetActiveKey(a).id = NoKey =>
                       a \in missed \/ rotAge >= Interval - MaxHold
=============================================================================
