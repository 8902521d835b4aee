------------------------------ MODULE KeyHash ------------------------------
(***************************************************************************)
(* get_key_hash and get_bucket of base_ht.hpp: eight steps that mix the    *)
(* bits of a key, each on an unsigned integer of w bits, and the reduction *)
(* to the number of a bucket, which insert, lookup and remove of all three *)
(* tables use as an index into an array of n_buckets.                      *)
(***************************************************************************)
EXTENDS Naturals, Bitwise

CONSTANTS
    w,         \* 64 in the code
    Shifts,    \* <<32, 22, 13, 8, 3, 15, 27, 31>> in the code; each is less than w
    n_buckets  \* from 1 to 2^w - 1

VARIABLES
    key,     \* the argument, overwritten by every step
    step     \* the next step: 1 to 8 mix, 9 is get_bucket, at 10 key is the bucket

hashVars == <<key, step>>

Integer == 0 .. 2 ^ w - 1

ShiftLeft(k, s) == (k * 2 ^ s) % 2 ^ w
ShiftRight(k, s) == k \div 2 ^ s
Complement(k) == 2 ^ w - 1 - k

KeyHashInit == key \in Integer /\ step = 1

(* key = k, as step number s does. *)
Becomes(s, k) == step = s /\ key' = k % 2 ^ w /\ step' = step + 1

(* key += ~(key << Shifts[s]) *)
AddComplement(s) == Becomes(s, key + Complement(ShiftLeft(key, Shifts[s])))

(* key += (key << Shifts[s]) *)
AddShifted(s) == Becomes(s, key + ShiftLeft(key, Shifts[s]))

(* key ^= (key >> Shifts[s]) *)
XorShifted(s) == Becomes(s, key ^^ ShiftRight(key, Shifts[s]))

(* get_bucket: only a hash larger than n_buckets is reduced. *)
get_bucket ==
    /\ step = 9
    /\ key' = IF key > n_buckets THEN key % n_buckets ELSE key
    /\ step' = 10

KeyHashNext ==
    \/ \E s \in {1, 3, 7} : AddComplement(s)
    \/ AddShifted(5)
    \/ \E s \in {2, 4, 6, 8} : XorShifted(s)
    \/ get_bucket

KeyHashSpec == KeyHashInit /\ [][KeyHashNext]_hashVars

-----------------------------------------------------------------------------
(* Properties.                                                             *)

(* The bucket of a key is one of the table's: HASH_BUCKETS and n_buckets   *)
(* are the "number of buckets for each hash table" (README.md:21), and the *)
(* arrays are allocated with as many (vlht.hpp:34, base_ht.hpp:30-35).      *)
BucketExists == step = 10 => key < n_buckets
=============================================================================
