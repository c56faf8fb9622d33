---------------------------- MODULE Idempotency ----------------------------
(***************************************************************************)
(* The IdempotencyService of internal/modules/idempotency: a record per    *)
(* key, in Redis, with a map in the memory of each process to fall back    *)
(* on.  A client composes its steps from the operators below; each is one  *)
(* Redis command or one critical section of the memory map.                *)
(*                                                                         *)
(* A record also says which attempt wrote it (by), which the code does not *)
(* store: it is what lifetimes are compared by.  Payloads and error texts  *)
(* are left out.                                                           *)
(***************************************************************************)
EXTENDS Integers, FiniteSets

CONSTANTS Keys,      \* (operation, key) pairs, the output of buildKey
          Procs,     \* processes: memStore is per process
          Attempts,  \* the calls of Begin that clients make
          None       \* no record

VARIABLES redis,     \* the records in Redis
          mem        \* memStore of each process

Status == {"pending", "success", "failed"}
IdempotencyRecord == [status: Status, by: Attempts]
Record(s, a) == [status |-> s, by |-> a]

IdemTypeOK ==
    /\ redis \in [Keys -> IdempotencyRecord \cup {None}]
    /\ mem \in [Procs -> [Keys -> IdempotencyRecord \cup {None}]]

IdemInit ==
    /\ redis = [k \in Keys |-> None]
    /\ mem = [p \in Procs |-> [k \in Keys |-> None]]

\* Mutant: SET instead of SETNX.
ClaimRedisBySet(k, a) ==
    /\ redis' = [redis EXCEPT ![k] = Record("pending", a)]
    /\ UNCHANGED mem

\* SETNX of a pending record on a key that GET found absent.
ClaimRedis(k, a) ==
    /\ redis[k] = None
    /\ redis' = [redis EXCEPT ![k] = Record("pending", a)]
    /\ UNCHANGED mem

\* beginMemory on a key its map does not hold.
ClaimMemory(p, k, a) ==
    /\ mem[p][k] = None
    /\ mem' = [mem EXCEPT ![p][k] = Record("pending", a)]
    /\ UNCHANGED redis

\* Complete and Fail: an unconditional SET, whoever holds the claim.
SetRedis(k, s, a) ==
    /\ redis' = [redis EXCEPT ![k] = Record(s, a)]
    /\ UNCHANGED mem

\* Complete and Fail when the SET returns an error: a Redis failure, or a
\* context that is cancelled by then.
SetMemory(p, k, s, a) ==
    /\ mem' = [mem EXCEPT ![p][k] = Record(s, a)]
    /\ UNCHANGED redis

\* Redis drops a record at the end of its TTL.
ExpireRedis(k) ==
    /\ redis[k] # None
    /\ redis' = [redis EXCEPT ![k] = None]
    /\ UNCHANGED mem

\* The memory map drops a record that is past expiresAt.
ExpireMemory(p, k) ==
    /\ mem[p][k] # None
    /\ mem' = [mem EXCEPT ![p][k] = None]
    /\ UNCHANGED redis

\* The process is gone, and its map with it.
ForgetMemory(p) ==
    /\ mem' = [mem EXCEPT ![p] = [k \in Keys |-> None]]
    /\ UNCHANGED redis

\* No record of attempt a is left anywhere: its TTL is over.
Expired(a) ==
    /\ \A k \in Keys : redis[k] # None => redis[k].by # a
    /\ \A p \in Procs, k \in Keys : mem[p][k] # None => mem[p][k].by # a
=============================================================================
