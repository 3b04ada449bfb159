------------------------------ MODULE CacheLog ------------------------------
(***************************************************************************)
(* The session cache file of the hook (cache.go): an append-only log of    *)
(* entries, one line per recorded verdict, scanned from the start by every *)
(* hook process.  Only what the verdicts depend on is kept of an entry:    *)
(* the token estimate is dropped, a content hash is the content itself (no *)
(* collisions) and a time is a number of seconds.                          *)
(***************************************************************************)
EXTENDS Integers, Sequences

CONSTANTS Key,       \* cache keys: a path, or a path with a line range
          Content,   \* the contents a file may have
          NoHash,    \* the empty hash: the file could not be opened
          NoEntry    \* the zero entry of a failed lookup

(***************************************************************************)
(* A tombstone written by clear-file has the mtime "cleared" and Ts 0.     *)
(***************************************************************************)
Cleared == -1

Mtime == Nat \cup {Cleared}
Hash  == Content \cup {NoHash}

Entry == [key : Key, mtime : Mtime, ts : Nat, hash : Hash,
          lastAttempt : Nat, attempts : Nat]

ASSUME NoEntryAssumption == NoEntry \notin Entry
ASSUME NoHashAssumption  == NoHash \notin Content

Tombstone(k) == [key |-> k, mtime |-> Cleared, ts |-> 0, hash |-> NoHash,
                 lastAttempt |-> 0, attempts |-> 0]

-----------------------------------------------------------------------------
(* Faulty variant: the path of the entry is not compared.                  *)
UsableAnyKey(e, k) == e.ts > 0

(***************************************************************************)
(* readLastCacheEntry: the last entry of the key in file order among those *)
(* with a positive timestamp (and an mtime, which every entry has).        *)
(* Entries that do not pass the filter are skipped, not remembered.        *)
(***************************************************************************)
Usable(e, k) == e.key = k /\ e.ts > 0

UsableAt(log, k) == {i \in DOMAIN log : Usable(log[i], k)}

LastIndex(log, k) ==
  CHOOSE i \in UsableAt(log, k) : \A j \in UsableAt(log, k) : j <= i

LastEntry(log, k) ==
  IF UsableAt(log, k) = {} THEN NoEntry ELSE log[LastIndex(log, k)]

(***************************************************************************)
(* readLastCacheEntries: the keys of the log, tombstones included.         *)
(***************************************************************************)
KeysOf(log) == {log[i].key : i \in DOMAIN log}

(***************************************************************************)
(* The start of the session, as computeAdaptiveTTL estimates it: the       *)
(* smallest positive timestamp of the whole log, at most now.              *)
(***************************************************************************)
Timestamps(log, now) ==
  {now} \cup {log[i].ts : i \in {j \in DOMAIN log : log[j].ts > 0}}

Earliest(log, now) ==
  CHOOSE t \in Timestamps(log, now) : \A u \in Timestamps(log, now) : t <= u
=============================================================================
