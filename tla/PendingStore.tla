---------------------------- MODULE PendingStore ----------------------------
(***************************************************************************)
(* The part of the RocksDB store that makes a crawl resumable              *)
(* (storage/rocksdb_store.cpp): one key "pending_url:<sha256>" per pending *)
(* URL, and the single JSON list of an older version of the program.  All  *)
(* four methods run under the store's mutex, and a Put or Delete that      *)
(* returned survives the death of the process.                             *)
(***************************************************************************)

VARIABLES
    pending,   \* the URLs that have a key of their own
    legacy     \* the URLs of the old __pending_urls__ list, {} when absent

storeVars == <<pending, legacy>>

MarkPendingURL(u) ==
    /\ pending' = pending \cup {u}
    /\ UNCHANGED legacy

ClearPendingURL(u) ==
    /\ pending' = pending \ {u}
    /\ UNCHANGED legacy

\* savePendingURLs drops the old list and adds keys; it removes none.
SavePendingURLs(urls) ==
    /\ pending' = pending \cup urls
    /\ legacy' = {}

\* loadPendingURLs reads the old list only when there is no key at all.
LoadPendingURLs == IF pending # {} THEN pending ELSE legacy
=============================================================================
