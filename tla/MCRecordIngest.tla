--------------------------- MODULE MCRecordIngest ---------------------------
(***************************************************************************)
(* A small instance of RecordIngest for TLC: a batch of every kind of      *)
(* record, the same device in a request of its own, a recording, and a     *)
(* request for an app that does not exist.                                 *)
(***************************************************************************)
EXTENDS RecordIngest

Items == 1 .. 8
Payloads == {"batch", "device", "raw", "nobody", "broken"}

Types == <<"INFO", "ERROR", "TRACK", "CUSTOM_ID", "CUSTOM_ID", "INFO", "TRACK", "INFO">>
Uuids == [i \in Items |-> IF i = 8 THEN 2 ELSE 1]
Sessions == [i \in Items |-> IF i \in {3, 6, 8} THEN 0 ELSE 1]

Contents ==
  [p \in Payloads |->
     CASE p = "batch"   -> [form |-> "v2", items |-> <<1, 2, 3, 4, 5, 8>>]
       [] p = "device"  -> [form |-> "v1", items |-> <<6>>]
       [] p = "raw"     -> [form |-> "raw", items |-> <<7>>]
       [] p = "nobody"  -> [form |-> "v1", items |-> <<6>>]
       [] p = "broken"  -> [form |-> "invalid", items |-> <<>>]]
=============================================================================
