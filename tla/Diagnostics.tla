----------------------------- MODULE Diagnostics -----------------------------
(***************************************************************************)
(* if_failed_throw (utility.cpp), through which every driver call goes:    *)
(* when a call has failed, the driver's diagnostic records are read one by *)
(* one until it says SQL_NO_DATA, and are thrown as one message; unless    *)
(* the handle was invalid, which has no records.                           *)
(*                                                                         *)
(* A record may be read, or its first SQLGetDiagRec may fail, or only the  *)
(* second one, which asks for the text: a text of 32767 characters needs a *)
(* buffer whose size does not fit an SQLSMALLINT.                          *)
(***************************************************************************)
EXTENDS Integers, Sequences

CONSTANTS
    RecMax,        \* greatest SQLSMALLINT
    RecordLists    \* the lists of records a driver may have for a failed call

RecordKind == {"text", "unreadable", "too_long"}

ASSUME DiagnosticsAssumption ==
    /\ RecMax \in Nat \ {0}
    /\ RecordLists \subseteq Seq(RecordKind)
    /\ \A records \in RecordLists : Len(records) < RecMax

VARIABLES
    reporting,     \* a call has failed and its records are being read
    rec,           \* number of the record to be read next
    records,       \* the driver's records for the failed call
    message        \* what has been collected: [rec, text: was it read]

diagnostics == <<reporting, rec, records, message>>

Entry == [rec : Int, text : BOOLEAN]

DiagnosticsTypeOK ==
    /\ reporting \in BOOLEAN
    /\ rec \in 1 .. RecMax
    /\ records \in RecordLists \cup {<<>>}
    /\ message \in Seq(Entry)

DiagnosticsInit ==
    /\ reporting = FALSE
    /\ rec = 1
    /\ records = <<>>
    /\ message = <<>>

(* Slip: records are counted from 0.                                       *)
CallFailsFromZero ==
    /\ ~reporting
    /\ reporting' = TRUE
    /\ rec' = 0
    /\ records' \in RecordLists
    /\ message' = <<>>

(* A driver call gets a handle that is none: SQL_INVALID_HANDLE, which is  *)
(* thrown at once.                                                         *)
CallInvalid == ~reporting /\ UNCHANGED diagnostics

(* A driver call fails in any other way.                                   *)
CallFails ==
    /\ ~reporting
    /\ reporting' = TRUE
    /\ rec' = 1
    /\ records' \in RecordLists
    /\ message' = <<>>

(* SQLGetDiagRec: numbers below 1 are an error, those behind the last      *)
(* record are SQL_NO_DATA.                                                 *)
Answer ==
    IF rec < 1 THEN "unreadable" ELSE IF rec > Len(records) THEN "no_data" ELSE records[rec]

(* Slip: the loop goes on without counting when a record cannot be read.   *)
CollectStuck ==
    /\ reporting
    /\ Answer # "no_data"
    /\ message' = IF Answer = "unreadable" THEN message
                  ELSE Append(message, [rec |-> rec, text |-> Answer = "text"])
    /\ rec' = IF Answer = "unreadable" THEN rec ELSE rec + 1
    /\ UNCHANGED <<reporting, records>>

(* One round of the loop; ++rec wraps around.                              *)
Collect ==
    /\ reporting
    /\ Answer # "no_data"
    /\ message' = Append(message, [rec |-> rec, text |-> Answer = "text"])
    /\ rec' = IF rec = RecMax THEN -RecMax - 1 ELSE rec + 1
    /\ UNCHANGED <<reporting, records>>

(* The exception.                                                          *)
Throw ==
    /\ reporting
    /\ Answer = "no_data"
    /\ reporting' = FALSE
    /\ rec' = 1
    /\ records' = <<>>
    /\ message' = <<>>

(* The exception for a failed call on a valid handle tells of every record *)
(* the driver had, once and in order, whether its text could be read or    *)
(* not.                                                                    *)
EveryRecordTold ==
    [][Throw => message = [i \in 1 .. Len(records) |->
                              [rec |-> i, text |-> records[i] = "text"]]]_diagnostics
=============================================================================
