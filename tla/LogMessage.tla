----------------------------- MODULE LogMessage -----------------------------
(***************************************************************************)
(* A log event on its way through the platform: LogMessage and LogDocument *)
(* of internal/models/log.go, ParseLogMessage of internal/kafka, the daily *)
(* index of internal/elastic/client.go.                                    *)
(*                                                                         *)
(* Values are taken by class.  A timestamp that is blank or not RFC3339 is *)
(* 0, the others are ordered naturals, DayLen of them to a day.  Two       *)
(* levels stand for the five that are valid.  A text "wide" has at most    *)
(* 1000 characters and more than 1000 bytes, "long" more than 1000 of      *)
(* both.  A service "huge" exceeds what a keyword of the index may hold.   *)
(* A trace id of 0 is an empty one.  The tenant is the same for all.       *)
(***************************************************************************)
EXTENDS Integers

CONSTANTS
  Text,    \* the texts a field may hold, or the classes of them
  Stamp,   \* timestamps, which the clock passes through
  DayLen   \* timestamps in a day

ASSUME TextAssumption ==
  {"", "INFO", "ERROR", "MIXED", "api", "text", "10.0.0.1"} \subseteq Text
ASSUME StampAssumption == Stamp \subseteq Nat \ {0} /\ DayLen \in Nat \ {0}

ValidLevel == {"INFO", "ERROR"}

(* strings.ToUpper(strings.TrimSpace(s)) *)
ToUpper(s) ==
  CASE s = "mixed" -> "MIXED" [] s = "info" -> "INFO" [] s = "error" -> "ERROR"
    [] OTHER -> s

(* strings.TrimSpace(s) == "" *)
Blank(s) == s \in {"", " "}

(* ParseLogMessage rejects a message without one of the required fields.   *)
(* A timestamp that is not RFC3339 does not get past validateLogPayload.   *)
ParseLogMessage(m) ==
  m.timestamp # 0 /\ m.level # "" /\ m.service # "" /\ m.message # ""

(* IndexNameForTime(ParsedTime()) *)
IndexNameForTime(t) == t \div DayLen

(* The fields DeterministicID hashes: not the address, not the offset.     *)
(* Their join by a bar and its hash are taken to be injective.             *)
DeterministicID(d) == <<d.service, d.level, d.timestamp, d.trace, d.message>>

(* The strict mapping of the template takes the document. *)
Mappable(d) == d.service # "huge"
=============================================================================
