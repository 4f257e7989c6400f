----------------------------- MODULE UniString ------------------------------
(***************************************************************************)
(* sys::uni_string (sysstring.h): a string that is held as UTF-8, as       *)
(* UTF-16, or as both; the form that is missing is converted from the      *)
(* other when it is asked for.  With it the conversions of strings, which  *)
(* repeat those of Utf from the first character to the last.               *)
(***************************************************************************)
EXTENDS Utf, SequencesExt, FiniteSets

CONSTANTS
    ByteTexts,  \* the strings that are assigned as UTF-8, well-formed or not
    UnitTexts,  \* as UTF-16
    CodeTexts   \* as UTF-32

ASSUME TextAssumption ==
    /\ ByteTexts \subseteq Seq(Byte) /\ UnitTexts \subseteq Seq(Unit)
    /\ CodeTexts \subseteq Seq(Nat)

VARIABLES
    m_cstr, \* the string in UTF-8
    m_wstr, \* the string in UTF-16
    origin  \* what was assigned last: the form it was in and the text

univars == <<m_cstr, m_wstr, origin>>

-----------------------------------------------------------------------------
(* The codes of the characters of s, by next(s, i) for the one at s[i].    *)
Codes(s, next(_, _)) ==
    LET from[i \in 1 .. Len(s) + 1] ==
            IF i > Len(s) THEN <<>>
            ELSE LET d == next(s, i) IN <<d.code>> \o from[i + d.used]
    IN  from[1]

Encoded(codes, put(_)) == FlattenSeq([k \in DOMAIN codes |-> put(codes[k])])

(* u8tou16 (src, dst) and u16tou8 (src, dst), which return the number of   *)
(* characters, valid or not; u32tou8 (src, dst).                           *)
u8tou16(s) == Encoded(Codes(s, u8tou32), u32tou16)
u16tou8(s) == Encoded(Codes(s, u16tou32), u32tou8)
u32stou8(codes) == Encoded(codes, u32tou8)
Count8(s) == Len(Codes(s, u8tou32))
Count16(s) == Len(Codes(s, u16tou32))

(* mbslen (str, byte_len)                                                  *)
mbslen(s) == Cardinality({i \in DOMAIN s : ~Continues(s[i])})

-----------------------------------------------------------------------------
UniInit ==
    /\ m_cstr = <<>> /\ m_wstr = <<>>
    /\ origin = [form |-> "char", text |-> <<>>]

(* Mutation of AssignUnits: the old UTF-8 form is kept.                    *)
AssignUnitsOnly(s) ==
    /\ m_wstr' = s /\ UNCHANGED m_cstr
    /\ origin' = [form |-> "wchar", text |-> s]

(* The constructors and assign().                                          *)
AssignBytes(s) ==
    /\ m_cstr' = s /\ m_wstr' = <<>>
    /\ origin' = [form |-> "char", text |-> s]

AssignUnits(s) ==
    /\ m_wstr' = s /\ m_cstr' = <<>>
    /\ origin' = [form |-> "wchar", text |-> s]

AssignCodes(s) ==
    /\ m_cstr' = u32stou8(s) /\ m_wstr' = <<>>
    /\ origin' = [form |-> "code", text |-> s]

(* get_string<char>() and get_string<WChar>().                             *)
Bytes == IF m_cstr = <<>> /\ m_wstr # <<>> THEN u16tou8(m_wstr) ELSE m_cstr
Units == IF m_wstr = <<>> /\ m_cstr # <<>> THEN u8tou16(m_cstr) ELSE m_wstr

GetBytes == m_cstr' = Bytes /\ UNCHANGED <<m_wstr, origin>>
GetUnits == m_wstr' = Units /\ UNCHANGED <<m_cstr, origin>>

(* The user assigns what it got from the string in one form: the other is  *)
(* forgotten.  origin remembers the text that all of this came from.       *)
ReassignBytes == m_cstr' = Bytes /\ m_wstr' = <<>> /\ UNCHANGED origin
ReassignUnits == m_wstr' = Units /\ m_cstr' = <<>> /\ UNCHANGED origin

UniNext ==
    \/ \E s \in ByteTexts : AssignBytes(s)
    \/ \E s \in UnitTexts : AssignUnits(s)
    \/ \E s \in CodeTexts : AssignCodes(s)
    \/ GetBytes
    \/ GetUnits
    \/ ReassignBytes
    \/ ReassignUnits

UniSpec == UniInit /\ [][UniNext]_univars

-----------------------------------------------------------------------------
UniTypeOK == m_cstr \in Seq(Byte) /\ m_wstr \in Seq(Unit)

(* All of s is well-formed UTF-8: from the start to the end of it there    *)
(* are well-formed characters, one behind the other, at the places W.      *)
WellFormed(s) ==
    \E W \in SUBSET (1 .. Len(s) + 1) :
        /\ 1 \in W
        /\ \A i \in W \ {Len(s) + 1} :
              \E row \in Rows : Fits(s, i, row) /\ i + Len(row) \in W

(* However often a string is converted and assigned in one form or the     *)
(* other, it keeps its text: UTF-16 comes back as it was, unpaired         *)
(* surrogates included, and so does well-formed UTF-8, and UTF-32 without  *)
(* surrogates.                                                             *)
TextKept ==
    LET s == origin.text IN
    CASE origin.form = "wchar" -> Units = s
      [] origin.form = "char" -> WellFormed(s) => Bytes = s
      [] origin.form = "code" ->
            (\A k \in DOMAIN s : Scalar(s[k])) => Codes(Bytes, u8tou32) = s

(* The two forms never disagree: a form that is there, and may have been   *)
(* handed out, is what the other one converts to, or the other way round;  *)
(* and u8tou16() and u16tou8() count well-formed text alike, as mbslen()   *)
(* counts it.                                                              *)
FormsAgree ==
    /\ m_cstr # <<>> /\ m_wstr # <<>> => m_wstr = u8tou16(m_cstr) \/ m_cstr = u16tou8(m_wstr)
    /\ WellFormed(Bytes) => Count8(Bytes) = mbslen(Bytes) /\ Count16(Units) = mbslen(Bytes)
=============================================================================
