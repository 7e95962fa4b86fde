-------------------------------- MODULE Util --------------------------------
(***************************************************************************)
(* Class Util, the string functions of the HTTP server, and the functions  *)
(* of HttpContext that take the target of a request apart with them        *)
(* (source/http/http.hpp).  They keep no state: each is an operator.       *)
(*                                                                         *)
(* A text is a sequence of bytes, and a byte is a number.  A C char is     *)
(* signed here, as it is where the server is built.                        *)
(***************************************************************************)
EXTENDS Integers, Sequences, SequencesExt

Space == 32
Percent == 37
Ampersand == 38
Plus == 43
Dot == 46
Slash == 47
Equals == 61
Question == 63

Digits == 48 .. 57
Capitals == 65 .. 90
Smalls == 97 .. 122

Suffix(text, from) == SubSeq(text, from, Len(text))
-----------------------------------------------------------------------------
(* string::find of one byte: its first place at or behind from, or 0. *)
Find(text, byte, from) ==
  SelectInSubSeq(text, from, Len(text), LAMBDA b : b = byte)

(* Bug: a text that follows the last separator is forgotten. *)
SplitTerminated(src, sep) ==
  LET fields[offset \in 1 .. Len(src) + 1] ==
        LET pos == Find(src, sep, offset)
        IN  IF pos = 0 THEN <<>>
            ELSE (IF pos = offset THEN <<>> ELSE <<SubSeq(src, offset, pos - 1)>>)
                   \o fields[pos + 1]
  IN  fields[1]

(* The fields of src between separators, without the empty ones. *)
Split(src, sep) ==
  LET fields[offset \in 1 .. Len(src) + 1] ==
        LET pos == Find(src, sep, offset)
        IN  IF offset > Len(src) THEN <<>>
            ELSE IF pos = 0 THEN <<Suffix(src, offset)>>
            ELSE (IF pos = offset THEN <<>> ELSE <<SubSeq(src, offset, pos - 1)>>)
                   \o fields[pos + 1]
  IN  fields[1]
-----------------------------------------------------------------------------
(* The digits of "%02X". *)
Hex(n) == IF n < 10 THEN 48 + n ELSE 65 + n - 10

(* snprintf into four bytes: a negative char is printed as FFFFFFHH, of    *)
(* which the first two digits are kept.                                    *)
Escape(byte) ==
  <<Percent>> \o (IF byte < 128 THEN <<Hex(byte \div 16), Hex(byte % 16)>>
                               ELSE <<Hex(15), Hex(15)>>)

Unreserved == Digits \cup Capitals \cup Smalls \cup {45, Dot, 95, 126}

UrlEncode(url, convertSpaceToPlus) ==
  FlattenSeq([i \in DOMAIN url |->
    IF url[i] \in Unreserved THEN <<url[i]>>
    ELSE IF url[i] = Space /\ convertSpaceToPlus THEN <<Plus>>
    ELSE Escape(url[i])])

(* Any letter counts as a digit, and anything else as -1. *)
HEXTOI(c) ==
  CASE c \in Digits   -> c - 48
    [] c \in Smalls   -> c - 97 + 10
    [] c \in Capitals -> c - 65 + 10
    [] OTHER          -> -1

(* Bug: an escape at the end of the text is not seen. *)
UrlDecodeShort(url, convertPlusToSpace) ==
  LET from[i \in 1 .. Len(url) + 2] ==
        CASE i > Len(url) -> <<>>
          [] i <= Len(url) /\ url[i] = Plus /\ convertPlusToSpace ->
               <<Space>> \o from[i + 1]
          [] i + 2 < Len(url) /\ url[i] = Percent ->
               <<(HEXTOI(url[i + 1]) * 16 + HEXTOI(url[i + 2])) % 256>>
                 \o from[i + 3]
          [] OTHER -> <<url[i]>> \o from[i + 1]
  IN  from[1]

(* An escape that is cut short by the end of the text stands for itself.   *)
(* The value is kept in a char.                                            *)
UrlDecode(url, convertPlusToSpace) ==
  LET from[i \in 1 .. Len(url) + 1] ==
        CASE i > Len(url) -> <<>>
          [] i <= Len(url) /\ url[i] = Plus /\ convertPlusToSpace ->
               <<Space>> \o from[i + 1]
          [] i + 2 <= Len(url) /\ url[i] = Percent ->
               <<(HEXTOI(url[i + 1]) * 16 + HEXTOI(url[i + 2])) % 256>>
                 \o from[i + 3]
          [] OTHER -> <<url[i]>> \o from[i + 1]
  IN  from[1]
-----------------------------------------------------------------------------
Up == <<Dot, Dot>>

(* How far below the root the directories lead, one after the other; once  *)
(* below 0 the code does not go on.                                        *)
Level(level, dir) ==
  IF level < 0 THEN level ELSE IF dir = Up THEN level - 1 ELSE level + 1

(* Bug: only the end of the path is tested. *)
ValidPathEnd(path) ==
  FoldLeft(LAMBDA level, dir : IF dir = Up THEN level - 1 ELSE level + 1,
           0, Split(path, Slash)) >= 0

ValidPath(path) == FoldLeft(Level, 0, Split(path, Slash)) >= 0
-----------------------------------------------------------------------------
(* HttpRequest's SetParam: a parameter keeps its first value. *)
SetParam(params, key, val) ==
  IF \E p \in params : p.key = key
  THEN params ELSE params \cup {[key |-> key, val |-> val]}

(* The loop of ParseHttpLine over the fields of the query. *)
AddField(request, field) ==
  LET pos == Find(field, Equals, 1)
      key == UrlDecode(SubSeq(field, 1, pos - 1), TRUE)
      val == UrlDecode(Suffix(field, pos + 1), TRUE)
  IN  IF request.resp = 400 \/ pos = 0
      THEN [request EXCEPT !.resp = 400]
      ELSE [request EXCEPT !.params = SetParam(@, key, val)]

(* What ParseHttpLine makes of a target: of the regex, the groups for the  *)
(* path and the query.                                                     *)
ParseTarget(target) ==
  LET pos == Find(target, Question, 1)
      path == IF pos = 0 THEN target ELSE SubSeq(target, 1, pos - 1)
      query == IF pos = 0 THEN <<>> ELSE Suffix(target, pos + 1)
  IN  FoldLeft(AddField,
               [resp |-> 200, path |-> UrlDecode(path, FALSE), params |-> {}],
               Split(query, Ampersand))
=============================================================================
