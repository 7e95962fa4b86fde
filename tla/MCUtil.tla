------------------------------- MODULE MCUtil -------------------------------
(***************************************************************************)
(* The functions of Util on every short text over two alphabets, which     *)
(* grows one byte at a time: what a target is made of, up to MaxText       *)
(* bytes, and what a path is made of, up to MaxPath.                       *)
(***************************************************************************)
EXTENDS Util, FiniteSets

CONSTANTS MaxText, MaxPath

Letter == 65
Four == 52
High == 200

TargetBytes ==
  {Space, Percent, Ampersand, Plus, Equals, Question, Four, Letter, High}
PathBytes == {Slash, Dot, Letter}

VARIABLES text, alphabet

Init == text = <<>> /\ alphabet \in {TargetBytes, PathBytes}

Grow ==
  /\ Len(text) < IF alphabet = PathBytes THEN MaxPath ELSE MaxText
  /\ \E byte \in alphabet : text' = Append(text, byte)
  /\ UNCHANGED alphabet

Spec == Init /\ [][Grow]_<<text, alphabet>>
-----------------------------------------------------------------------------
(* The maximal runs of bytes of s that are no separators. *)
Runs(s, sep) ==
  {r \in (DOMAIN s) \X (DOMAIN s) :
     /\ r[1] <= r[2] /\ \A i \in r[1] .. r[2] : s[i] # sep
     /\ r[1] = 1 \/ s[r[1] - 1] = sep
     /\ r[2] = Len(s) \/ s[r[2] + 1] = sep}

(* Split finds the fields between the separators, in order: none is lost   *)
(* at the end or where separators follow each other, and none is empty.    *)
SplitFinds(src, sep) ==
  LET runs == Runs(src, sep)
      Place(r) == Cardinality({s \in runs : s[1] <= r[1]})
  IN  /\ Len(Split(src, sep)) = Cardinality(runs)
      /\ \A r \in runs : Split(src, sep)[Place(r)] = SubSeq(src, r[1], r[2])

(* In every text, whether it is a query or a path. *)
SplitAgrees == \A sep \in {Ampersand, Slash} : SplitFinds(text, sep)

(* How a client may write a byte in a target, in one of its styles: only   *)
(* what has to be escaped, or everything, with capital or small digits.    *)
Styles == {"own", "plain", "capital", "small"}

Digit(n, style) == IF style = "small" /\ n > 9 THEN 97 + n - 10 ELSE Hex(n)

Written(bytes, style, plus) ==
  IF style = "own"
  THEN UrlEncode(bytes, plus)
  ELSE FlattenSeq([i \in DOMAIN bytes |->
         CASE style = "plain" /\ bytes[i] \in Unreserved -> <<bytes[i]>>
           [] style = "plain" /\ bytes[i] = Space /\ plus -> <<Plus>>
           [] OTHER -> <<Percent, Digit(bytes[i] \div 16, style),
                         Digit(bytes[i] % 16, style)>>])

(* The server finds in a target the path and the parameters a client wrote *)
(* there, in whatever style: escapes are undone once, after the target has *)
(* been taken apart, and at the end of each piece as well; of a parameter  *)
(* given twice the first counts.  (UrlEncode as a client's style is right  *)
(* for bytes up to 127 only.)                                              *)
TargetIsUnderstood ==
  alphabet = TargetBytes =>
    \A i \in 0 .. Len(text), j \in 0 .. Len(text) : i <= j =>
      LET path == SubSeq(text, 1, i)
          key  == SubSeq(text, i + 1, j)
          val  == SubSeq(text, j + 1, Len(text))
          target(s) == Written(path, s, FALSE) \o <<Question>>
                         \o Written(key, s, TRUE) \o <<Equals>>
                         \o Written(val, s, TRUE) \o <<Ampersand>>
                         \o Written(val, s, TRUE) \o <<Equals>>
                         \o Written(key, s, TRUE)
          params == {[key |-> key, val |-> val]}
                      \cup (IF key = val THEN {} ELSE {[key |-> val, val |-> key]})
      IN  \A s \in IF High \in Range(text) THEN Styles \ {"own"} ELSE Styles :
            ParseTarget(target(s)) = [resp |-> 200, path |-> path, params |-> params]

(* What a file system makes of a path: ".." goes up, "." stays, any other  *)
(* name goes down.                                                         *)
Stay == <<Dot>>
Ups(dirs, n) == Cardinality({i \in 1 .. n : dirs[i] = Up})
Downs(dirs, n) == Cardinality({i \in 1 .. n : dirs[i] \notin {Up, Stay}})

(* A path leaves the root if, on some part of the way along it, one goes   *)
(* up more often than down.                                                *)
LeavesRoot(path) ==
  LET dirs == Split(path, Slash)
  IN  \E n \in DOMAIN dirs : Ups(dirs, n) > Downs(dirs, n)

(* A path is refused only if it leaves the root, even if it comes back;    *)
(* and of the paths that do not use ".", every one that leaves is refused. *)
PathStaysBelow ==
  /\ ~LeavesRoot(text) => ValidPath(text)
  /\ LeavesRoot(text) /\ Stay \notin Range(Split(text, Slash)) => ~ValidPath(text)

(* "A client can only request resources inside the relative root" (the     *)
(* comment before ValidPath): no path that is accepted leaves the root.    *)
(* ValidPath counts "." as a way down.                                     *)
PathNeverLeaves == ValidPath(text) => ~LeavesRoot(text)
=============================================================================
