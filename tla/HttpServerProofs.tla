-------------------------- MODULE HttpServerProofs --------------------------
(***************************************************************************)
(* Proofs about HttpServer: that each request of a script gets its own     *)
(* reply, for any scripts, files, route tables and limit on a line.        *)
(*                                                                         *)
(* The invariant, HttpInv, says where in the peer's input the parser is:   *)
(* after k replies it stands at the begin of the request k + 1, or behind  *)
(* some of that request's lines, or within its body, or at the line for    *)
(* which it refuses it; and what it has taken from the request so far is   *)
(* in the context.  The buffer holds what comes next of the input.         *)
(***************************************************************************)
EXTENDS HttpServer, SequenceLemmas, SequenceTheorems, TLAPS

-----------------------------------------------------------------------------
(* What the lines of a request are made of contains no line end. *)
LEMMA SymbolType == NewLine \in Symbol /\ Text \subseteq Symbol /\ NewLine \notin Text
  BY DEF Symbol, Text, NewLine, Data

(* The lines of a request as they are sent, and where each ends. *)
Ended(r) == [i \in DOMAIN r.lines |-> Append(r.lines[i], NewLine)]
Offset(r, m) == Len(Joined(Ended(r), m))

(* The lines of a request with their ends, and what they are made of. *)
LEMMA EndedType ==
  ASSUME NEW r \in Message
  PROVE  /\ Ended(r) \in Seq(Seq(Symbol)) /\ Len(Ended(r)) = Len(r.lines)
         /\ r.lines \in Seq(Seq(Text)) /\ r.body \in Seq(Symbol)
<1>1. r.lines \in Seq(Seq(Text)) /\ r.body \in Seq(Symbol)
  BY DEF Message
<1>2. \A i \in DOMAIN r.lines : r.lines[i] \in Seq(Text)
  BY <1>1
<1>3. Seq(Text) \subseteq Seq(Symbol)
  BY SymbolType
<1>4. \A q \in Seq(Symbol) : Append(q, NewLine) \in Seq(Symbol)
  BY SymbolType
<1>5. \A i \in 1 .. Len(r.lines) : Append(r.lines[i], NewLine) \in Seq(Symbol)
  BY <1>1, <1>2, <1>3, <1>4
<1> DEFINE n == Len(r.lines)
           f(i) == Append(r.lines[i], NewLine)
<1>6. n \in Nat /\ Ended(r) = [i \in 1 .. n |-> f(i)]
  BY <1>1 DEF Ended
<1>7. \A i \in 1 .. n : f(i) \in Seq(Symbol)
  BY <1>5
<1> HIDE DEF n, f
<1>8. Ended(r) \in Seq(Seq(Symbol)) /\ Len(Ended(r)) = n
  BY <1>6, <1>7
<1> QED
  BY <1>1, <1>8 DEF n

(* All of the sequences together. *)
LEMMA AllJoined ==
  ASSUME NEW X, NEW s \in Seq(X)
  PROVE  FlattenSeq(s) = Joined(s, Len(s))
<1>1. UpTo(s, Len(s)) = s
  BY DEF UpTo
<1> QED
  BY <1>1 DEF Joined

(* The symbols of a request on the wire: line by line, the empty line, the *)
(* body.                                                                   *)
LEMMA WireParts ==
  ASSUME NEW r \in Message
  PROVE  /\ Wire(r) \in Seq(Symbol)
         /\ Offset(r, 0) = 0
         /\ \A m \in 0 .. Len(r.lines) : Offset(r, m) \in Nat
         /\ \A m \in 0 .. Len(r.lines) - 1 :
              /\ Offset(r, m + 1) = Offset(r, m) + Len(r.lines[m + 1]) + 1
              /\ \A p \in 1 .. Len(r.lines[m + 1]) :
                   Wire(r)[Offset(r, m) + p] = r.lines[m + 1][p]
              /\ Wire(r)[Offset(r, m + 1)] = NewLine
              /\ Offset(r, m + 1) <= Offset(r, Len(r.lines))
         /\ Wire(r)[Offset(r, Len(r.lines)) + 1] = NewLine
         /\ Len(Wire(r)) = Offset(r, Len(r.lines)) + 1 + Len(r.body)
<1> DEFINE e == Ended(r)
           n == Len(r.lines)
           h == Joined(e, n)
<1>1. /\ e \in Seq(Seq(Symbol)) /\ Len(e) = n /\ n \in Nat
      /\ r.lines \in Seq(Seq(Text)) /\ r.body \in Seq(Symbol)
  BY EndedType
<1>2. Wire(r) = h \o <<NewLine>> \o r.body
  <2>1. FlattenSeq(e) = h
    BY <1>1, AllJoined
  <2> QED
    BY <2>1 DEF Wire, Ended
<1>3. h \in Seq(Symbol) /\ <<NewLine>> \in Seq(Symbol) /\ Len(<<NewLine>>) = 1
  <2>1. n \in 0 .. Len(e)
    BY <1>1
  <2>2. h \in Seq(Symbol)
    BY <1>1, <2>1, JoinedType
  <2>3. <<NewLine>> \in Seq(Symbol)
    BY SymbolType
  <2> QED
    BY <2>2, <2>3
<1>4. /\ Wire(r) \in Seq(Symbol) /\ Len(Wire(r)) = Len(h) + 1 + Len(r.body)
      /\ \A p \in 1 .. Len(h) : Wire(r)[p] = h[p]
      /\ Wire(r)[Len(h) + 1] = NewLine
  <2> DEFINE b == r.body
             w == (h \o <<NewLine>>) \o b
  <2>1. b \in Seq(Symbol) /\ Wire(r) = w
    BY <1>1, <1>2
  <2> HIDE DEF b, h
  <2> DEFINE g == h \o <<NewLine>>
  <2>2. /\ g \in Seq(Symbol) /\ Len(g) = Len(h) + 1 /\ g[Len(h) + 1] = NewLine
        /\ \A p \in 1 .. Len(h) : g[p] = h[p]
    BY <1>3
  <2> HIDE DEF g
  <2>3. /\ w \in Seq(Symbol) /\ Len(w) = Len(g) + Len(b)
        /\ \A p \in 1 .. Len(g) : w[p] = g[p]
    BY <2>1, <2>2 DEF g
  <2> HIDE DEF w
  <2>4. /\ w \in Seq(Symbol) /\ Len(w) = Len(h) + 1 + Len(b)
        /\ \A p \in 1 .. Len(h) : w[p] = h[p]
        /\ w[Len(h) + 1] = NewLine
    BY <1>3, <2>1, <2>2, <2>3
  <2> QED
    BY <2>1, <2>4 DEF b
<1>5. Offset(r, 0) = 0 /\ Offset(r, n) = Len(h)
  BY JoinedEmpty DEF Offset
<1>6. \A m \in 0 .. n : Offset(r, m) \in Nat
  <2> TAKE m \in 0 .. n
  <2>1. Joined(e, m) \in Seq(Symbol)
    BY <1>1, JoinedType
  <2> QED
    BY <2>1 DEF Offset
<1>7. ASSUME NEW m \in 0 .. n - 1
      PROVE  /\ Offset(r, m + 1) = Offset(r, m) + Len(r.lines[m + 1]) + 1
             /\ \A p \in 1 .. Len(r.lines[m + 1]) :
                  Wire(r)[Offset(r, m) + p] = r.lines[m + 1][p]
             /\ Wire(r)[Offset(r, m + 1)] = NewLine
             /\ Offset(r, m + 1) <= Len(h)
  <2> DEFINE l == r.lines[m + 1]
             o == Offset(r, m)
  <2>1. m + 1 \in 1 .. n /\ n \in 0 .. Len(e) /\ l \in Seq(Text) /\ m \in 0 .. n /\ m + 1 \in 0 .. n
    BY <1>1
  <2>2. l \in Seq(Symbol)
    <3>1. Seq(Text) \subseteq Seq(Symbol)
      BY SymbolType
    <3> QED
      BY <2>1, <3>1
  <2>3. e[m + 1] = Append(l, NewLine)
    BY <1>1, <2>1 DEF Ended
  <2>4. /\ Offset(r, m + 1) = o + Len(e[m + 1]) /\ Offset(r, m + 1) <= Len(h)
        /\ \A p \in 1 .. Len(e[m + 1]) : h[o + p] = e[m + 1][p]
    <3>1. /\ Len(Joined(e, m + 1)) = Len(Joined(e, m)) + Len(e[m + 1])
          /\ Len(Joined(e, m + 1)) <= Len(Joined(e, n))
          /\ \A p \in 1 .. Len(e[m + 1]) :
               Joined(e, n)[Len(Joined(e, m)) + p] = e[m + 1][p]
      <4>1. n \in 0 .. Len(e) /\ m \in 0 .. n - 1 /\ e \in Seq(Seq(Symbol))
        BY <1>1, <2>1
      <4>2. PartAt(e, n, m, Symbol)
        BY <4>1, JoinedParts
      <4> QED
        BY <4>2 DEF PartAt
    <3> QED
      BY <3>1 DEF Offset
  <2>5. o \in Nat /\ Offset(r, m + 1) \in Nat /\ Len(h) \in Nat
    BY <1>3, <1>6, <2>1
  <2> HIDE DEF e, h, l, o
  <2>6. /\ Len(e[m + 1]) = Len(l) + 1 /\ e[m + 1][Len(l) + 1] = NewLine
        /\ \A p \in 1 .. Len(l) : e[m + 1][p] = l[p]
    BY <2>2, <2>3
  <2>7. Len(l) \in Nat
    BY <2>2
  <2>8. \A p \in 1 .. Len(l) + 1 : Wire(r)[o + p] = e[m + 1][p]
    <3> TAKE p \in 1 .. Len(l) + 1
    <3>1. o + p \in 1 .. Len(h)
      BY <2>4, <2>5, <2>6, <2>7
    <3> QED
      BY <1>4, <2>4, <2>6, <3>1
  <2>9. /\ Offset(r, m + 1) = o + Len(l) + 1
        /\ \A p \in 1 .. Len(l) : Wire(r)[o + p] = l[p]
        /\ Wire(r)[o + (Len(l) + 1)] = NewLine
    <3>1. Offset(r, m + 1) = o + Len(l) + 1
      BY <2>4, <2>5, <2>6, <2>7
    <3>2. ASSUME NEW p \in 1 .. Len(l) PROVE Wire(r)[o + p] = l[p]
      <4>1. p \in 1 .. Len(l) + 1
        BY <2>7
      <4>2. Wire(r)[o + p] = e[m + 1][p]
        BY <2>8, <4>1
      <4>3. e[m + 1][p] = l[p]
        BY <2>6
      <4> QED
        BY <4>2, <4>3
    <3>3. Wire(r)[o + (Len(l) + 1)] = NewLine
      <4>1. Len(l) + 1 \in 1 .. Len(l) + 1
        BY <2>7
      <4>2. Wire(r)[o + (Len(l) + 1)] = e[m + 1][Len(l) + 1]
        BY <2>8, <4>1
      <4> QED
        BY <2>6, <4>2
    <3> QED
      BY <3>1, <3>2, <3>3
  <2>10. o + (Len(l) + 1) = Offset(r, m + 1)
    BY <2>5, <2>7, <2>9
  <2> QED
    BY <2>4, <2>9, <2>10 DEF l, o
<1> HIDE DEF h
<1> QED
  BY <1>1, <1>4, <1>5, <1>6, <1>7
-----------------------------------------------------------------------------
(* The requests on the wire, and where each ends in the input. *)
Wires(s) == [i \in DOMAIN s |-> Wire(s[i])]
Start(s, k) == Len(Joined(Wires(s), k))
InputOf(s) == FlattenSeq(Wires(s))

(* The requests of a script on the wire. *)
LEMMA WiresType ==
  ASSUME NEW s \in Scripts
  PROVE  /\ s \in Seq(Message) /\ Wires(s) \in Seq(Seq(Symbol)) /\ Len(Wires(s)) = Len(s)
         /\ \A i \in DOMAIN s : s[i] \in Message
<1>1. s \in Seq(Message)
  BY ScriptsAssumption
<1>2. \A i \in 1 .. Len(s) : s[i] \in Message
  BY <1>1
<1>3. \A i \in 1 .. Len(s) : Wire(s[i]) \in Seq(Symbol)
  BY <1>2, WireParts
<1> DEFINE n == Len(s)
           f(i) == Wire(s[i])
<1>6. n \in Nat /\ Wires(s) = [i \in 1 .. n |-> f(i)]
  BY <1>1 DEF Wires
<1>7. \A i \in 1 .. n : f(i) \in Seq(Symbol)
  BY <1>3
<1> HIDE DEF n, f
<1>8. Wires(s) \in Seq(Seq(Symbol)) /\ Len(Wires(s)) = n
  BY <1>6, <1>7
<1> QED
  BY <1>1, <1>2, <1>8 DEF n

(* Each request has its place in the input, behind those before it. *)
LEMMA InputParts ==
  ASSUME NEW s \in Scripts
  PROVE  /\ InputOf(s) \in Seq(Symbol) /\ Len(InputOf(s)) = Start(s, Len(s)) /\ Start(s, 0) = 0
         /\ \A k \in 0 .. Len(s) : Start(s, k) \in Nat
         /\ \A k \in 0 .. Len(s) - 1 :
              /\ Start(s, k + 1) = Start(s, k) + Len(Wire(s[k + 1]))
              /\ \A p \in 1 .. Len(Wire(s[k + 1])) :
                   InputOf(s)[Start(s, k) + p] = Wire(s[k + 1])[p]
<1> DEFINE n == Len(s)
<1>1. Wires(s) \in Seq(Seq(Symbol)) /\ Len(Wires(s)) = n /\ s \in Seq(Message) /\ n \in Nat
  BY WiresType
<1>2. InputOf(s) = Joined(Wires(s), n)
  BY <1>1, AllJoined DEF InputOf
<1>3. \A k \in 0 .. n : Joined(Wires(s), k) \in Seq(Symbol)
  BY <1>1, JoinedType
<1>4. InputOf(s) \in Seq(Symbol) /\ Len(InputOf(s)) = Start(s, n) /\ Start(s, 0) = 0
  BY <1>1, <1>2, <1>3, JoinedEmpty DEF Start
<1>5. \A k \in 0 .. n : Start(s, k) \in Nat
  BY <1>3 DEF Start
<1>6. ASSUME NEW k \in 0 .. n - 1
      PROVE  /\ Start(s, k + 1) = Start(s, k) + Len(Wire(s[k + 1]))
             /\ \A p \in 1 .. Len(Wire(s[k + 1])) :
                  InputOf(s)[Start(s, k) + p] = Wire(s[k + 1])[p]
  <2>1. Wires(s)[k + 1] = Wire(s[k + 1])
    BY <1>1 DEF Wires
  <2>2. n \in 0 .. Len(Wires(s))
    BY <1>1
  <2> DEFINE w == Wires(s)
  <2>3. w \in Seq(Seq(Symbol)) /\ n \in 0 .. Len(w)
    BY <1>1, <2>2
  <2> HIDE DEF w, n
  <2>4. /\ Len(Joined(w, k + 1)) = Len(Joined(w, k)) + Len(w[k + 1])
        /\ \A p \in 1 .. Len(w[k + 1]) : Joined(w, n)[Len(Joined(w, k)) + p] = w[k + 1][p]
    <3>1. PartAt(w, n, k, Symbol)
      BY <2>3, JoinedParts
    <3> QED
      BY <3>1 DEF PartAt
  <2> QED
    BY <1>2, <2>1, <2>4 DEF Start, w
<1> QED
  BY <1>4, <1>5, <1>6

(* A later request begins later. *)
LEMMA StartGrows ==
  ASSUME NEW s \in Scripts, NEW j \in 0 .. Len(s), NEW i \in 0 .. j
  PROVE  Start(s, i) <= Start(s, j)
<1>1. Wires(s) \in Seq(Seq(Symbol)) /\ j \in 0 .. Len(Wires(s))
  BY WiresType
<1> QED
  BY <1>1, JoinedPrefix DEF Start
-----------------------------------------------------------------------------
(* A symbol is known by its field sym. *)
LEMMA SymbolKinds ==
  /\ \A s \in Symbol : s.sym = "nl" <=> s = NewLine
  /\ \A s \in Symbol : s.sym = "line" =>
       /\ s.method \in {"GET", "HEAD", "POST", "PUT", "DELETE"}
       /\ s.path \in STRING /\ s.id \in Nat
  /\ \A s \in Symbol : s.sym = "connection" => s.value \in STRING \ {""}
  /\ \A s \in Symbol : s.sym = "length" => s.n \in Nat
<1> SUFFICES ASSUME NEW s \in Symbol
             PROVE  /\ s.sym = "nl" <=> s = NewLine
                    /\ s.sym = "line" =>
                         /\ s.method \in {"GET", "HEAD", "POST", "PUT", "DELETE"}
                         /\ s.path \in STRING /\ s.id \in Nat
                    /\ s.sym = "connection" => s.value \in STRING \ {""}
                    /\ s.sym = "length" => s.n \in Nat
  OBVIOUS
<1>1. NewLine.sym = "nl" /\ Data.sym = "data"
  BY DEF NewLine, Data
<1>2. CASE s = NewLine
  BY <1>1, <1>2
<1>3. CASE s = Data
  BY <1>1, <1>3
<1>4. CASE s \in [sym : {"line"}, method : {"GET", "HEAD", "POST", "PUT", "DELETE"},
                  path : STRING, id : Nat]
  <2>1. s.sym = "line"
    BY <1>4
  <2>2. s # NewLine
    BY <1>1, <2>1
  <2> QED
    BY <1>4, <2>1, <2>2
<1>5. CASE s \in [sym : {"connection"}, value : STRING \ {""}]
  <2>1. s.sym = "connection"
    BY <1>5
  <2>2. s # NewLine
    BY <1>1, <2>1
  <2> QED
    BY <1>5, <2>1, <2>2
<1>6. CASE s \in [sym : {"length"}, n : Nat]
  <2>1. s.sym = "length"
    BY <1>6
  <2>2. s # NewLine
    BY <1>1, <2>1
  <2> QED
    BY <1>6, <2>1, <2>2
<1> QED
  BY <1>2, <1>3, <1>4, <1>5, <1>6 DEF Symbol, Text

(* GetLineAndPop, on any input. *)
LEMMA LineType ==
  ASSUME NEW buf \in Seq(Symbol)
  PROVE  /\ LineLength(buf) \in 0 .. Len(buf)
         /\ LineLength(buf) > 0 => /\ buf[LineLength(buf)] = NewLine
                                   /\ \A i \in 1 .. LineLength(buf) - 1 : buf[i] # NewLine
         /\ LineLength(buf) = 0 => \A i \in 1 .. Len(buf) : buf[i] # NewLine
         /\ Line(buf) \in Seq(Symbol) /\ Len(Line(buf)) = LineLength(buf)
         /\ \A p \in 1 .. LineLength(buf) : Line(buf)[p] = buf[p]
         /\ Behind(buf) \in Seq(Symbol) /\ Len(Behind(buf)) = Len(buf) - LineLength(buf)
         /\ \A p \in 1 .. Len(Behind(buf)) : Behind(buf)[p] = buf[LineLength(buf) + p]
<1> DEFINE E == LineEnds(buf)
           n == LineLength(buf)
<1>1. E \subseteq 1 .. Len(buf) /\ \A i \in 1 .. Len(buf) : i \in E <=> buf[i] = NewLine
  <2>1. \A i \in 1 .. Len(buf) : buf[i] \in Symbol
    OBVIOUS
  <2>2. \A i \in 1 .. Len(buf) : buf[i].sym = "nl" <=> buf[i] = NewLine
    BY <2>1, SymbolKinds
  <2>3. E = {i \in 1 .. Len(buf) : buf[i].sym = "nl"}
    BY DEF LineEnds
  <2> QED
    BY <2>2, <2>3
<1>2. E = {} => n = 0
  BY DEF LineLength
<1>3. ASSUME E # {} PROVE n \in E /\ \A j \in E : n <= j
  <2>1. n = CHOOSE i \in E : \A j \in E : i <= j
    BY <1>3 DEF LineLength
  <2>2. E \subseteq Nat
    BY <1>1
  <2> HIDE DEF E, n
  <2>3. \E i \in E : \A j \in E : i <= j
    BY <1>3, <2>2, LeastElement
  <2> QED
    BY <2>1, <2>3
<1>4. /\ n \in 0 .. Len(buf)
      /\ n > 0 => buf[n] = NewLine /\ \A i \in 1 .. n - 1 : buf[i] # NewLine
      /\ n = 0 => \A i \in 1 .. Len(buf) : buf[i] # NewLine
  <2> HIDE DEF E, n
  <2>1. CASE E = {}
    BY <1>1, <1>2, <2>1
  <2>2. CASE E # {}
    <3>1. n \in 1 .. Len(buf) /\ buf[n] = NewLine
      BY <1>1, <1>3, <2>2
    <3>2. \A i \in 1 .. n - 1 : i \in 1 .. Len(buf) /\ ~(n <= i)
      BY <3>1
    <3> QED
      BY <1>1, <1>3, <2>2, <3>1, <3>2
  <2> QED
    BY <2>1, <2>2
<1> HIDE DEF n
<1>5. /\ SubSeq(buf, 1, n) \in Seq(Symbol) /\ Len(SubSeq(buf, 1, n)) = n
      /\ \A p \in 1 .. n : SubSeq(buf, 1, n)[p] = buf[p]
  BY <1>4
<1>6. /\ SubSeq(buf, n + 1, Len(buf)) \in Seq(Symbol)
      /\ Len(SubSeq(buf, n + 1, Len(buf))) = Len(buf) - n
      /\ \A p \in 1 .. Len(buf) - n : SubSeq(buf, n + 1, Len(buf))[p] = buf[n + p]
  BY <1>4
<1> QED
  BY <1>4, <1>5, <1>6 DEF Line, Behind, n

(* GetLineAndPop, where the next line end is known. *)
LEMMA LineOf ==
  ASSUME NEW buf \in Seq(Symbol), NEW n \in Nat,
         \A p \in 1 .. Len(buf) : p <= n => buf[p] # NewLine,
         Len(buf) > n => buf[n + 1] = NewLine
  PROVE  /\ Len(buf) <= n => LineLength(buf) = 0 /\ Line(buf) = <<>>
         /\ Len(buf) > n => /\ LineLength(buf) = n + 1 /\ Len(Line(buf)) = n + 1
                            /\ Line(buf) # <<>>
                            /\ \A p \in 1 .. n + 1 : Line(buf)[p] = buf[p]
<1> DEFINE k == LineLength(buf)
<1>1. /\ k \in 0 .. Len(buf)
      /\ k > 0 => buf[k] = NewLine /\ \A i \in 1 .. k - 1 : buf[i] # NewLine
      /\ k = 0 => \A i \in 1 .. Len(buf) : buf[i] # NewLine
      /\ Line(buf) \in Seq(Symbol) /\ Len(Line(buf)) = k
      /\ \A p \in 1 .. k : Line(buf)[p] = buf[p]
  BY LineType
<1> HIDE DEF k
<1>2. ASSUME Len(buf) <= n PROVE k = 0
  BY <1>1, <1>2
<1>3. ASSUME Len(buf) > n PROVE k = n + 1
  <2>1. k # 0
    BY <1>1, <1>3
  <2>2. ~(k <= n)
    BY <1>1, <2>1
  <2>3. ~(n + 1 < k)
    BY <1>1, <1>3, <2>1
  <2> QED
    BY <1>1, <2>2, <2>3
<1>4. k = 0 => Line(buf) = <<>>
  BY <1>1
<1>5. k # 0 => Line(buf) # <<>>
  BY <1>1
<1> QED
  BY <1>1, <1>2, <1>3, <1>4, <1>5 DEF k
-----------------------------------------------------------------------------
(* The parser, on any input. *)
Word == STRING \cup {"", "GET", "HEAD", "POST", "PUT", "DELETE", "file", "unread",
                     "error", "close", "keep-alive"}

RequestType ==
  [method : Word, path : Word, id : Nat, connection : Word,
   length : Nat \cup {NoLength}, body : Nat]

ContextType ==
  [resp : {200, 400, 414}, recv : {"error", "line", "head", "body", "over"},
   request : RequestType]

ContextOK(c) ==
  /\ c \in ContextType
  /\ c.request.body <= ContentLength(c.request)
  /\ c.recv \in {"line", "head", "error"} => c.request.body = 0
  /\ c.recv = "over" => c.request.body = ContentLength(c.request)
  /\ c.recv = "error" <=> c.resp # 200

(* The context after ReSet. *)
LEMMA FreshOK == ContextOK(Fresh) /\ NoRequest \in RequestType
<1>1. NoRequest \in RequestType
  BY DEF NoRequest, RequestType, NoLength, Word
<1>2. Fresh \in ContextType
  BY <1>1 DEF Fresh, ContextType
<1>3. ContentLength(NoRequest) = 0 /\ NoRequest.body = 0
  BY DEF NoRequest, ContentLength
<1> QED
  BY <1>1, <1>2, <1>3 DEF ContextOK, Fresh

(* The length of a body, given or not, is a number. *)
LEMMA LengthType ==
  ASSUME NEW q \in RequestType PROVE ContentLength(q) \in Nat
  BY DEF RequestType, ContentLength, NoLength

(* What the context is when a request is refused. *)
LEMMA FailedOK ==
  ASSUME NEW c, ContextOK(c), c.recv \in {"line", "head"}, NEW statu0 \in {400, 414}
  PROVE  /\ ContextOK(Failed(c, statu0))
         /\ Failed(c, statu0).recv = "error" /\ Failed(c, statu0).resp = statu0
         /\ Failed(c, statu0).request = c.request
<1>1. Failed(c, statu0) = [resp |-> statu0, recv |-> "error", request |-> c.request]
  <2> DEFINE e == [c EXCEPT !.recv = "error"]
  <2>1. e = [resp |-> c.resp, recv |-> "error", request |-> c.request]
    BY DEF ContextOK, ContextType
  <2>2. Failed(c, statu0) = [e EXCEPT !.resp = statu0]
    BY Zenon DEF Failed
  <2> HIDE DEF e
  <2> QED
    BY <2>1, <2>2
<1>2. [resp |-> statu0, recv |-> "error", request |-> c.request] \in ContextType
  BY DEF ContextOK, ContextType
<1> QED
  BY <1>1, <1>2 DEF ContextOK

(* The context d when the context c has taken a request line. *)
LineRead(c, line, d) ==
  /\ ContextOK(d) /\ d.recv = "head"
  /\ d.request = [c.request EXCEPT !.method = line[1].method,
                     !.path = line[1].path, !.id = line[1].id]

(* ParseHttpLine takes a line that the regex accepts. *)
LEMMA ParseLineWorks ==
  ASSUME NEW c, ContextOK(c), c.recv = "line", NEW line \in Seq(Symbol),
         Len(line) = 2, line[1].sym = "line"
  PROVE  LineRead(c, line, ParseHttpLine(c, line))
<1>1. line[1] \in Symbol
  <2>1. \A i \in 1 .. Len(line) : line[i] \in Symbol
    BY SMTT(30)
  <2>2. 1 \in 1 .. Len(line)
    OBVIOUS
  <2> QED
    BY <2>1, <2>2
<1>2. line[1].method \in Word /\ line[1].path \in Word /\ line[1].id \in Nat
  <2>1. /\ line[1].method \in {"GET", "HEAD", "POST", "PUT", "DELETE"}
        /\ line[1].path \in STRING /\ line[1].id \in Nat
    BY <1>1, SymbolKinds
  <2> QED
    BY <2>1 DEF Word
<1> DEFINE q == [c.request EXCEPT !.method = line[1].method,
                                  !.path = line[1].path, !.id = line[1].id]
<1>3. /\ q \in RequestType /\ q.body = c.request.body /\ q.length = c.request.length
  BY <1>2 DEF ContextOK, ContextType, RequestType
<1>4. ParseHttpLine(c, line) = [resp |-> c.resp, recv |-> "head", request |-> q]
  BY DEF ParseHttpLine, ContextOK, ContextType
<1> HIDE DEF q
<1>5. ContextOK([resp |-> c.resp, recv |-> "head", request |-> q])
  BY <1>3 DEF ContextOK, ContextType, ContentLength
<1> QED
  BY <1>4, <1>5 DEF q, LineRead

(* SetHeader keeps the first value of a header, and changes nothing else. *)
LEMMA SetHeaderWorks ==
  ASSUME NEW q \in RequestType, q.body = 0, NEW head \in Symbol
  PROVE  LET p == SetHeader(q, head)
         IN  /\ p \in RequestType /\ p.body = 0
             /\ p.method = q.method /\ p.path = q.path /\ p.id = q.id
             /\ p.connection = IF head.sym = "connection" /\ q.connection = ""
                               THEN head.value ELSE q.connection
             /\ p.length = IF head.sym = "length" /\ q.length = NoLength
                           THEN head.n ELSE q.length
<1>1. CASE head.sym = "connection" /\ q.connection = ""
  <2>1. head.value \in Word
    BY <1>1, SymbolKinds DEF Word
  <2>2. SetHeader(q, head) = [q EXCEPT !.connection = head.value]
    BY <1>1 DEF SetHeader
  <2> QED
    BY <1>1, <2>1, <2>2 DEF RequestType
<1>2. CASE head.sym = "length" /\ q.length = NoLength
  <2>1. head.n \in Nat
    BY <1>2, SymbolKinds
  <2>2. SetHeader(q, head) = [q EXCEPT !.length = head.n]
    BY <1>2 DEF SetHeader
  <2> QED
    BY <1>2, <2>1, <2>2 DEF RequestType
<1>3. CASE /\ ~(head.sym = "connection" /\ q.connection = "")
           /\ ~(head.sym = "length" /\ q.length = NoLength)
  <2>1. SetHeader(q, head) = q
    BY <1>3 DEF SetHeader
  <2> QED
    BY <1>3, <2>1
<1> QED
  BY <1>1, <1>2, <1>3

(* ParseHttpHead, on a header. *)
LEMMA ParseHeadWorks ==
  ASSUME NEW c, ContextOK(c), c.recv = "head", NEW line \in Seq(Symbol),
         Len(line) = 2, line[1].sym \in {"connection", "length"}
  PROVE  LET d == ParseHttpHead(c, line)
         IN  /\ ContextOK(d) /\ d.recv = "head"
             /\ d.request = SetHeader(c.request, line[1])
<1> DEFINE q == SetHeader(c.request, line[1])
<1>1. line[1] \in Symbol
  <2>1. \A i \in 1 .. Len(line) : line[i] \in Symbol
    BY SMTT(30)
  <2>2. 1 \in 1 .. Len(line)
    OBVIOUS
  <2> QED
    BY <2>1, <2>2
<1>2. c.request \in RequestType /\ c.request.body = 0
  BY DEF ContextOK, ContextType
<1>3. q \in RequestType /\ q.body = 0
  BY <1>1, <1>2, SetHeaderWorks
<1>4. ParseHttpHead(c, line) = [resp |-> c.resp, recv |-> "head", request |-> q]
  BY DEF ParseHttpHead, ContextOK, ContextType
<1> HIDE DEF q
<1>5. ContentLength(q) >= 0
  BY <1>3, LengthType
<1>6. ContextOK([resp |-> c.resp, recv |-> "head", request |-> q])
  BY <1>3, <1>5 DEF ContextOK, ContextType
<1> QED
  BY <1>4, <1>6 DEF q

(* What RecvHttpBody takes, and what it leaves when the body is not yet    *)
(* there as a whole.                                                       *)
LEMMA RecvBodyWorks ==
  ASSUME NEW c, ContextOK(c), c.recv = "body", NEW buf \in Seq(Symbol)
  PROVE  LET d == RecvHttpBody(c, buf)
             taken == BodyTaken(c, buf)
         IN  /\ taken \in 0 .. Len(buf)
             /\ ContextOK(d) /\ d.recv \in {"body", "over"}
             /\ d.request = [c.request EXCEPT !.body = c.request.body + taken]
             /\ d.recv = "body" => /\ taken = Len(buf)
                                   /\ d.request.body < ContentLength(d.request)
<1> DEFINE t == BodyTaken(c, buf)
           n == ContentLength(c.request)
           b == c.request.body
           q == [c.request EXCEPT !.body = b + t]
           v == IF b + t = n THEN "over" ELSE "body"
<1>1. c.request \in RequestType /\ n \in Nat /\ b \in Nat /\ b <= n
  BY LengthType DEF ContextOK, ContextType, RequestType
<1>2. t = IF Len(buf) >= n - b THEN n - b ELSE Len(buf)
  BY DEF BodyTaken
<1>3. RecvHttpBody(c, buf) = [resp |-> c.resp, recv |-> v, request |-> q]
  <2>1. c \in ContextType /\ c.request \in RequestType
    BY <1>1 DEF ContextOK
  <2>2. RecvHttpBody(c, buf) = [c EXCEPT !.request.body = b + t, !.recv = v]
    BY DEF RecvHttpBody
  <2> HIDE DEF v, t, n
  <2> DEFINE e == [c EXCEPT !.request.body = b + t]
  <2>3. e = [resp |-> c.resp, recv |-> c.recv, request |-> q]
    BY <2>1, SMTT(30) DEF ContextType, RequestType
  <2>4. RecvHttpBody(c, buf) = [e EXCEPT !.recv = v]
    BY <2>2, Zenon
  <2> HIDE DEF e
  <2> QED
    BY <2>3, <2>4
<1> HIDE DEF t, n, b
<1>4. t \in 0 .. Len(buf) /\ b + t <= n /\ (b + t # n => t = Len(buf)) /\ b + t \in Nat
  BY <1>1, <1>2
<1>5. q \in RequestType /\ q.body = b + t /\ ContentLength(q) = n
  BY <1>1, <1>4 DEF RequestType, ContentLength, n
<1> HIDE DEF q
<1>6. c.resp = 200
  BY DEF ContextOK, ContextType
<1>7. ContextOK([resp |-> c.resp, recv |-> v, request |-> q])
  BY <1>4, <1>5, <1>6 DEF ContextOK, ContextType
<1>8. v = "body" => t = Len(buf) /\ q.body < ContentLength(q)
  BY <1>1, <1>4, <1>5
<1>9. v \in {"body", "over"}
  OBVIOUS
<1> HIDE DEF v
<1> DEFINE d == RecvHttpBody(c, buf)
<1>10. d.recv = v /\ d.request = q /\ ContextOK(d)
  BY <1>3, <1>7
<1> HIDE DEF d
<1>11. /\ t \in 0 .. Len(buf) /\ ContextOK(d) /\ d.recv \in {"body", "over"} /\ d.request = q
       /\ d.recv = "body" => t = Len(buf) /\ d.request.body < ContentLength(d.request)
  BY <1>4, <1>8, <1>9, <1>10
<1> QED
  BY <1>11 DEF t, b, q, d
-----------------------------------------------------------------------------
(* How far a request has been read: the headers of a kind among the first  *)
(* m lines, none of which is faulty, and the fields then.                  *)
Headers(r, m, kind) == {i \in 2 .. m : r.lines[i][1].sym = kind}

GoodUpTo(r, m) == m \in 0 .. Len(r.lines) /\ \A i \in 1 .. m : i \notin Faulty(r)

ReadUpTo(q, r, m) ==
  /\ q.id = IF m = 0 THEN 0 ELSE r.lines[1][1].id
  /\ m > 0 => q.method = r.lines[1][1].method /\ q.path = r.lines[1][1].path
  /\ IF Headers(r, m, "connection") = {} THEN q.connection = ""
     ELSE \E i \in Headers(r, m, "connection") :
            /\ \A j \in Headers(r, m, "connection") : i <= j
            /\ q.connection = r.lines[i][1].value
  /\ IF Headers(r, m, "length") = {} THEN q.length = NoLength
     ELSE \E i \in Headers(r, m, "length") :
            /\ \A j \in Headers(r, m, "length") : i <= j
            /\ q.length = r.lines[i][1].n

InHead(c, r, at) ==
  /\ c.recv = "head"
  /\ \E m \in 1 .. Len(r.lines) :
       GoodUpTo(r, m) /\ ReadUpTo(c.request, r, m) /\ at = Offset(r, m)

InBody(c, r, at) ==
  /\ c.recv \in {"body", "over"}
  /\ Faulty(r) = {} /\ ReadUpTo(c.request, r, Len(r.lines))
  /\ at = Offset(r, Len(r.lines)) + 1 + c.request.body

Refused(c, r) ==
  /\ c.recv = "error"
  /\ \E m \in 0 .. Len(r.lines) - 1 :
       /\ GoodUpTo(r, m) /\ m + 1 \in Faulty(r) /\ ReadUpTo(c.request, r, m)
       /\ c.resp = IF Len(r.lines[m + 1]) >= MaxLine THEN 414 ELSE 400

(* After k replies the parser has consumed the first at symbols. *)
Position(s, c, at, k) ==
  \/ k \in 0 .. Len(s) /\ c = Fresh /\ at = Start(s, k)
  \/ /\ k \in 0 .. Len(s) - 1
     /\ \/ InHead(c, s[k + 1], at - Start(s, k))
        \/ InBody(c, s[k + 1], at - Start(s, k))
        \/ Refused(c, s[k + 1])

(* Each reply is right, and more have not been due.                        *)
RightReplies(s, rs) ==
  \A i \in 1 .. Len(rs) : Faulty(s[i]) = {} /\ rs[i] \in Answers(s[i])

NoMore(s, d, k) == k < Len(s) => d < Start(s, k + 1)

(* The call on top of the stack. *)
Top(f, place) == f # <<>> /\ Last(f) = place

(* OnMessage has taken what it can. *)
Waits(f, c) ==
  f = <<>> \/ Top(f, "finish") \/ (Top(f, "respond") /\ c.recv \notin {"over", "error"})

InSync(s, f, c, d, buf, rs) ==
  /\ Position(s, c, d - Len(buf), Len(rs)) /\ RightReplies(s, rs)
  /\ Waits(f, c) => NoMore(s, d, Len(rs))

(* The i-th request is the first to be refused, and has its reply: after   *)
(* it the place in the input is lost.                                      *)
FirstRefused(s, rs, i) ==
  /\ i \in 1 .. Len(s) /\ i \in 1 .. Len(rs) /\ Faulty(s[i]) # {}
  /\ \A j \in 1 .. i - 1 : Faulty(s[j]) = {}
  /\ \A j \in 1 .. i : rs[j] \in Answers(s[j])

Lost(s, rs) == \E i \in 1 .. Len(s) : FirstRefused(s, rs, i)

FinalAt(s, rs, i) ==
  /\ i \in 1 .. Len(s) /\ i \in 1 .. Len(rs)
  /\ \A j \in 1 .. i - 1 : Faulty(s[j]) = {}
  /\ \E answer \in Answers(s[i]) : Final(answer)

FinalSeen(s, rs) == \E i \in 1 .. Len(s) : FinalAt(s, rs, i)

Reply ==
  [statu : Nat, id : Nat, body : Word, connection : Word, length : BOOLEAN,
   location : BOOLEAN]

Places == {"while", "parse", "respond", "finish"}

(* Only the call on top is within RecvHttpRequest or behind it, and a      *)
(* connection that is being shut down is no longer connected.              *)
Stacked(f, st) ==
  \A i \in 1 .. Len(f) :
    /\ f[i] \in {"parse", "respond"} => i = Len(f)
    /\ f[i] = "finish" => st # "CONNECTED"

BodyMissing(c) == c.recv = "body" => c.request.body < ContentLength(c.request)

Phase(f, c, buf) ==
  /\ Top(f, "parse") => /\ c.recv \in {"line", "head", "body"}
                        /\ c.recv = "line" => buf # <<>>
  /\ ~Top(f, "parse") => BodyMissing(c)
  /\ ~Top(f, "respond") => c.recv \in {"line", "head", "body"}

FromInput(s, d, buf) ==
  \A p \in 1 .. Len(buf) : buf[p] = InputOf(s)[d - Len(buf) + p]

Types ==
  /\ script \in Scripts
  /\ delivered \in 0 .. Len(InputOf(script)) /\ eof \in BOOLEAN /\ writing \in BOOLEAN
  /\ buffer \in Seq(Symbol) /\ Len(buffer) <= delivered
  /\ ContextOK(context)
  /\ statu \in {"CONNECTED", "DISCONNECTING", "DISCONNECTED"}
  /\ replies \in Seq(Reply) /\ unsent \in 0 .. Len(replies)
  /\ frames \in Seq(Places) /\ left \in 0 .. Timeout

HttpInv ==
  /\ Types /\ Stacked(frames, statu) /\ Phase(frames, context, buffer)
  /\ FromInput(script, delivered, buffer)
  /\ Lost(script, replies) \/ InSync(script, frames, context, delivered, buffer, replies)
  /\ statu # "CONNECTED" => eof \/ left = 0 \/ FinalSeen(script, replies)
-----------------------------------------------------------------------------
(* A request of a script has lines, and only the first of them may be      *)
(* empty.                                                                  *)
LEMMA RequestOf ==
  ASSUME NEW s \in Scripts, NEW k \in 0 .. Len(s) - 1
  PROVE  /\ s[k + 1] \in Message /\ Len(s[k + 1].lines) \in Nat \ {0}
         /\ \A i \in 1 .. Len(s[k + 1].lines) : s[k + 1].lines[i] \in Seq(Text)
         /\ \A i \in 2 .. Len(s[k + 1].lines) : s[k + 1].lines[i] # <<>>
<1>1. s \in Seq(Message) /\ k + 1 \in DOMAIN s
  BY WiresType
<1>2. s[k + 1] \in Message /\ s[k + 1].lines \in Seq(Seq(Text))
  BY <1>1, WiresType, EndedType
<1>3. /\ s[k + 1].lines # <<>>
      /\ \A i \in 2 .. Len(s[k + 1].lines) : s[k + 1].lines[i] # <<>>
  BY <1>1, ScriptsAssumption
<1> DEFINE l == s[k + 1].lines
<1> HIDE DEF l
<1>4. l \in Seq(Seq(Text)) /\ l # <<>>
  BY <1>2, <1>3 DEF l
<1>5. Len(l) \in Nat \ {0} /\ \A i \in 1 .. Len(l) : l[i] \in Seq(Text)
  BY <1>4
<1> QED
  BY <1>2, <1>3, <1>5 DEF l

(* The line that follows the first m, the empty line in the end. *)
NextLine(r, m) == IF m < Len(r.lines) THEN r.lines[m + 1] ELSE <<>>

(* The place of that line on the wire. *)
LEMMA NextLineParts ==
  ASSUME NEW r \in Message, NEW m \in 0 .. Len(r.lines)
  PROVE  /\ NextLine(r, m) \in Seq(Text) /\ Offset(r, m) \in Nat
         /\ \A p \in 1 .. Len(NextLine(r, m)) :
              Wire(r)[Offset(r, m) + p] = NextLine(r, m)[p]
         /\ Wire(r)[Offset(r, m) + Len(NextLine(r, m)) + 1] = NewLine
         /\ Offset(r, m) + Len(NextLine(r, m)) + 1 <= Len(Wire(r))
<1> DEFINE n == Len(r.lines)
<1>1. r.lines \in Seq(Seq(Text)) /\ r.body \in Seq(Symbol) /\ n \in Nat
  BY EndedType
<1>2. Offset(r, m) \in Nat
  BY WireParts
<1>3. CASE m = n
  <2>1. NextLine(r, m) = <<>>
    BY <1>1, <1>3 DEF NextLine
  <2>2. Wire(r)[Offset(r, m) + 1] = NewLine /\ Len(Wire(r)) = Offset(r, m) + 1 + Len(r.body)
    BY <1>3, WireParts
  <2>3. <<>> \in Seq(Text) /\ Len(<<>>) = 0 /\ Len(r.body) \in Nat
    BY <1>1
  <2> HIDE DEF n
  <2> QED
    BY <1>2, <2>1, <2>2, <2>3
<1>4. CASE m # n
  <2> DEFINE l == r.lines[m + 1]
  <2>1. m \in 0 .. n - 1 /\ l \in Seq(Text) /\ NextLine(r, m) = l
    BY <1>1, <1>4 DEF NextLine
  <2>2. /\ Offset(r, m + 1) = Offset(r, m) + Len(l) + 1
        /\ \A p \in 1 .. Len(l) : Wire(r)[Offset(r, m) + p] = l[p]
        /\ Wire(r)[Offset(r, m + 1)] = NewLine
        /\ Offset(r, m + 1) <= Offset(r, n)
        /\ Len(Wire(r)) = Offset(r, n) + 1 + Len(r.body)
    BY <2>1, WireParts
  <2>3. Len(r.body) \in Nat /\ Offset(r, n) \in Nat /\ Len(l) \in Nat
    <3>1. n \in 0 .. Len(r.lines)
      BY <1>1
    <3>2. Offset(r, n) \in Nat
      BY <3>1, WireParts
    <3> QED
      BY <1>1, <2>1, <3>2
  <2> HIDE DEF l, n
  <2> QED
    BY <1>2, <2>1, <2>2, <2>3
<1> QED
  BY <1>3, <1>4

(* The buffer begins behind the first m lines of the request k + 1; what   *)
(* GetLineAndPop is to return then, where l is the next line.              *)
ArrivesAt(s, k, m, buf) ==
  \A p \in 1 .. Len(buf) : buf[p] = InputOf(s)[Start(s, k) + Offset(s[k + 1], m) + p]
Arrived(s, k, m, buf, l) ==
  /\ l \in Seq(Text)
  /\ Len(buf) <= Len(l) => LineLength(buf) = 0 /\ Line(buf) = <<>>
  /\ Len(buf) > Len(l) => /\ LineLength(buf) = Len(l) + 1 /\ Len(Line(buf)) = Len(l) + 1
                          /\ Line(buf) # <<>>
                          /\ \A p \in 1 .. Len(l) : Line(buf)[p] = l[p]
                          /\ Line(buf)[Len(l) + 1] = NewLine
  /\ Start(s, k) + Offset(s[k + 1], m) + Len(l) + 1 <= Start(s, k + 1)

(* GetLineAndPop returns the request's next line, or nothing yet. *)
LEMMA LineArrives ==
  ASSUME NEW s \in Scripts, NEW k \in 0 .. Len(s) - 1, NEW m \in 0 .. Len(s[k + 1].lines),
         NEW buf \in Seq(Symbol), NEW l, l = NextLine(s[k + 1], m), ArrivesAt(s, k, m, buf)
  PROVE  Arrived(s, k, m, buf, l)
<1> USE DEF ArrivesAt, Arrived
<1> DEFINE r == s[k + 1]
           b == Start(s, k)
           o == Offset(r, m)
           w == Wire(r)
<1>1. r \in Message /\ m \in 0 .. Len(r.lines)
  BY RequestOf
<1>2. /\ l \in Seq(Text) /\ o \in Nat
      /\ \A p \in 1 .. Len(l) : w[o + p] = l[p]
      /\ w[o + Len(l) + 1] = NewLine
      /\ o + Len(l) + 1 <= Len(w)
  <2> HIDE DEF r
  <2> QED
    BY <1>1, NextLineParts DEF r
<1>3. k \in 0 .. Len(s) /\ k + 1 \in 0 .. Len(s)
  BY WiresType
<1>4. /\ b \in Nat /\ Start(s, k + 1) = b + Len(w) /\ Start(s, k + 1) \in Nat
      /\ \A p \in 1 .. Len(w) : InputOf(s)[b + p] = w[p]
  BY <1>3, InputParts
<1>5. Len(w) \in Nat
  BY <1>1, WireParts
<1>6. \A p \in 1 .. Len(buf) : buf[p] = InputOf(s)[b + o + p]
  OBVIOUS
<1> HIDE DEF r, b, o, w
<1>7. Len(l) \in Nat /\ Len(buf) \in Nat /\ \A p \in 1 .. Len(l) : l[p] \in Text
  BY <1>2
<1>8. \A p \in 1 .. Len(buf) : p <= Len(l) => buf[p] = l[p] /\ buf[p] # NewLine
  <2> TAKE p \in 1 .. Len(buf)
  <2> HAVE p <= Len(l)
  <2>1. p \in 1 .. Len(l) /\ o + p \in 1 .. Len(w) /\ b + (o + p) = b + o + p
    BY <1>2, <1>4, <1>5, <1>7
  <2>2. buf[p] = w[o + p] /\ w[o + p] = l[p]
    <3>1. buf[p] = InputOf(s)[b + (o + p)]
      BY <1>6, <2>1
    <3>2. InputOf(s)[b + (o + p)] = w[o + p]
      BY <1>4, <2>1
    <3> QED
      BY <1>2, <2>1, <3>1, <3>2
  <2>3. l[p] \in Text
    BY <1>7, <2>1
  <2> QED
    BY <2>2, <2>3, SymbolType
<1>9. Len(buf) > Len(l) => buf[Len(l) + 1] = NewLine
  <2> SUFFICES ASSUME Len(buf) > Len(l) PROVE buf[Len(l) + 1] = NewLine
    OBVIOUS
  <2>1. /\ Len(l) + 1 \in 1 .. Len(buf) /\ o + Len(l) + 1 \in 1 .. Len(w)
        /\ b + o + (Len(l) + 1) = b + (o + Len(l) + 1)
    <3>1. Len(l) \in Nat /\ Len(buf) \in Nat /\ Len(w) \in Nat /\ o \in Nat /\ b \in Nat
      BY <1>2, <1>4, <1>5, <1>7
    <3>2. o + Len(l) + 1 <= Len(w)
      BY <1>2
    <3> QED
      BY <3>1, <3>2
  <2>2. buf[Len(l) + 1] = InputOf(s)[b + (o + Len(l) + 1)]
    BY <1>6, <2>1
  <2>3. InputOf(s)[b + (o + Len(l) + 1)] = w[o + Len(l) + 1]
    BY <1>4, <2>1
  <2> QED
    BY <1>2, <2>2, <2>3
<1>10. /\ Len(buf) <= Len(l) => LineLength(buf) = 0 /\ Line(buf) = <<>>
       /\ Len(buf) > Len(l) => /\ LineLength(buf) = Len(l) + 1 /\ Len(Line(buf)) = Len(l) + 1
                               /\ Line(buf) # <<>>
                               /\ \A p \in 1 .. Len(l) + 1 : Line(buf)[p] = buf[p]
  <2> DEFINE n == Len(l)
  <2>1. n \in Nat /\ \A p \in 1 .. Len(buf) : p <= n => buf[p] # NewLine
    BY <1>7, <1>8
  <2>2. Len(buf) > n => buf[n + 1] = NewLine
    BY <1>9
  <2> HIDE DEF n
  <2>3. /\ Len(buf) <= n => LineLength(buf) = 0 /\ Line(buf) = <<>>
        /\ Len(buf) > n => /\ LineLength(buf) = n + 1 /\ Len(Line(buf)) = n + 1
                           /\ Line(buf) # <<>>
                           /\ \A p \in 1 .. n + 1 : Line(buf)[p] = buf[p]
    BY <2>1, <2>2, LineOf
  <2> QED
    BY <2>3 DEF n
<1>11. Len(buf) > Len(l) => /\ \A p \in 1 .. Len(l) : Line(buf)[p] = l[p]
                            /\ Line(buf)[Len(l) + 1] = NewLine
  <2> SUFFICES ASSUME Len(buf) > Len(l)
               PROVE  /\ \A p \in 1 .. Len(l) : Line(buf)[p] = l[p]
                      /\ Line(buf)[Len(l) + 1] = NewLine
    OBVIOUS
  <2>1. \A p \in 1 .. Len(l) : p \in 1 .. Len(l) + 1 /\ p \in 1 .. Len(buf) /\ p <= Len(l)
    BY <1>7
  <2>2. Len(l) + 1 \in 1 .. Len(l) + 1
    BY <1>7
  <2> QED
    BY <1>8, <1>9, <1>10, <2>1, <2>2
<1>12. b + o + Len(l) + 1 <= Start(s, k + 1)
  BY <1>2, <1>4, <1>5, <1>7
<1> QED
  BY <1>2, <1>10, <1>11, <1>12 DEF b, o, r
-----------------------------------------------------------------------------
(* The parser's steps, on any input. *)
LEMMA RecvLineWorks ==
  ASSUME NEW c, ContextOK(c), c.recv = "line", NEW buf \in Seq(Symbol)
  PROVE  LET d == RecvHttpLine(c, buf)
         IN  /\ ContextOK(d) /\ d.recv \in {"line", "head", "error"}
             /\ d.recv = "line" => d = c
<1> DEFINE d == RecvHttpLine(c, buf)
<1>1. CASE TooLong(buf)
  <2>1. d = Failed(c, 414)
    BY <1>1 DEF RecvHttpLine
  <2>2. ContextOK(Failed(c, 414)) /\ Failed(c, 414).recv = "error"
    BY FailedOK
  <2> QED
    BY <2>1, <2>2
<1>2. CASE ~TooLong(buf) /\ Line(buf) = <<>>
  BY <1>2 DEF RecvHttpLine
<1>3. CASE ~TooLong(buf) /\ Line(buf) # <<>>
  <2> DEFINE l == Line(buf)
  <2>1. d = ParseHttpLine(c, l)
    BY <1>3 DEF RecvHttpLine
  <2>2. l \in Seq(Symbol)
    BY LineType
  <2> HIDE DEF l, d
  <2>3. CASE Len(l) = 2 /\ l[1].sym = "line"
    <3>1. ContextOK(ParseHttpLine(c, l)) /\ ParseHttpLine(c, l).recv = "head"
      <4>1. LineRead(c, l, ParseHttpLine(c, l))
        BY <2>2, <2>3, ParseLineWorks
      <4> QED
        BY <4>1 DEF LineRead
    <3> QED
      BY <2>1, <3>1 DEF d
  <2>4. CASE ~(Len(l) = 2 /\ l[1].sym = "line")
    <3>1. d = Failed(c, 400)
      BY <2>1, <2>4 DEF ParseHttpLine
    <3>2. ContextOK(Failed(c, 400)) /\ Failed(c, 400).recv = "error"
      BY FailedOK
    <3> QED
      BY <3>1, <3>2 DEF d
  <2> QED
    BY <2>3, <2>4 DEF d
<1> QED
  BY <1>1, <1>2, <1>3

(* RecvHttpHead either waits, or goes on, or refuses the request. *)
LEMMA RecvHeadWorks ==
  ASSUME NEW c, ContextOK(c), c.recv = "head", NEW buf \in Seq(Symbol)
  PROVE  LET d == RecvHttpHead(c, buf)
         IN  /\ ContextOK(d) /\ d.recv \in {"head", "body", "error"}
             /\ Line(buf) = <<>> /\ d.recv # "error" => d = c
<1> DEFINE d == RecvHttpHead(c, buf)
<1>0. c.recv # "error"
  OBVIOUS
<1>1. CASE TooLong(buf)
  <2>0. Line(buf) # <<NewLine>>
    <3> SUFFICES ASSUME Line(buf) = <<NewLine>> PROVE FALSE
      OBVIOUS
    <3>1. LineLength(buf) = 1 /\ Line(buf) # <<>>
      <4>1. Len(Line(buf)) = LineLength(buf)
        BY LineType
      <4> QED
        BY <4>1
    <3> QED
      BY <1>1, <3>1, LineAssumption DEF TooLong
  <2>1. d = Failed(c, 414)
    BY <1>1, <2>0 DEF RecvHttpHead
  <2>2. ContextOK(Failed(c, 414)) /\ Failed(c, 414).recv = "error"
    BY FailedOK
  <2> QED
    BY <2>1, <2>2
<1>2. CASE ~TooLong(buf) /\ Line(buf) = <<>>
  BY <1>2 DEF RecvHttpHead
<1>3. CASE ~TooLong(buf) /\ Line(buf) = <<NewLine>>
  <2>0. Line(buf) # <<>>
    BY <1>3
  <2>1. d = [c EXCEPT !.recv = "body"]
    BY <1>3, <2>0, Zenon DEF RecvHttpHead
  <2>2. c.request \in RequestType /\ c.request.body = 0 /\ c.resp = 200
    BY DEF ContextOK, ContextType
  <2>3. [c EXCEPT !.recv = "body"] = [resp |-> c.resp, recv |-> "body", request |-> c.request]
    BY DEF ContextOK, ContextType
  <2>4. ContentLength(c.request) >= 0
    BY <2>2, LengthType
  <2>5. ContextOK([resp |-> c.resp, recv |-> "body", request |-> c.request])
    BY <2>2, <2>4 DEF ContextOK, ContextType
  <2> QED
    BY <2>0, <2>1, <2>3, <2>5
<1>4. CASE ~TooLong(buf) /\ Line(buf) # <<>> /\ Line(buf) # <<NewLine>>
  <2> DEFINE l == Line(buf)
  <2>1. d = ParseHttpHead(c, l) /\ l # <<>>
    BY <1>4 DEF RecvHttpHead
  <2>2. l \in Seq(Symbol)
    BY LineType
  <2> HIDE DEF l, d
  <2>3. CASE Len(l) = 2 /\ l[1].sym \in {"connection", "length"}
    BY <2>1, <2>2, <2>3, ParseHeadWorks DEF d, l
  <2>4. CASE ~(Len(l) = 2 /\ l[1].sym \in {"connection", "length"})
    <3>1. d = Failed(c, 400)
      BY <2>1, <2>4 DEF ParseHttpHead
    <3>2. ContextOK(Failed(c, 400)) /\ Failed(c, 400).recv = "error"
      BY FailedOK
    <3> QED
      BY <3>1, <3>2, <2>1 DEF d, l
  <2> QED
    BY <2>3, <2>4 DEF d
<1> QED
  BY <1>1, <1>2, <1>3, <1>4
-----------------------------------------------------------------------------
(* When a line is faulty. *)
LEMMA FaultyAt ==
  ASSUME NEW r \in Message, NEW i \in 1 .. Len(r.lines)
  PROVE  i \in Faulty(r) <=>
           \/ Len(r.lines[i]) # 1
           \/ i = 1 /\ r.lines[i][1].sym # "line"
           \/ i # 1 /\ r.lines[i][1].sym \notin {"connection", "length"}
<1>1. i \in DOMAIN r.lines
  BY EndedType
<1> QED
  BY <1>1 DEF Faulty

(* What the one symbol of a line without fault is. *)
LEMMA GoodLine ==
  ASSUME NEW r \in Message, NEW i \in 1 .. Len(r.lines), i \notin Faulty(r)
  PROVE  /\ r.lines[i][1] \in Symbol
         /\ i = 1 => r.lines[i][1].sym = "line"
         /\ i # 1 => r.lines[i][1].sym \in {"connection", "length"}
<1> DEFINE l == r.lines[i]
<1>1. l \in Seq(Text)
  <2>1. r.lines \in Seq(Seq(Text))
    BY EndedType
  <2> QED
    BY <2>1
<1>2. /\ Len(l) = 1
      /\ i = 1 => l[1].sym = "line"
      /\ i # 1 => l[1].sym \in {"connection", "length"}
  BY FaultyAt
<1> HIDE DEF l
<1>3. \A j \in 1 .. Len(l) : l[j] \in Text
  BY <1>1
<1>4. l[1] \in Text
  BY <1>2, <1>3
<1> QED
  BY <1>2, <1>4, SymbolType DEF l

(* One more header is read. *)
LEMMA ReadNext ==
  ASSUME NEW r \in Message, NEW m \in 1 .. Len(r.lines) - 1, GoodUpTo(r, m),
         m + 1 \notin Faulty(r), NEW q \in RequestType, q.body = 0, ReadUpTo(q, r, m)
  PROVE  /\ GoodUpTo(r, m + 1)
         /\ ReadUpTo(SetHeader(q, r.lines[m + 1][1]), r, m + 1)
<1> DEFINE head == r.lines[m + 1][1]
           p == SetHeader(q, head)
           conns == Headers(r, m, "connection")
           lengths == Headers(r, m, "length")
<1>0. Len(r.lines) \in Nat /\ m + 1 \in 2 .. Len(r.lines)
  BY EndedType
<1>1. head \in Symbol /\ head.sym \in {"connection", "length"}
  BY <1>0, GoodLine
<1>2. /\ p.method = q.method /\ p.path = q.path /\ p.id = q.id
      /\ p.connection = IF head.sym = "connection" /\ q.connection = ""
                        THEN head.value ELSE q.connection
      /\ p.length = IF head.sym = "length" /\ q.length = NoLength
                    THEN head.n ELSE q.length
  <2> HIDE DEF head
  <2> QED
    BY <1>1, SetHeaderWorks
<1>3. GoodUpTo(r, m + 1)
  <2>1. \A i \in 1 .. m + 1 : i \in 1 .. m \/ i = m + 1
    OBVIOUS
  <2> QED
    BY <1>0, <2>1 DEF GoodUpTo
<1>4. /\ Headers(r, m + 1, "connection")
           = IF head.sym = "connection" THEN conns \cup {m + 1} ELSE conns
      /\ Headers(r, m + 1, "length")
           = IF head.sym = "length" THEN lengths \cup {m + 1} ELSE lengths
  <2>1. 2 .. m + 1 = 2 .. m \cup {m + 1} /\ m + 1 \notin 2 .. m
    OBVIOUS
  <2> QED
    BY <2>1 DEF Headers
<1>5. conns \subseteq 2 .. m /\ lengths \subseteq 2 .. m
  BY DEF Headers
<1>6. /\ \A i \in conns : r.lines[i][1].value # ""
      /\ \A i \in lengths : r.lines[i][1].n # NoLength
  <2>1. \A i \in 2 .. m : i \in 1 .. Len(r.lines) /\ i \notin Faulty(r)
    BY <1>0 DEF GoodUpTo
  <2>2. \A i \in 2 .. m : r.lines[i][1] \in Symbol
    BY <2>1, GoodLine
  <2>3. \A i \in conns : r.lines[i][1] \in Symbol /\ r.lines[i][1].sym = "connection"
    BY <2>2 DEF Headers
  <2>4. \A i \in lengths : r.lines[i][1] \in Symbol /\ r.lines[i][1].sym = "length"
    BY <2>2 DEF Headers
  <2>5. \A i \in conns : r.lines[i][1].value # ""
    BY <2>3, SymbolKinds
  <2>6. \A i \in lengths : r.lines[i][1].n \in Nat
    BY <2>4, SymbolKinds
  <2>7. \A n \in Nat : n # NoLength
    BY DEF NoLength
  <2> HIDE DEF conns, lengths
  <2> QED
    BY <2>5, <2>6, <2>7
<1>7. /\ IF conns = {} THEN q.connection = ""
         ELSE \E i \in conns : (\A j \in conns : i <= j) /\ q.connection = r.lines[i][1].value
      /\ IF lengths = {} THEN q.length = NoLength
         ELSE \E i \in lengths : (\A j \in lengths : i <= j) /\ q.length = r.lines[i][1].n
  <2>1. IF conns = {} THEN q.connection = ""
        ELSE \E i \in conns : (\A j \in conns : i <= j) /\ q.connection = r.lines[i][1].value
    BY DEF ReadUpTo
  <2>2. IF lengths = {} THEN q.length = NoLength
        ELSE \E i \in lengths : (\A j \in lengths : i <= j) /\ q.length = r.lines[i][1].n
    BY DEF ReadUpTo
  <2> QED
    BY <2>1, <2>2
<1>8. /\ q.id = r.lines[1][1].id /\ q.method = r.lines[1][1].method
      /\ q.path = r.lines[1][1].path
  <2>1. m # 0 /\ m > 0
    OBVIOUS
  <2> QED
    BY <2>1 DEF ReadUpTo
<1> HIDE DEF p, conns, lengths
<1>9. LET I == Headers(r, m + 1, "connection")
      IN  IF I = {} THEN p.connection = ""
          ELSE \E i \in I : (\A j \in I : i <= j) /\ p.connection = r.lines[i][1].value
  <2>1. CASE conns = {} /\ head.sym # "connection"
    BY <1>2, <1>4, <1>7, <2>1
  <2>4. CASE conns = {} /\ head.sym = "connection"
    <3>1. Headers(r, m + 1, "connection") = {m + 1} /\ m + 1 <= m + 1
      BY <1>4, <2>4
    <3>2. p.connection = r.lines[m + 1][1].value
      BY <1>2, <1>7, <2>4
    <3> QED
      BY <3>1, <3>2
  <2>2. CASE conns # {}
    <3>1. PICK i \in conns : (\A j \in conns : i <= j) /\ q.connection = r.lines[i][1].value
      BY <1>7, <2>2
    <3>2. p.connection = r.lines[i][1].value
      BY <1>2, <1>6, <3>1
    <3>3. i <= m + 1
      BY <1>5
    <3>4. i \in Headers(r, m + 1, "connection")
      BY <1>4
    <3>5. \A j \in Headers(r, m + 1, "connection") : i <= j
      BY <1>4, <3>1, <3>3
    <3> QED
      BY <3>2, <3>4, <3>5
  <2> QED
    BY <2>1, <2>2, <2>4
<1>10. LET I == Headers(r, m + 1, "length")
       IN  IF I = {} THEN p.length = NoLength
           ELSE \E i \in I : (\A j \in I : i <= j) /\ p.length = r.lines[i][1].n
  <2>1. CASE lengths = {} /\ head.sym # "length"
    BY <1>2, <1>4, <1>7, <2>1
  <2>4. CASE lengths = {} /\ head.sym = "length"
    <3>1. Headers(r, m + 1, "length") = {m + 1} /\ m + 1 <= m + 1
      BY <1>4, <2>4
    <3>2. p.length = r.lines[m + 1][1].n
      BY <1>2, <1>7, <2>4
    <3> QED
      BY <3>1, <3>2
  <2>2. CASE lengths # {}
    <3>1. PICK i \in lengths : (\A j \in lengths : i <= j) /\ q.length = r.lines[i][1].n
      BY <1>7, <2>2
    <3>2. p.length = r.lines[i][1].n
      BY <1>2, <1>6, <3>1
    <3>3. i <= m + 1
      BY <1>5
    <3>4. i \in Headers(r, m + 1, "length")
      BY <1>4
    <3>5. \A j \in Headers(r, m + 1, "length") : i <= j
      BY <1>4, <3>1, <3>3
    <3> QED
      BY <3>2, <3>4, <3>5
  <2> QED
    BY <2>1, <2>2, <2>4
<1>11. m + 1 # 0
  OBVIOUS
<1>12. ReadUpTo(p, r, m + 1)
  BY <1>2, <1>8, <1>9, <1>10, <1>11 DEF ReadUpTo
<1> QED
  BY <1>3, <1>12 DEF p
-----------------------------------------------------------------------------
(* When nothing has been read the request is the one ReSet leaves. *)
LEMMA NothingRead ==
  ASSUME NEW r \in Message PROVE GoodUpTo(r, 0) /\ ReadUpTo(NoRequest, r, 0)
<1>1. Headers(r, 0, "connection") = {} /\ Headers(r, 0, "length") = {}
  BY DEF Headers
<1>2. NoRequest.id = 0 /\ NoRequest.connection = "" /\ NoRequest.length = NoLength
  BY DEF NoRequest
<1>3. GoodUpTo(r, 0)
  BY EndedType DEF GoodUpTo
<1>4. ~(0 > 0)
  OBVIOUS
<1> QED
  BY <1>1, <1>2, <1>3, <1>4, Zenon DEF ReadUpTo

(* The limit on a line, against the line as it was sent. *)
LEMMA TooLongLine ==
  ASSUME NEW buf \in Seq(Symbol), NEW l \in Seq(Text),
         Len(buf) <= Len(l) => Line(buf) = <<>>,
         Len(buf) > Len(l) => LineLength(buf) = Len(l) + 1 /\ Line(buf) # <<>>
  PROVE  /\ TooLong(buf) => Len(l) >= MaxLine /\ Len(l) # 1
         /\ ~TooLong(buf) /\ Line(buf) # <<>> => Len(buf) > Len(l) /\ Len(l) < MaxLine
         /\ Line(buf) = <<>> => Len(buf) <= Len(l)
<1> DEFINE n == Len(l)
           b == Len(buf)
<1>1. n \in Nat /\ b \in Nat /\ MaxLine \in Nat /\ MaxLine >= 2
  BY LineAssumption
<1>2. b <= n => Line(buf) = <<>>
  OBVIOUS
<1>3. b > n => LineLength(buf) = n + 1 /\ Line(buf) # <<>>
  OBVIOUS
<1>4. Line(buf) = <<>> => (TooLong(buf) <=> b > MaxLine)
  BY DEF TooLong
<1>5. Line(buf) # <<>> => (TooLong(buf) <=> LineLength(buf) > MaxLine)
  BY DEF TooLong
<1> HIDE DEF n, b
<1>6. /\ TooLong(buf) => n >= MaxLine /\ n # 1
      /\ ~TooLong(buf) /\ Line(buf) # <<>> => b > n /\ n < MaxLine
      /\ Line(buf) = <<>> => b <= n
  BY <1>1, <1>2, <1>3, <1>4, <1>5
<1> QED
  BY <1>6 DEF n, b

(* A request is refused at its first faulty line. *)
LEMMA FailedRefuses ==
  ASSUME NEW r \in Message, NEW m \in 0 .. Len(r.lines) - 1, GoodUpTo(r, m),
         m + 1 \in Faulty(r), NEW c, ContextOK(c), c.recv \in {"line", "head"},
         ReadUpTo(c.request, r, m), NEW status \in {400, 414},
         status = IF Len(r.lines[m + 1]) >= MaxLine THEN 414 ELSE 400
  PROVE  Refused(Failed(c, status), r)
<1>1. /\ Failed(c, status).recv = "error" /\ Failed(c, status).resp = status
      /\ Failed(c, status).request = c.request
  BY FailedOK
<1> QED
  BY <1>1 DEF Refused

(* RecvHttpLine at the beginning of a request. *)
LEMMA LineStep ==
  ASSUME NEW s \in Scripts, NEW k \in 0 .. Len(s) - 1, NEW buf \in Seq(Symbol),
         \A p \in 1 .. Len(buf) : buf[p] = InputOf(s)[Start(s, k) + p]
  PROVE  LET d == RecvHttpLine(Fresh, buf)
         IN  \/ /\ d = Fresh /\ LineLength(buf) = 0
                /\ Start(s, k) + Len(buf) < Start(s, k + 1)
             \/ InHead(d, s[k + 1], LineLength(buf))
             \/ Refused(d, s[k + 1])
<1> DEFINE r == s[k + 1]
           l == NextLine(r, 0)
           d == RecvHttpLine(Fresh, buf)
<1>1. r \in Message /\ Len(r.lines) \in Nat \ {0} /\ l = r.lines[1] /\ r.lines[1] \in Seq(Text)
  BY RequestOf DEF NextLine
<1>2. 0 \in 0 .. Len(r.lines) /\ Offset(r, 0) = 0 /\ Start(s, k) \in Nat /\ Start(s, k + 1) \in Nat
  <2>1. k \in 0 .. Len(s) /\ k + 1 \in 0 .. Len(s)
    BY WiresType
  <2> QED
    BY <1>1, <2>1, WireParts, InputParts
<1>3. /\ Len(buf) <= Len(l) => LineLength(buf) = 0 /\ Line(buf) = <<>>
      /\ Len(buf) > Len(l) => /\ LineLength(buf) = Len(l) + 1 /\ Len(Line(buf)) = Len(l) + 1
                              /\ Line(buf) # <<>>
                              /\ \A p \in 1 .. Len(l) : Line(buf)[p] = l[p]
      /\ Start(s, k) + Len(l) + 1 <= Start(s, k + 1)
  <2>1. \A p \in 1 .. Len(buf) : buf[p] = InputOf(s)[Start(s, k) + Offset(r, 0) + p]
    BY <1>2
  <2>2. /\ Len(buf) <= Len(l) => LineLength(buf) = 0 /\ Line(buf) = <<>>
        /\ Len(buf) > Len(l) => /\ LineLength(buf) = Len(l) + 1 /\ Len(Line(buf)) = Len(l) + 1
                                /\ Line(buf) # <<>>
                                /\ \A p \in 1 .. Len(l) : Line(buf)[p] = l[p]
        /\ Start(s, k) + Offset(r, 0) + Len(l) + 1 <= Start(s, k + 1)
    <3>1. 0 \in 0 .. Len(s[k + 1].lines) /\ ArrivesAt(s, k, 0, buf)
      BY <1>2, <2>1 DEF ArrivesAt
    <3>2. l = NextLine(s[k + 1], 0)
      OBVIOUS
    <3> HIDE DEF l
    <3>3. Arrived(s, k, 0, buf, l)
      BY <3>1, <3>2, LineArrives
    <3> QED
      BY <3>3 DEF Arrived
  <2> QED
    BY <1>2, <2>2
<1>4. /\ TooLong(buf) => Len(l) >= MaxLine /\ Len(l) # 1
      /\ ~TooLong(buf) /\ Line(buf) # <<>> => Len(buf) > Len(l) /\ Len(l) < MaxLine
      /\ Line(buf) = <<>> => Len(buf) <= Len(l)
  <2>1. l \in Seq(Text)
    BY <1>1
  <2> HIDE DEF l
  <2> QED
    BY <1>3, <2>1, TooLongLine
<1>5. GoodUpTo(r, 0) /\ ReadUpTo(NoRequest, r, 0)
  BY <1>1, NothingRead
<1>6. /\ ContextOK(Fresh) /\ Fresh.recv = "line" /\ Fresh.request = NoRequest
      /\ 0 \in 0 .. Len(r.lines) - 1 /\ 0 + 1 = 1 /\ 1 \in 1 .. Len(r.lines)
  BY <1>1, FreshOK DEF Fresh
<1>7. 1 \in Faulty(r) <=> Len(l) # 1 \/ l[1].sym # "line"
  BY <1>1, <1>6, FaultyAt
<1> HIDE DEF l, r
<1>8. CASE TooLong(buf)
  <2>1. d = Failed(Fresh, 414)
    BY <1>8 DEF RecvHttpLine
  <2>2. Len(r.lines[1]) >= MaxLine /\ 1 \in Faulty(r)
    BY <1>1, <1>4, <1>7, <1>8
  <2>3. Refused(Failed(Fresh, 414), r)
    BY <1>1, <1>5, <1>6, <2>2, FailedRefuses
  <2> QED
    BY <2>1, <2>3 DEF r
<1>9. CASE ~TooLong(buf) /\ Line(buf) = <<>>
  <2>1. d = Fresh
    BY <1>9 DEF RecvHttpLine
  <2>2. Len(buf) <= Len(l) /\ LineLength(buf) = 0 /\ Len(buf) \in Nat /\ Len(l) \in Nat
    BY <1>1, <1>3, <1>4, <1>9
  <2>3. Start(s, k) + Len(buf) < Start(s, k + 1)
    BY <1>2, <1>3, <2>2
  <2> QED
    BY <2>1, <2>2, <2>3
<1>10. CASE ~TooLong(buf) /\ Line(buf) # <<>>
  <2> DEFINE line == Line(buf)
  <2>1. d = ParseHttpLine(Fresh, line)
    BY <1>10 DEF RecvHttpLine
  <2>2. /\ line \in Seq(Symbol) /\ Len(line) = Len(l) + 1 /\ LineLength(buf) = Len(l) + 1
        /\ \A p \in 1 .. Len(l) : line[p] = l[p]
        /\ Len(l) < MaxLine
    BY <1>3, <1>4, <1>10, LineType
  <2>3. Len(l) \in Nat
    BY <1>1
  <2> HIDE DEF line, d
  <2>4. Len(line) = 2 /\ line[1].sym = "line" <=> 1 \notin Faulty(r)
    <3>1. Len(line) = 2 <=> Len(l) = 1
      <4> DEFINE n == Len(l)
      <4>1. n \in Nat /\ Len(line) = n + 1
        BY <2>2, <2>3
      <4> HIDE DEF n
      <4>2. Len(line) = 2 <=> n = 1
        BY <4>1
      <4> QED
        BY <4>2 DEF n
    <3>2. Len(l) = 1 => line[1] = l[1]
      <4> SUFFICES ASSUME Len(l) = 1 PROVE line[1] = l[1]
        OBVIOUS
      <4>1. 1 \in 1 .. Len(l)
        OBVIOUS
      <4> QED
        BY <2>2, <4>1
    <3> QED
      BY <1>7, <3>1, <3>2
  <2>5. CASE 1 \notin Faulty(r)
    <3>1. Len(l) = 1 /\ line[1] = l[1] /\ Len(line) = 2 /\ line[1].sym = "line"
      BY <1>7, <2>2, <2>4, <2>5
    <3>2. /\ d.recv = "head"
          /\ d.request = [NoRequest EXCEPT !.method = line[1].method,
                                           !.path = line[1].path, !.id = line[1].id]
      <4>1. ContextOK(Fresh) /\ Fresh.recv = "line" /\ line \in Seq(Symbol)
        BY <1>6, <2>2
      <4>2. LineRead(Fresh, line, d)
        BY <2>1, <3>1, <4>1, ParseLineWorks
      <4> QED
        BY <1>6, <4>2 DEF LineRead
    <3>3. /\ d.request.method = r.lines[1][1].method /\ d.request.path = r.lines[1][1].path
          /\ d.request.id = r.lines[1][1].id /\ d.request.connection = ""
          /\ d.request.length = NoLength
      BY <1>1, <3>1, <3>2 DEF NoRequest
    <3>4. GoodUpTo(r, 1)
      BY <1>6, <2>5 DEF GoodUpTo
    <3>5. Headers(r, 1, "connection") = {} /\ Headers(r, 1, "length") = {}
      BY DEF Headers
    <3>6. ReadUpTo(d.request, r, 1)
      <4>1. 1 # 0
        OBVIOUS
      <4> QED
        BY <3>3, <3>5, <4>1, Zenon DEF ReadUpTo
    <3>7. Offset(r, 1) = LineLength(buf)
      <4>1. Offset(r, 0 + 1) = Offset(r, 0) + Len(r.lines[0 + 1]) + 1
        BY <1>1, <1>6, WireParts
      <4> QED
        BY <1>1, <1>2, <2>2, <2>3, <4>1
    <3> QED
      BY <1>6, <3>2, <3>4, <3>6, <3>7 DEF InHead, d, r
  <2>6. CASE 1 \in Faulty(r)
    <3>1. d = Failed(Fresh, 400)
      <4>1. ~(Len(line) = 2 /\ line[1].sym = "line")
        BY <2>4, <2>6
      <4> QED
        BY <2>1, <4>1 DEF ParseHttpLine
    <3>2. ~(Len(r.lines[1]) >= MaxLine)
      BY <1>1, <2>2, <2>3, LineAssumption
    <3>3. Refused(Failed(Fresh, 400), r)
      BY <1>1, <1>5, <1>6, <2>6, <3>2, FailedRefuses
    <3> QED
      BY <3>1, <3>3 DEF r, d
  <2> QED
    BY <2>5, <2>6
<1> QED
  BY <1>8, <1>9, <1>10

(* The context c is in the head of a request, behind the first m lines. *)
HeadAt(s, k, r, m, c, buf) ==
  /\ r = s[k + 1] /\ m \in 1 .. Len(r.lines) /\ ContextOK(c) /\ c.recv = "head"
  /\ GoodUpTo(r, m) /\ ReadUpTo(c.request, r, m)
  /\ \A p \in 1 .. Len(buf) : buf[p] = InputOf(s)[Start(s, k) + Offset(r, m) + p]

(* One turn of RecvHttpHead behind the first m lines. *)
LEMMA HeadStep ==
  ASSUME NEW s \in Scripts, NEW k \in 0 .. Len(s) - 1, NEW r, NEW m, NEW c,
         NEW buf \in Seq(Symbol), HeadAt(s, k, r, m, c, buf)
  PROVE  LET d == RecvHttpHead(c, buf)
             at == Offset(r, m) + LineLength(buf)
         IN  \/ /\ d = c /\ Line(buf) = <<>> /\ LineLength(buf) = 0
                /\ Start(s, k) + Offset(r, m) + Len(buf) < Start(s, k + 1)
             \/ Line(buf) # <<>> /\ InHead(d, r, at)
             \/ Line(buf) # <<>> /\ InBody(d, r, at)
             \/ Refused(d, r)
<1> USE DEF HeadAt
<1> DEFINE l == NextLine(r, m)
           d == RecvHttpHead(c, buf)
           M == Len(r.lines)
           o == Offset(r, m)
<1>1. /\ r \in Message /\ M \in Nat \ {0} /\ m \in 0 .. Len(r.lines) /\ m \in 1 .. M
      /\ \A i \in 1 .. M : r.lines[i] \in Seq(Text)
      /\ \A i \in 2 .. M : r.lines[i] # <<>>
  <2>1. /\ r \in Message /\ Len(r.lines) \in Nat \ {0}
        /\ \A i \in 1 .. Len(r.lines) : r.lines[i] \in Seq(Text)
        /\ \A i \in 2 .. Len(r.lines) : r.lines[i] # <<>>
    BY RequestOf
  <2>2. m \in 0 .. Len(r.lines)
    BY <2>1
  <2> QED
    BY <2>1, <2>2
<1>2. Start(s, k) \in Nat /\ Start(s, k + 1) \in Nat /\ o \in Nat
  <2>1. k \in 0 .. Len(s) /\ k + 1 \in 0 .. Len(s)
    BY WiresType
  <2> QED
    BY <1>1, <2>1, WireParts, InputParts
<1>3. /\ l \in Seq(Text)
      /\ Len(buf) <= Len(l) => LineLength(buf) = 0 /\ Line(buf) = <<>>
      /\ Len(buf) > Len(l) => /\ LineLength(buf) = Len(l) + 1 /\ Len(Line(buf)) = Len(l) + 1
                              /\ Line(buf) # <<>>
                              /\ \A p \in 1 .. Len(l) : Line(buf)[p] = l[p]
                              /\ Line(buf)[Len(l) + 1] = NewLine
      /\ Start(s, k) + o + Len(l) + 1 <= Start(s, k + 1)
  <2>1. m \in 0 .. Len(s[k + 1].lines) /\ ArrivesAt(s, k, m, buf) /\ l = NextLine(s[k + 1], m)
    BY <1>1 DEF ArrivesAt
  <2> HIDE DEF l
  <2>2. Arrived(s, k, m, buf, l)
    BY <2>1, LineArrives
  <2> QED
    BY <2>2 DEF Arrived
<1>4. /\ TooLong(buf) => Len(l) >= MaxLine /\ Len(l) # 1
      /\ ~TooLong(buf) /\ Line(buf) # <<>> => Len(buf) > Len(l) /\ Len(l) < MaxLine
      /\ Line(buf) = <<>> => Len(buf) <= Len(l)
  <2> HIDE DEF l
  <2> QED
    BY <1>3, TooLongLine
<1>5. m = M => Len(l) = 0
  BY DEF NextLine
<1>6. m # M => /\ m \in 1 .. M - 1 /\ m \in 0 .. M - 1 /\ l = r.lines[m + 1]
               /\ m + 1 \in 2 .. M /\ m + 1 \in 1 .. M
  BY <1>1 DEF NextLine
<1>7. m # M => /\ m + 1 \in Faulty(r) <=> Len(l) # 1 \/ l[1].sym \notin {"connection", "length"}
               /\ Len(l) \in Nat /\ Len(l) # 0
  <2> SUFFICES ASSUME m # M
               PROVE  /\ m + 1 \in Faulty(r)
                           <=> Len(l) # 1 \/ l[1].sym \notin {"connection", "length"}
                      /\ Len(l) \in Nat /\ Len(l) # 0
    OBVIOUS
  <2>1. m + 1 # 1 /\ l # <<>>
    BY <1>1, <1>6
  <2>2. m + 1 \in Faulty(r) <=> Len(l) # 1 \/ l[1].sym \notin {"connection", "length"}
    BY <1>1, <1>6, <2>1, FaultyAt
  <2> HIDE DEF l
  <2> QED
    BY <1>3, <2>1, <2>2
<1>8. MaxLine \in Nat /\ MaxLine >= 2
  BY LineAssumption
<1>9. c.request \in RequestType /\ c.request.body = 0 /\ c \in ContextType
  BY DEF ContextOK, ContextType
<1>10. Line(buf) = <<NewLine>> => Len(Line(buf)) = 1 /\ Line(buf) # <<>>
  OBVIOUS
<1> HIDE DEF l, M
<1>11. CASE TooLong(buf)
  <2>0. Line(buf) # <<NewLine>>
    BY <1>3, <1>4, <1>8, <1>10, <1>11 DEF TooLong
  <2>1. d = Failed(c, 414)
    BY <1>11, <2>0 DEF RecvHttpHead
  <2>2. m # M /\ Len(l) >= MaxLine /\ m + 1 \in Faulty(r)
    BY <1>4, <1>5, <1>7, <1>8, <1>11
  <2>3. m \in 0 .. Len(r.lines) - 1 /\ Len(r.lines[m + 1]) >= MaxLine
    BY <1>6, <2>2 DEF M
  <2>4. Refused(Failed(c, 414), r)
    BY <1>1, <2>2, <2>3, FailedRefuses
  <2> QED
    BY <2>1, <2>4
<1>12. CASE ~TooLong(buf) /\ Line(buf) = <<>>
  <2>0. Line(buf) # <<NewLine>>
    BY <1>10, <1>12
  <2>1. d = c
    BY <1>12, <2>0 DEF RecvHttpHead
  <2>2. Len(buf) <= Len(l) /\ LineLength(buf) = 0 /\ Len(buf) \in Nat /\ Len(l) \in Nat
    BY <1>3, <1>4, <1>12
  <2>3. Start(s, k) + o + Len(buf) < Start(s, k + 1)
    BY <1>2, <1>3, <2>2
  <2> QED
    BY <1>12, <2>1, <2>2, <2>3
<1>13. CASE ~TooLong(buf) /\ Line(buf) # <<>> /\ m = M
  <2>1. LineLength(buf) = 1 /\ Len(Line(buf)) = 1 /\ Line(buf)[1] = NewLine
    BY <1>3, <1>4, <1>5, <1>13
  <2>2. Line(buf) = <<NewLine>>
    <3>1. Line(buf) \in Seq(Symbol)
      BY LineType
    <3> QED
      BY <2>1, <3>1
  <2>3. d = [c EXCEPT !.recv = "body"]
    BY <1>13, <2>2, Zenon DEF RecvHttpHead
  <2>4. d.recv = "body" /\ d.request = c.request
    BY <1>9, <2>3 DEF ContextType
  <2>5. Faulty(r) = {}
    <3>1. Faulty(r) \subseteq 1 .. M
      <4>1. DOMAIN r.lines = 1 .. M
        BY <1>1, EndedType DEF M
      <4> QED
        BY <4>1 DEF Faulty
    <3> QED
      BY <1>13, <3>1 DEF GoodUpTo
  <2>6. o + LineLength(buf) = Offset(r, Len(r.lines)) + 1 + d.request.body
    BY <1>2, <1>9, <1>13, <2>1, <2>4 DEF M
  <2>7. ReadUpTo(d.request, r, Len(r.lines))
    BY <1>13, <2>4 DEF M
  <2>8. InBody(d, r, o + LineLength(buf))
    BY <2>4, <2>5, <2>6, <2>7 DEF InBody
  <2> QED
    BY <1>13, <2>8
<1>14. CASE ~TooLong(buf) /\ Line(buf) # <<>> /\ m # M
  <2> DEFINE line == Line(buf)
             n == Len(l)
  <2>1. /\ line \in Seq(Symbol) /\ Len(line) = n + 1 /\ LineLength(buf) = n + 1
        /\ \A p \in 1 .. n : line[p] = l[p]
        /\ n < MaxLine /\ n \in Nat /\ n # 0
    BY <1>3, <1>4, <1>7, <1>14, LineType
  <2>2. line # <<NewLine>>
    <3> HIDE DEF n
    <3> QED
      BY <1>10, <2>1
  <2>3. d = ParseHttpHead(c, line)
    BY <1>14, <2>2 DEF RecvHttpHead
  <2> HIDE DEF line, d, n
  <2>4. Len(line) = 2 /\ line[1].sym \in {"connection", "length"} <=> m + 1 \notin Faulty(r)
    <3>1. Len(line) = 2 <=> n = 1
      BY <2>1
    <3>2. n = 1 => line[1] = l[1]
      BY <2>1
    <3>3. m + 1 \in Faulty(r) <=> n # 1 \/ l[1].sym \notin {"connection", "length"}
      BY <1>7, <1>14 DEF n
    <3> QED
      BY <3>1, <3>2, <3>3
  <2>5. CASE m + 1 \notin Faulty(r)
    <3>1. n = 1 /\ line[1] = r.lines[m + 1][1]
      <4>1. Len(line) = 2
        BY <2>4, <2>5
      <4>2. n = 1
        <5>1. Len(line) = 2 <=> n = 1
          BY <2>1
        <5> QED
          BY <4>1, <5>1
      <4> QED
        BY <1>6, <1>14, <2>1, <4>2
    <3>2. d.recv = "head" /\ d.request = SetHeader(c.request, r.lines[m + 1][1])
      BY <2>1, <2>3, <2>4, <2>5, <3>1, ParseHeadWorks
    <3>3. GoodUpTo(r, m + 1) /\ ReadUpTo(SetHeader(c.request, r.lines[m + 1][1]), r, m + 1)
      <4>1. m \in 1 .. Len(r.lines) - 1
        BY <1>6, <1>14 DEF M
      <4> QED
        BY <1>1, <1>9, <2>5, <4>1, ReadNext
    <3>4. Offset(r, m + 1) = o + LineLength(buf) /\ m + 1 \in 1 .. Len(r.lines)
      <4>1. m \in 0 .. Len(r.lines) - 1 /\ m + 1 \in 1 .. Len(r.lines)
        BY <1>6, <1>14 DEF M
      <4>2. Offset(r, m + 1) = o + Len(r.lines[m + 1]) + 1
        BY <1>1, <4>1, WireParts
      <4>3. Len(r.lines[m + 1]) = n
        BY <1>6, <1>14 DEF n
      <4> QED
        BY <1>2, <2>1, <4>1, <4>2, <4>3
    <3>5. InHead(d, r, o + LineLength(buf))
      BY <3>2, <3>3, <3>4 DEF InHead
    <3> QED
      BY <1>14, <3>5 DEF d
  <2>6. CASE m + 1 \in Faulty(r)
    <3>1. d = Failed(c, 400)
      <4>1. ~(Len(line) = 2 /\ line[1].sym \in {"connection", "length"})
        BY <2>4, <2>6
      <4> QED
        BY <2>3, <4>1 DEF ParseHttpHead
    <3>2. m \in 0 .. Len(r.lines) - 1 /\ ~(Len(r.lines[m + 1]) >= MaxLine)
      <4>1. Len(r.lines[m + 1]) = n
        BY <1>6, <1>14 DEF n
      <4>2. ~(n >= MaxLine)
        BY <1>8, <2>1
      <4> QED
        BY <1>6, <1>14, <4>1, <4>2 DEF M
    <3>3. Refused(Failed(c, 400), r)
      BY <1>1, <2>6, <3>2, FailedRefuses
    <3> QED
      BY <3>1, <3>3 DEF d
  <2> QED
    BY <2>5, <2>6
<1> QED
  BY <1>11, <1>12, <1>13, <1>14

(* The body's length is the one the request says, and behind the body the  *)
(* next request begins.                                                    *)
LEMMA BodyLength ==
  ASSUME NEW s \in Scripts, NEW k \in 0 .. Len(s) - 1, NEW r, r = s[k + 1],
         Faulty(r) = {}, NEW q, ReadUpTo(q, r, Len(r.lines))
  PROVE  /\ ContentLength(q) = Len(r.body) /\ Len(r.body) \in Nat
         /\ Offset(r, Len(r.lines)) \in Nat
         /\ Start(s, k + 1) = Start(s, k) + Offset(r, Len(r.lines)) + 1 + Len(r.body)
<1>1. r \in Message /\ r.body \in Seq(Symbol) /\ Len(r.lines) \in 0 .. Len(r.lines)
  <2>1. r \in Message /\ Len(r.lines) \in Nat
    BY RequestOf
  <2> QED
    BY <2>1, EndedType
<1>2. Offset(r, Len(r.lines)) \in Nat
  BY <1>1, WireParts
<1>3. Start(s, k + 1) = Start(s, k) + Offset(r, Len(r.lines)) + 1 + Len(r.body)
  <2>1. k \in 0 .. Len(s) /\ k + 1 \in 0 .. Len(s)
    BY WiresType
  <2>2. Start(s, k) \in Nat /\ Start(s, k + 1) = Start(s, k) + Len(Wire(r))
    BY <2>1, InputParts
  <2>3. Len(Wire(r)) = Offset(r, Len(r.lines)) + 1 + Len(r.body) /\ Len(r.body) \in Nat
    BY <1>1, WireParts
  <2> DEFINE b == Len(r.body)
             w == Len(Wire(r))
  <2>4. b \in Nat /\ w = Offset(r, Len(r.lines)) + 1 + b /\ Start(s, k + 1) = Start(s, k) + w
    BY <2>2, <2>3
  <2> HIDE DEF b, w
  <2>5. Start(s, k + 1) = Start(s, k) + Offset(r, Len(r.lines)) + 1 + b
    BY <1>2, <2>2, <2>4
  <2> QED
    BY <2>5 DEF b
<1>4. Headers(r, Len(r.lines), "length") = Lengths(r)
  BY DEF Headers, Lengths
<1>5. /\ Lengths(r) = {} => r.body = <<>>
      /\ \A j \in Lengths(r) : \/ r.lines[j][1].n = Len(r.body)
                               \/ \E i \in Lengths(r) : i < j
  <2>1. k + 1 \in DOMAIN s
    BY WiresType
  <2> QED
    BY <2>1, ScriptsAssumption
<1>6. CASE Lengths(r) = {}
  <2>1. q.length = NoLength /\ r.body = <<>>
    BY <1>4, <1>5, <1>6 DEF ReadUpTo
  <2>2. ContentLength(q) = 0
    BY <2>1 DEF ContentLength
  <2> QED
    BY <1>1, <1>2, <1>3, <2>1, <2>2
<1>7. CASE Lengths(r) # {}
  <2>1. PICK i \in Lengths(r) : (\A j \in Lengths(r) : i <= j) /\ q.length = r.lines[i][1].n
    BY <1>4, <1>7 DEF ReadUpTo
  <2>2. \A j \in Lengths(r) : j \in Nat
    BY DEF Lengths
  <2>3. ~ \E j \in Lengths(r) : j < i
    BY <2>1, <2>2
  <2>4. q.length = Len(r.body)
    BY <1>5, <2>1, <2>3
  <2>5. ContentLength(q) = Len(r.body)
    BY <2>4 DEF ContentLength, NoLength
  <2> QED
    BY <1>1, <1>2, <1>3, <2>5
<1> QED
  BY <1>6, <1>7
-----------------------------------------------------------------------------
(* What a response may be, the one for an error included. *)
Responses == [statu : Nat, body : Word, connection : Word, redirect : BOOLEAN]

Table == Seq([paths : SUBSET STRING, makes : Response])

(* What the steps of Route make of a response is one again. *)
LEMMA ResponseTypes ==
  /\ \A n \in Nat : HttpResponse(n) \in Responses
  /\ Response \subseteq Responses
  /\ \A x \in Responses : /\ [x EXCEPT !.body = "file"] \in Responses
                          /\ [x EXCEPT !.body = "unread"] \in Responses
                          /\ [x EXCEPT !.body = "error"] \in Responses
                          /\ \A n \in Nat : [x EXCEPT !.statu = n] \in Responses
<1>1. \A n \in Nat : HttpResponse(n) \in Responses
  BY DEF HttpResponse, Responses, Word
<1>2. Response \subseteq Responses
  BY DEF Response, Responses, Word
<1>3. "file" \in Word /\ "unread" \in Word /\ "error" \in Word
  BY DEF Word
<1>4. \A x \in Responses : /\ [x EXCEPT !.body = "file"] \in Responses
                           /\ [x EXCEPT !.body = "unread"] \in Responses
                           /\ [x EXCEPT !.body = "error"] \in Responses
                           /\ \A n \in Nat : [x EXCEPT !.statu = n] \in Responses
  BY <1>3 DEF Responses
<1> QED
  BY <1>1, <1>2, <1>4

(* Each method but HEAD has a route table of its own. *)
LEMMA TableOf ==
  ASSUME NEW method \in {"GET", "POST", "PUT", "DELETE"}
  PROVE  Handlers[method] \in Table
  BY HandlersAssumption DEF Table

(* The first handler that matches is called, and 404 is the answer when    *)
(* none does.                                                              *)
LEMMA DispatchWorks ==
  ASSUME NEW handlers \in Table, NEW q, NEW rsp
  PROVE  IF \A i \in 1 .. Len(handlers) : q.path \notin handlers[i].paths
         THEN Dispatcher(q, handlers, rsp) = [rsp EXCEPT !.statu = 404]
         ELSE \E i \in 1 .. Len(handlers) :
                /\ q.path \in handlers[i].paths
                /\ \A j \in 1 .. i - 1 : q.path \notin handlers[j].paths
                /\ Dispatcher(q, handlers, rsp) = handlers[i].makes
<1> DEFINE I == {i \in 1 .. Len(handlers) : q.path \in handlers[i].paths}
           first == SelectInSeq(handlers, LAMBDA h : q.path \in h.paths)
<1>1. first = IF I # {} THEN CHOOSE x \in I : \A y \in I : x <= y ELSE 0
  BY Zenon DEF SelectInSeq, Min
<1>2. Dispatcher(q, handlers, rsp)
        = IF first = 0 THEN [rsp EXCEPT !.statu = 404] ELSE handlers[first].makes
  BY Zenon DEF Dispatcher
<1>3. I \subseteq Nat /\ 0 \notin I
  OBVIOUS
<1>4. CASE I = {}
  BY <1>1, <1>2, <1>4
<1>5. CASE I # {}
  <2> DEFINE J == I
  <2> HIDE DEF J
  <2>1. J # {} /\ J \subseteq Nat
    BY <1>3, <1>5 DEF J
  <2>2. \E x \in J : \A y \in J : x <= y
    BY <2>1, LeastElement
  <2>3. first \in I /\ \A y \in I : first <= y
    <3> HIDE DEF I, first
    <3> QED
      BY <1>1, <1>5, <2>2 DEF J
  <2> HIDE DEF first
  <2>4. first \in 1 .. Len(handlers) /\ q.path \in handlers[first].paths /\ first # 0
    BY <2>3
  <2>5. \A j \in 1 .. first - 1 : j \in 1 .. Len(handlers) /\ ~(first <= j)
    BY <2>4
  <2>6. \A j \in 1 .. first - 1 : q.path \notin handlers[j].paths
    BY <2>3, <2>5
  <2>7. Dispatcher(q, handlers, rsp) = handlers[first].makes
    BY <1>2, <2>4
  <2> QED
    BY <2>4, <2>6, <2>7
<1> QED
  BY <1>4, <1>5

(* What Dispatcher makes is a response. *)
LEMMA DispatchTypes ==
  ASSUME NEW handlers \in Table, NEW q, NEW rsp \in Responses
  PROVE  Dispatcher(q, handlers, rsp) \in Responses
<1>1. \A i \in 1 .. Len(handlers) : handlers[i].makes \in Responses
  <2> DEFINE S == [paths : SUBSET STRING, makes : Response]
  <2>1. handlers \in Seq(S)
    BY DEF Table
  <2> HIDE DEF S
  <2>2. \A i \in 1 .. Len(handlers) : handlers[i] \in S
    BY <2>1
  <2>3. \A h \in S : h.makes \in Response
    BY DEF S
  <2> QED
    BY <2>2, <2>3, ResponseTypes
<1>2. [rsp EXCEPT !.statu = 404] \in Responses
  BY DEF Responses
<1> QED
  BY <1>1, <1>2, DispatchWorks

(* What Route makes is a response. *)
LEMMA RouteTypes ==
  ASSUME NEW q, NEW rsp \in Responses
  PROVE  Route(q, rsp) \subseteq Responses
<1>1. CASE IsFileHandler(q)
  <2>1. Route(q, rsp) = FileHandler(rsp)
    BY <1>1 DEF Route, IsFileHandler
  <2> QED
    BY <2>1, ResponseTypes DEF FileHandler
<1>2. CASE ~IsFileHandler(q) /\ q.method \in {"GET", "HEAD"}
  <2>1. Route(q, rsp) = {Dispatcher(q, Handlers["GET"], rsp)}
    BY <1>2 DEF Route
  <2> QED
    BY <2>1, TableOf, DispatchTypes
<1>3. CASE q.method \in {"POST", "PUT", "DELETE"}
  <2>1. ~IsFileHandler(q) /\ q.method \notin {"GET", "HEAD"}
    BY <1>3 DEF IsFileHandler
  <2>2. Route(q, rsp) = {Dispatcher(q, Handlers[q.method], rsp)}
    BY <1>3, <2>1 DEF Route
  <2>3. Handlers[q.method] \in Table
    BY <1>3, TableOf
  <2> QED
    BY <2>2, <2>3, DispatchTypes
<1>4. CASE ~IsFileHandler(q) /\ q.method \notin {"GET", "HEAD", "POST", "PUT", "DELETE"}
  <2>1. Route(q, rsp) = {[rsp EXCEPT !.statu = 405]}
    BY <1>4 DEF Route
  <2>2. [rsp EXCEPT !.statu = 405] \in Responses
    BY DEF Responses
  <2> QED
    BY <2>1, <2>2
<1> QED
  BY <1>1, <1>2, <1>3, <1>4

(* What WriteReponse makes of a response is a reply. *)
LEMMA CompleteTypes ==
  ASSUME NEW q \in RequestType, NEW rsp \in Responses
  PROVE  Complete(q, rsp) \in Reply
<1>1. "close" \in Word /\ "keep-alive" \in Word
  BY DEF Word
<1>2. rsp.statu \in Nat /\ q.id \in Nat /\ rsp.body \in Word /\ rsp.connection \in Word
      /\ rsp.redirect \in BOOLEAN
  BY DEF Responses, RequestType
<1> DEFINE connection == IF rsp.connection # "" THEN rsp.connection
                         ELSE IF Close(q) THEN "close" ELSE "keep-alive"
           length == rsp.body # ""
<1>3. connection \in Word /\ length \in BOOLEAN
  BY <1>1, <1>2
<1>4. Complete(q, rsp) = [statu |-> rsp.statu, id |-> q.id, body |-> rsp.body,
                          connection |-> connection, length |-> length,
                          location |-> rsp.redirect]
  BY Zenon DEF Complete
<1> HIDE DEF connection, length
<1> QED
  BY <1>2, <1>3, <1>4 DEF Reply
-----------------------------------------------------------------------------
(* What the server makes of a request that is without fault. *)
LEMMA RouteMade ==
  ASSUME NEW r \in Message, Len(r.lines) \in Nat \ {0}, Faulty(r) = {},
         NEW q, q.method = r.lines[1][1].method, q.path = r.lines[1][1].path
  PROVE  Route(q, HttpResponse(200)) \subseteq Made(r)
<1> DEFINE text == r.lines[1][1]
           ok == HttpResponse(200)
           name == IF text.method = "HEAD" THEN "GET" ELSE text.method
           table == Handlers[name]
<1>1. text.method \in {"GET", "HEAD", "POST", "PUT", "DELETE"}
  <2>1. 1 \in 1 .. Len(r.lines) /\ 1 \notin Faulty(r)
    OBVIOUS
  <2> QED
    BY <2>1, GoodLine, SymbolKinds
<1>2. table \in Table
  <2>1. name \in {"GET", "POST", "PUT", "DELETE"}
    BY <1>1
  <2> HIDE DEF name
  <2> QED
    BY <2>1, TableOf
<1>3. CASE IsFileHandler(q)
  <2>1. text.method \in {"GET", "HEAD"} /\ text.path \in Files
    BY <1>3 DEF IsFileHandler
  <2>2. Made(r) = {ok, [ok EXCEPT !.body = "file"], [ok EXCEPT !.body = "unread"]}
    BY <2>1 DEF Made
  <2>3. Route(q, ok) = {ok, [ok EXCEPT !.body = "file"], [ok EXCEPT !.body = "unread"]}
    BY <1>3 DEF Route, FileHandler, IsFileHandler
  <2> QED
    BY <2>2, <2>3
<1>4. CASE ~IsFileHandler(q)
  <2>1. ~(text.method \in {"GET", "HEAD"} /\ text.path \in Files)
    BY <1>4 DEF IsFileHandler
  <2>2. Route(q, ok) = {Dispatcher(q, table, ok)}
    <3>1. CASE text.method \in {"GET", "HEAD"}
      BY <1>4, <3>1 DEF Route
    <3>2. CASE text.method \in {"POST", "PUT", "DELETE"}
      BY <1>4, <3>2 DEF Route
    <3> QED
      BY <1>1, <3>1, <3>2
  <2>3. Handler(text) = {table[i] : i \in {i \in DOMAIN table :
                           /\ text.path \in table[i].paths
                           /\ \A j \in 1 .. i - 1 : text.path \notin table[j].paths}}
    BY Zenon DEF Handler
  <2>4. Made(r) = IF Handler(text) = {} THEN {HttpResponse(404)}
                  ELSE {h.makes : h \in Handler(text)}
    BY <2>1 DEF Made
  <2>5. [ok EXCEPT !.statu = 404] = HttpResponse(404)
    <3> DEFINE b == ""
               x == ""
               y == FALSE
    <3> HIDE DEF b, x, y
    <3>1. [[statu |-> 200, body |-> b, connection |-> x, redirect |-> y] EXCEPT !.statu = 404]
            = [statu |-> 404, body |-> b, connection |-> x, redirect |-> y]
      BY SMT
    <3> QED
      BY <3>1, Zenon DEF HttpResponse, b, x, y
  <2> HIDE DEF table, ok, text
  <2>6. DOMAIN table = 1 .. Len(table) /\ q.path = text.path
    BY <1>2 DEF Table, text
  <2>7. CASE \A i \in 1 .. Len(table) : q.path \notin table[i].paths
    <3>1. Handler(text) = {}
      BY <2>3, <2>6, <2>7
    <3>2. Dispatcher(q, table, ok) = [ok EXCEPT !.statu = 404]
      BY <1>2, <2>7, DispatchWorks
    <3> QED
      BY <2>2, <2>4, <2>5, <3>1, <3>2 DEF ok
  <2>8. CASE ~ \A i \in 1 .. Len(table) : q.path \notin table[i].paths
    <3>1. PICK i \in 1 .. Len(table) :
            /\ q.path \in table[i].paths
            /\ \A j \in 1 .. i - 1 : q.path \notin table[j].paths
            /\ Dispatcher(q, table, ok) = table[i].makes
      BY <1>2, <2>8, DispatchWorks
    <3>2. table[i] \in Handler(text)
      BY <2>3, <2>6, <3>1
    <3> QED
      BY <2>2, <2>4, <3>1, <3>2 DEF ok
  <2> QED
    BY <2>7, <2>8
<1> QED
  BY <1>3, <1>4

(* The reply is right, whether all of the request was without fault or not *)
(* more than m lines.                                                      *)
LEMMA Answered ==
  ASSUME NEW r \in Message, NEW m \in 0 .. Len(r.lines), Good(r) = 1 .. m,
         GoodUpTo(r, m), NEW q, ReadUpTo(q, r, m), NEW rsp \in Made(r)
  PROVE  Complete(q, rsp) \in Answers(r)
<1> DEFINE headers == {i \in Good(r) : r.lines[i][1].sym = "connection"}
           kept == \E i \in headers : /\ \A j \in headers : i <= j
                                     /\ r.lines[i][1].value = "keep-alive"
           asked == IF kept THEN "keep-alive" ELSE "close"
           conn(x) == IF x.connection = "" THEN asked ELSE x.connection
           id == IF 1 \in Good(r) THEN r.lines[1][1].id ELSE 0
<1>1. Answers(r) = {[statu |-> x.statu, body |-> x.body, location |-> x.redirect,
                     length |-> x.body # "", id |-> id, connection |-> conn(x)] :
                       x \in Made(r)}
  BY Zenon DEF Answers
<1>2. q.id = id
  <2>1. 1 \in Good(r) <=> m # 0
    OBVIOUS
  <2> QED
    BY <2>1, Zenon DEF ReadUpTo
<1>3. headers = Headers(r, m, "connection")
  <2>1. \A i \in 1 .. m : i # 1 <=> i \in 2 .. m
    OBVIOUS
  <2>2. 1 \in 1 .. m => r.lines[1][1].sym # "connection"
    <3> SUFFICES ASSUME 1 \in 1 .. m PROVE r.lines[1][1].sym # "connection"
      OBVIOUS
    <3>1. 1 \in 1 .. Len(r.lines) /\ 1 \notin Faulty(r)
      BY DEF GoodUpTo
    <3> QED
      BY <3>1, GoodLine
  <2>3. 2 .. m \subseteq 1 .. m
    OBVIOUS
  <2> QED
    BY <2>1, <2>2, <2>3 DEF Headers
<1>4. kept <=> q.connection = "keep-alive"
  <2> HIDE DEF headers
  <2>1. CASE headers = {}
    BY <1>3, <2>1 DEF ReadUpTo
  <2>2. CASE headers # {}
    <3>1. PICK i \in headers : (\A j \in headers : i <= j) /\ q.connection = r.lines[i][1].value
      BY <1>3, <2>2 DEF ReadUpTo
    <3>2. headers \subseteq Nat
      BY <1>3 DEF Headers
    <3>3. \A j \in headers : (\A h \in headers : j <= h) => j = i
      BY <3>1, <3>2
    <3> QED
      BY <3>1, <3>3
  <2> QED
    BY <2>1, <2>2
<1> HIDE DEF kept, id
<1>5. conn(rsp) = IF rsp.connection # "" THEN rsp.connection
                  ELSE IF Close(q) THEN "close" ELSE "keep-alive"
  BY <1>4 DEF Close
<1> HIDE DEF conn
<1>6. Complete(q, rsp) = [statu |-> rsp.statu, id |-> id, body |-> rsp.body,
                          connection |-> conn(rsp), length |-> rsp.body # "",
                          location |-> rsp.redirect]
  BY <1>2, <1>5, Zenon DEF Complete
<1> QED
  BY <1>1, <1>6
-----------------------------------------------------------------------------
(* What is taken from the front of the buffer is consumed input. *)
IsRest(rest, buf, t) ==
  /\ rest \in Seq(Symbol) /\ t \in 0 .. Len(buf) /\ Len(rest) = Len(buf) - t
  /\ \A p \in 1 .. Len(rest) : rest[p] = buf[t + p]

(* After t symbols have been taken the rest still comes from the input. *)
LEMMA Consumed ==
  ASSUME NEW s, NEW d \in Nat, NEW buf \in Seq(Symbol), Len(buf) <= d, FromInput(s, d, buf),
         NEW t, NEW rest, IsRest(rest, buf, t)
  PROVE  /\ FromInput(s, d, rest) /\ Len(rest) <= d
         /\ d - Len(rest) = (d - Len(buf)) + t
<1> DEFINE n == Len(buf)
           m == Len(rest)
<1>1. n \in Nat /\ m \in Nat /\ m = n - t /\ t \in 0 .. n /\ n <= d
  BY DEF IsRest
<1>2. \A p \in 1 .. n : buf[p] = InputOf(s)[d - n + p]
  BY DEF FromInput
<1>3. \A p \in 1 .. m : rest[p] = buf[t + p]
  BY DEF IsRest
<1> HIDE DEF n, m
<1>4. \A p \in 1 .. m : t + p \in 1 .. n /\ d - n + (t + p) = d - m + p
  BY <1>1
<1>5. \A p \in 1 .. m : rest[p] = InputOf(s)[d - m + p]
  <2> TAKE p \in 1 .. m
  <2>1. t + p \in 1 .. n /\ d - n + (t + p) = d - m + p
    BY <1>4
  <2>2. buf[t + p] = InputOf(s)[d - n + (t + p)]
    BY <1>2, <2>1
  <2> QED
    BY <1>3, <2>1, <2>2
<1>6. m <= d /\ d - m = (d - n) + t
  BY <1>1
<1> QED
  BY <1>5, <1>6 DEF FromInput, n, m

(* Each request takes some of the input, and any of its lines ends within  *)
(* it.                                                                     *)
LEMMA Steps ==
  ASSUME NEW s \in Scripts
  PROVE  /\ Len(s) \in Nat
         /\ \A k \in 0 .. Len(s) : Start(s, k) \in Nat
         /\ \A k \in 0 .. Len(s) - 1 :
              /\ k \in 0 .. Len(s) /\ k + 1 \in 0 .. Len(s)
              /\ Start(s, k) < Start(s, k + 1)
              /\ \A m \in 0 .. Len(s[k + 1].lines) :
                   /\ Offset(s[k + 1], m) \in Nat
                   /\ Start(s, k) + Offset(s[k + 1], m) < Start(s, k + 1)
<1>1. Len(s) \in Nat
  BY WiresType
<1>2. \A k \in 0 .. Len(s) : Start(s, k) \in Nat
  BY InputParts
<1>3. ASSUME NEW k \in 0 .. Len(s) - 1, NEW m \in 0 .. Len(s[k + 1].lines)
      PROVE  /\ k \in 0 .. Len(s) /\ k + 1 \in 0 .. Len(s)
             /\ Offset(s[k + 1], m) \in Nat
             /\ Start(s, k) + Offset(s[k + 1], m) < Start(s, k + 1)
  <2> DEFINE r == s[k + 1]
  <2>1. k \in 0 .. Len(s) /\ k + 1 \in 0 .. Len(s) /\ r \in Message
    BY <1>1, RequestOf
  <2>2. Start(s, k + 1) = Start(s, k) + Len(Wire(r)) /\ Start(s, k) \in Nat
    BY <2>1, InputParts
  <2> HIDE DEF r
  <2>3. r = s[k + 1] /\ m \in 0 .. Len(r.lines)
    BY DEF r
  <2> DEFINE n == Len(NextLine(r, m))
             w == Len(Wire(r))
  <2>4. Offset(r, m) \in Nat /\ n \in Nat /\ w \in Nat /\ Offset(r, m) + n + 1 <= w
    BY <2>1, <2>3, NextLineParts, WireParts
  <2>5. Start(s, k + 1) = Start(s, k) + w
    BY <2>2
  <2> HIDE DEF n, w
  <2>6. Start(s, k) + Offset(r, m) < Start(s, k + 1)
    BY <2>2, <2>4, <2>5
  <2> QED
    BY <2>1, <2>4, <2>6 DEF r
<1>4. ASSUME NEW k \in 0 .. Len(s) - 1
      PROVE  Start(s, k) < Start(s, k + 1)
  <2>0. Len(s[k + 1].lines) \in Nat \ {0} /\ s[k + 1] \in Message
    BY RequestOf
  <2>1. 0 \in 0 .. Len(s[k + 1].lines) /\ s[k + 1] \in Message
    BY <2>0
  <2>2. Offset(s[k + 1], 0) = 0
    BY <2>1, WireParts
  <2> QED
    BY <1>1, <1>2, <1>3, <2>1, <2>2
<1> QED
  BY <1>1, <1>2, <1>3, <1>4

(* Between requests: the context is fresh, and the parser is at a          *)
(* request's begin.                                                        *)
LEMMA AtLine ==
  ASSUME NEW s \in Scripts, NEW c, NEW at \in Nat, NEW k \in Nat, Position(s, c, at, k),
         c.recv = "line"
  PROVE  k \in 0 .. Len(s) /\ c = Fresh /\ at = Start(s, k)
  BY DEF Position, InHead, InBody, Refused

(* Within a request: the context tells how far it has been read. *)
LEMMA Within ==
  ASSUME NEW s \in Scripts, NEW c, NEW at \in Nat, NEW k \in Nat, Position(s, c, at, k),
         c.recv # "line"
  PROVE  /\ k \in 0 .. Len(s) - 1
         /\ c.recv = "head" => InHead(c, s[k + 1], at - Start(s, k))
         /\ c.recv \in {"body", "over"} => InBody(c, s[k + 1], at - Start(s, k))
         /\ c.recv = "error" => Refused(c, s[k + 1])
  BY DEF Position, InHead, InBody, Refused, Fresh

(* Where nothing is left to read, no request that has not been answered is *)
(* complete.                                                               *)
LEMMA PositionWaits ==
  ASSUME NEW s \in Scripts, NEW c, ContextOK(c), NEW d \in Nat, NEW k \in Nat,
         Position(s, c, d, k), c.recv \in {"line", "head", "body"}, BodyMissing(c)
  PROVE  NoMore(s, d, k)
<1> SUFFICES ASSUME k < Len(s) PROVE d < Start(s, k + 1)
  BY DEF NoMore
<1>1. k \in 0 .. Len(s) - 1 /\ Start(s, k) \in Nat /\ Start(s, k) < Start(s, k + 1)
  <2>1. k \in 0 .. Len(s) - 1
    BY Steps
  <2> QED
    BY <2>1, Steps
<1>2. CASE c.recv = "line"
  BY <1>1, <1>2, AtLine
<1>3. CASE c.recv = "head"
  <2>1. InHead(c, s[k + 1], d - Start(s, k))
    BY <1>3, Within
  <2>2. PICK m \in 1 .. Len(s[k + 1].lines) : d - Start(s, k) = Offset(s[k + 1], m)
    BY <2>1 DEF InHead
  <2>3. m \in 0 .. Len(s[k + 1].lines)
    BY <1>1, RequestOf
  <2>4. Offset(s[k + 1], m) \in Nat /\ Start(s, k) + Offset(s[k + 1], m) < Start(s, k + 1)
    BY <1>1, <2>3, Steps
  <2> QED
    BY <1>1, <2>2, <2>4
<1>4. CASE c.recv = "body"
  <2> DEFINE r == s[k + 1]
             b == Len(r.body)
             o == Offset(r, Len(r.lines))
  <2>1. InBody(c, r, d - Start(s, k))
    BY <1>4, Within
  <2>2. /\ ContentLength(c.request) = b /\ b \in Nat /\ o \in Nat
        /\ Start(s, k + 1) = Start(s, k) + o + 1 + b
    BY <1>1, <2>1, BodyLength DEF InBody
  <2>3. d - Start(s, k) = o + 1 + c.request.body
    BY <2>1 DEF InBody
  <2>4. c.request.body < ContentLength(c.request) /\ c.request.body \in Nat
    BY <1>4 DEF BodyMissing, ContextOK, ContextType, RequestType
  <2> HIDE DEF b, o, r
  <2> QED
    BY <1>1, <2>2, <2>3, <2>4, SMTT(30)
<1> QED
  BY <1>2, <1>3, <1>4
-----------------------------------------------------------------------------
(* The call of RecvHttpLine keeps the parser where the input is. *)
LEMMA LinePosition ==
  ASSUME NEW s \in Scripts, NEW d \in Nat, d <= Len(InputOf(s)),
         NEW buf \in Seq(Symbol), buf # <<>>, Len(buf) <= d, FromInput(s, d, buf),
         NEW k \in Nat, NEW c, c.recv = "line", Position(s, c, d - Len(buf), k)
  PROVE  LET c2 == RecvHttpLine(c, buf)
             b2 == Behind(buf)
         IN  /\ FromInput(s, d, b2) /\ Len(b2) <= d
             /\ Position(s, c2, d - Len(b2), k)
             /\ c2.recv = "line" => NoMore(s, d, k)
<1> DEFINE n == Len(buf)
           t == LineLength(buf)
           c2 == RecvHttpLine(c, buf)
           b2 == Behind(buf)
           v == d - Len(b2)
           x == InputOf(s)
<1>1. n \in Nat /\ n > 0 /\ n <= d
  BY EmptySeq
<1>2. /\ b2 \in Seq(Symbol) /\ t \in 0 .. n /\ Len(b2) = n - t
      /\ \A p \in 1 .. Len(b2) : b2[p] = buf[t + p]
  BY LineType
<1>3. FromInput(s, d, b2) /\ Len(b2) <= d /\ v = (d - n) + t
  <2> HIDE DEF b2, t, v
  <2>1. IsRest(b2, buf, t)
    BY <1>2 DEF IsRest
  <2> QED
    BY <2>1, Consumed DEF v
<1>4. d - n \in Nat
  BY <1>1
<1>5. k \in 0 .. Len(s) /\ c = Fresh /\ d - n = Start(s, k)
  BY <1>4, AtLine
<1>6. k \in 0 .. Len(s) - 1
  <2>1. Len(x) = Start(s, Len(s))
    BY InputParts
  <2>2. k # Len(s)
    BY <1>1, <1>5, <2>1
  <2> QED
    BY <1>5, <2>2, Steps
<1>7. \A p \in 1 .. n : buf[p] = x[Start(s, k) + p]
  BY <1>5 DEF FromInput
<1>8. \/ c2 = Fresh /\ t = 0 /\ Start(s, k) + n < Start(s, k + 1)
      \/ InHead(c2, s[k + 1], t)
      \/ Refused(c2, s[k + 1])
  BY <1>5, <1>6, <1>7, LineStep
<1> HIDE DEF n, t, c2, b2, v, x
<1>9. Start(s, k) \in Nat /\ t \in Nat /\ n \in Nat
  BY <1>1, <1>2, <1>5, Steps
<1>10. v = Start(s, k) + t /\ v - Start(s, k) = t /\ d = Start(s, k) + n
  BY <1>1, <1>3, <1>5, <1>9
<1>11. Position(s, c2, v, k)
  <2>1. CASE c2 = Fresh /\ t = 0
    BY <1>5, <1>9, <1>10, <2>1 DEF Position
  <2>2. CASE InHead(c2, s[k + 1], t)
    BY <1>6, <1>10, <2>2 DEF Position
  <2>3. CASE Refused(c2, s[k + 1])
    BY <1>6, <2>3 DEF Position
  <2> QED
    BY <1>8, <2>1, <2>2, <2>3
<1>12. c2.recv = "line" => NoMore(s, d, k)
  BY <1>8, <1>10 DEF InHead, Refused, NoMore
<1> QED
  BY <1>3, <1>11, <1>12 DEF c2, b2, v

(* So does a turn of RecvHttpHead, which returns without a line only when  *)
(* the head has not arrived as a whole.                                    *)
LEMMA HeadPosition ==
  ASSUME NEW s \in Scripts, NEW d \in Nat,
         NEW buf \in Seq(Symbol), Len(buf) <= d, FromInput(s, d, buf),
         NEW k \in Nat, NEW c, ContextOK(c), c.recv = "head",
         Position(s, c, d - Len(buf), k)
  PROVE  LET c2 == RecvHttpHead(c, buf)
             b2 == Behind(buf)
         IN  /\ FromInput(s, d, b2) /\ Len(b2) <= d
             /\ Position(s, c2, d - Len(b2), k)
             /\ Line(buf) = <<>> /\ c2.recv # "error" => NoMore(s, d, k)
<1> DEFINE n == Len(buf)
           t == LineLength(buf)
           c2 == RecvHttpHead(c, buf)
           b2 == Behind(buf)
           v == d - Len(b2)
           r == s[k + 1]
<1>1. n \in Nat /\ n <= d /\ d - n \in Nat
  OBVIOUS
<1>2. /\ b2 \in Seq(Symbol) /\ t \in 0 .. n /\ Len(b2) = n - t
      /\ \A p \in 1 .. Len(b2) : b2[p] = buf[t + p]
  BY LineType
<1>3. FromInput(s, d, b2) /\ Len(b2) <= d /\ v = (d - n) + t
  <2> HIDE DEF b2, t, v
  <2>1. IsRest(b2, buf, t)
    BY <1>2 DEF IsRest
  <2> QED
    BY <2>1, Consumed DEF v
<1>4. k \in 0 .. Len(s) - 1 /\ InHead(c, r, (d - n) - Start(s, k))
  BY <1>1, Within
<1>5. PICK m \in 1 .. Len(r.lines) :
        GoodUpTo(r, m) /\ ReadUpTo(c.request, r, m) /\ (d - n) - Start(s, k) = Offset(r, m)
  BY <1>4 DEF InHead
<1>6. Start(s, k) \in Nat /\ Offset(r, m) \in Nat /\ k \in 0 .. Len(s)
  <2>1. m \in 0 .. Len(r.lines)
    BY <1>4, RequestOf
  <2> QED
    BY <1>4, <2>1, Steps
<1>7. d - n = Start(s, k) + Offset(r, m)
  BY <1>1, <1>5, <1>6
<1>8. \A p \in 1 .. n : buf[p] = InputOf(s)[Start(s, k) + Offset(r, m) + p]
  BY <1>7 DEF FromInput
<1>9. \/ /\ c2 = c /\ Line(buf) = <<>> /\ t = 0
         /\ Start(s, k) + Offset(r, m) + n < Start(s, k + 1)
      \/ Line(buf) # <<>> /\ InHead(c2, r, Offset(r, m) + t)
      \/ Line(buf) # <<>> /\ InBody(c2, r, Offset(r, m) + t)
      \/ Refused(c2, r)
  <2>1. HeadAt(s, k, r, m, c, buf)
    BY <1>5, <1>8 DEF HeadAt
  <2> HIDE DEF r
  <2> QED
    BY <1>4, <2>1, HeadStep
<1> HIDE DEF n, t, c2, b2, v, r
<1>10. t \in Nat /\ v - Start(s, k) = Offset(r, m) + t /\ d = Start(s, k) + Offset(r, m) + n
  <2>1. n \in Nat /\ t \in 0 .. n /\ v = (d - n) + t
    BY <1>1, <1>2, <1>3
  <2> DEFINE a == Start(s, k)
             o == Offset(r, m)
  <2>2. a \in Nat /\ o \in Nat /\ d - n = a + o
    BY <1>6, <1>7
  <2> HIDE DEF a, o
  <2>3. t \in Nat /\ v - a = o + t /\ d = a + o + n
    BY <2>1, <2>2
  <2> QED
    BY <2>3 DEF a, o
<1>11. Position(s, c2, v, k)
  <2>1. CASE c2 = c /\ t = 0
    <3>1. InHead(c2, r, v - Start(s, k))
      BY <1>4, <1>5, <1>6, <1>10, <2>1
    <3> QED
      BY <1>4, <3>1 DEF Position, r
  <2>2. CASE InHead(c2, r, Offset(r, m) + t)
    BY <1>4, <1>10, <2>2 DEF Position, r
  <2>3. CASE InBody(c2, r, Offset(r, m) + t)
    BY <1>4, <1>10, <2>3 DEF Position, r
  <2>4. CASE Refused(c2, r)
    BY <1>4, <2>4 DEF Position, r
  <2> QED
    BY <1>9, <2>1, <2>2, <2>3, <2>4
<1>12. Line(buf) = <<>> /\ c2.recv # "error" => NoMore(s, d, k)
  BY <1>9, <1>10 DEF Refused, NoMore
<1> QED
  BY <1>3, <1>11, <1>12 DEF c2, b2, v

(* And RecvHttpBody. *)
LEMMA BodyPosition ==
  ASSUME NEW s \in Scripts, NEW d \in Nat,
         NEW buf \in Seq(Symbol), Len(buf) <= d, FromInput(s, d, buf),
         NEW k \in Nat, NEW c, ContextOK(c), c.recv = "body",
         Position(s, c, d - Len(buf), k)
  PROVE  LET c2 == RecvHttpBody(c, buf)
             b2 == SubSeq(buf, BodyTaken(c, buf) + 1, Len(buf))
         IN  /\ b2 \in Seq(Symbol) /\ FromInput(s, d, b2) /\ Len(b2) <= d
             /\ Position(s, c2, d - Len(b2), k)
             /\ c2.recv = "body" => NoMore(s, d, k)
<1> DEFINE n == Len(buf)
           t == BodyTaken(c, buf)
           c2 == RecvHttpBody(c, buf)
           b2 == SubSeq(buf, t + 1, n)
           v == d - Len(b2)
           r == s[k + 1]
<1>1. n \in Nat /\ n <= d /\ d - n \in Nat
  OBVIOUS
<1>2. /\ t \in 0 .. n /\ ContextOK(c2) /\ c2.recv \in {"body", "over"}
      /\ c2.request = [c.request EXCEPT !.body = c.request.body + t]
      /\ c2.recv = "body" => t = n /\ c2.request.body < ContentLength(c2.request)
  BY RecvBodyWorks
<1> HIDE DEF t, c2
<1>3. /\ b2 \in Seq(Symbol) /\ Len(b2) = n - t
      /\ \A p \in 1 .. Len(b2) : b2[p] = buf[t + p]
  <2>1. t \in 0 .. Len(buf)
    BY <1>2
  <2> QED
    BY <2>1
<1> HIDE DEF b2
<1>4. FromInput(s, d, b2) /\ Len(b2) <= d /\ v = (d - n) + t
  <2>1. IsRest(b2, buf, t)
    BY <1>2, <1>3 DEF IsRest
  <2> QED
    BY <2>1, Consumed
<1>5. k \in 0 .. Len(s) - 1 /\ InBody(c, r, (d - n) - Start(s, k))
  BY <1>1, Within
<1> DEFINE o == Offset(r, Len(r.lines))
<1>6. Start(s, k) \in Nat /\ o \in Nat
  <2>1. Len(r.lines) \in 0 .. Len(r.lines)
    BY <1>5, RequestOf
  <2>2. k \in 0 .. Len(s)
    BY <1>5, Steps
  <2> QED
    BY <1>5, <2>1, <2>2, Steps
<1>7. /\ c.request \in RequestType /\ c.request.body \in Nat
      /\ c2.request.body = c.request.body + t /\ c2.request.id = c.request.id
      /\ c2.request.method = c.request.method /\ c2.request.path = c.request.path
      /\ c2.request.connection = c.request.connection /\ c2.request.length = c.request.length
  <2>1. c.request \in RequestType
    BY DEF ContextOK, ContextType
  <2> QED
    BY <1>2, <2>1 DEF RequestType
<1>8. (d - n) - Start(s, k) = o + 1 + c.request.body
  BY <1>5 DEF InBody
<1> HIDE DEF n, v, r, o
<1>9. v - Start(s, k) = o + 1 + c2.request.body
  <2>1. n \in Nat /\ t \in 0 .. n /\ v = (d - n) + t
    BY <1>1, <1>2, <1>4
  <2>2. c.request.body \in Nat /\ c2.request.body = c.request.body + t
    BY <1>7
  <2> DEFINE a == Start(s, k)
             b == c.request.body
             e == c2.request.body
  <2>3. a \in Nat /\ o \in Nat /\ b \in Nat /\ e = b + t /\ (d - n) - a = o + 1 + b
    BY <1>6, <1>8, <2>2
  <2> HIDE DEF a, b, e
  <2>4. v - a = o + 1 + e
    BY <2>1, <2>3
  <2> QED
    BY <2>4 DEF a, e
<1>10. InBody(c2, r, v - Start(s, k))
  <2>1. Faulty(r) = {} /\ ReadUpTo(c.request, r, Len(r.lines))
    BY <1>5 DEF InBody
  <2>2. ReadUpTo(c2.request, r, Len(r.lines))
    BY <1>7, <2>1 DEF ReadUpTo
  <2> QED
    BY <1>2, <1>9, <2>1, <2>2 DEF InBody, o
<1>11. Position(s, c2, v, k)
  BY <1>5, <1>10 DEF Position, r
<1>12. c2.recv = "body" => NoMore(s, d, k)
  <2> SUFFICES ASSUME c2.recv = "body" PROVE NoMore(s, d, k)
    OBVIOUS
  <2>1. t = n /\ BodyMissing(c2)
    BY <1>2 DEF BodyMissing
  <2>2. v = d
    BY <1>1, <1>2, <1>4, <2>1
  <2> QED
    BY <1>2, <1>11, <2>1, <2>2, PositionWaits
<1> QED
  BY <1>3, <1>4, <1>11, <1>12 DEF c2, b2, t, n, v
-----------------------------------------------------------------------------
(* RecvHttpRequest has read a complete request; what is known of it then.  *)
ReadAll(s, c, at, k) == ContextOK(c) /\ c.recv = "over" /\ Position(s, c, at, k)

Served(s, c, at, k) ==
  /\ k \in 0 .. Len(s) - 1 /\ Faulty(s[k + 1]) = {} /\ at = Start(s, k + 1)
  /\ c.resp = 200
  /\ s[k + 1] \in Message /\ Len(s[k + 1].lines) \in Nat \ {0}
  /\ ReadUpTo(c.request, s[k + 1], Len(s[k + 1].lines))

(* The request that has been read is the next one of the script, without   *)
(* fault, and has been read to its end.                                    *)
LEMMA AnswerPlace ==
  ASSUME NEW s \in Scripts, NEW k \in Nat, NEW c, NEW at \in Nat, ReadAll(s, c, at, k)
  PROVE  Served(s, c, at, k)
<1> USE DEF ReadAll
<1> DEFINE r == s[k + 1]
           M == Len(r.lines)
           q == c.request
           a == Start(s, k)
           b == Len(r.body)
           o == Offset(r, M)
<1>1. k \in 0 .. Len(s) - 1 /\ InBody(c, r, at - a)
  BY Within
<1>2. r \in Message /\ M \in Nat \ {0} /\ M \in 0 .. M
  <2>1. r \in Message /\ M \in Nat \ {0}
    BY <1>1, RequestOf
  <2> HIDE DEF M
  <2> QED
    BY <2>1
<1>3. Faulty(r) = {} /\ ReadUpTo(q, r, M) /\ at - a = o + 1 + q.body
  BY <1>1 DEF InBody
<1>4. /\ ContentLength(q) = b /\ b \in Nat /\ o \in Nat
      /\ Start(s, k + 1) = a + o + 1 + b
  BY <1>1, <1>3, BodyLength
<1>5. q.body = ContentLength(q) /\ c.resp = 200
  BY DEF ContextOK, ContextType
<1>6. a \in Nat
  <2>1. k \in 0 .. Len(s)
    BY <1>1, Steps
  <2> QED
    BY <2>1, Steps
<1>7. at = Start(s, k + 1)
  <2>1. at - a = o + 1 + b
    BY <1>3, <1>4, <1>5
  <2> HIDE DEF a, b, o
  <2> QED
    BY <1>4, <1>6, <2>1
<1> QED
  BY <1>1, <1>2, <1>3, <1>5, <1>7 DEF Served

(* It gets a right reply. *)
LEMMA AnswerRight ==
  ASSUME NEW s \in Scripts, NEW k \in Nat, NEW c, NEW at \in Nat, ReadAll(s, c, at, k),
         NEW rsp \in Route(c.request, HttpResponse(c.resp))
  PROVE  Complete(c.request, rsp) \in Answers(s[k + 1])
<1> DEFINE r == s[k + 1]
           M == Len(r.lines)
           q == c.request
<1>1. /\ r \in Message /\ M \in Nat \ {0} /\ Faulty(r) = {} /\ ReadUpTo(q, r, M)
      /\ rsp \in Route(q, HttpResponse(200))
  <2>1. Served(s, c, at, k)
    BY AnswerPlace
  <2> QED
    BY <2>1 DEF Served
<1>2. M \in 0 .. M
  <2>1. M \in Nat
    BY <1>1
  <2> HIDE DEF M
  <2> QED
    BY <2>1
<1>3. Good(r) = 1 .. M /\ GoodUpTo(r, M)
  <2>1. DOMAIN r.lines = 1 .. M
    BY <1>1, EndedType
  <2>2. Good(r) = 1 .. M
    BY <1>1, <2>1 DEF Good
  <2> QED
    BY <1>1, <2>2 DEF GoodUpTo
<1>4. q.method = r.lines[1][1].method /\ q.path = r.lines[1][1].path
  <2>1. M > 0
    BY <1>1
  <2> QED
    BY <1>1, <2>1, Zenon DEF ReadUpTo
<1> HIDE DEF q, r
<1>5. Len(r.lines) \in Nat \ {0} /\ M \in 0 .. Len(r.lines)
  BY <1>1, <1>2
<1>6. rsp \in Made(r)
  BY <1>1, <1>4, <1>5, RouteMade
<1> HIDE DEF M
<1>7. Complete(q, rsp) \in Answers(r)
  BY <1>1, <1>3, <1>5, <1>6, Answered
<1> QED
  BY <1>7 DEF q, r

(* So does a request that is refused. *)
LEMMA ErrorRight ==
  ASSUME NEW s \in Scripts, NEW k \in Nat, NEW c, c.recv = "error",
         NEW at \in Nat, Position(s, c, at, k)
  PROVE  LET reply == Complete(c.request, ErrorHandler(HttpResponse(c.resp)))
         IN  /\ k \in 0 .. Len(s) - 1 /\ Faulty(s[k + 1]) # {}
             /\ reply \in Answers(s[k + 1]) /\ Final(reply)
<1> DEFINE r == s[k + 1]
           q == c.request
           rsp == ErrorHandler(HttpResponse(c.resp))
<1>1. k \in 0 .. Len(s) - 1 /\ Refused(c, r)
  BY Within
<1>2. r \in Message /\ Len(r.lines) \in Nat \ {0}
  BY <1>1, RequestOf
<1> HIDE DEF r
<1>3. PICK m \in 0 .. Len(r.lines) - 1 :
        /\ GoodUpTo(r, m) /\ m + 1 \in Faulty(r) /\ ReadUpTo(q, r, m)
        /\ c.resp = IF Len(r.lines[m + 1]) >= MaxLine THEN 414 ELSE 400
  BY <1>1 DEF Refused
<1>4. DOMAIN r.lines = 1 .. Len(r.lines)
  BY <1>2, EndedType
<1>5. Faulty(r) \subseteq 1 .. Len(r.lines)
  BY <1>4 DEF Faulty
<1>6. \A i \in 1 .. m : i \notin Faulty(r)
  BY <1>3 DEF GoodUpTo
<1>7. m \in Nat /\ m + 1 \in 1 .. Len(r.lines) /\ m \in 0 .. Len(r.lines)
  BY <1>2
<1>8. \A i \in Faulty(r) : m + 1 <= i
  BY <1>5, <1>6, <1>7
<1>9. Good(r) = 1 .. m
  <2>1. \A i \in 1 .. Len(r.lines) : i <= m <=> i < m + 1
    BY <1>7
  <2>2. \A i \in 1 .. Len(r.lines) : i < m + 1 => \A j \in Faulty(r) : i < j
    BY <1>5, <1>7, <1>8
  <2>3. Good(r) = {i \in 1 .. Len(r.lines) : i < m + 1}
    BY <1>3, <1>4, <2>2 DEF Good
  <2> QED
    BY <1>7, <2>1, <2>3
<1> DEFINE first(i) == \A j \in Faulty(r) : i <= j
           oversize == \E i \in Faulty(r) : first(i) /\ Len(r.lines[i]) >= MaxLine
<1>10. oversize <=> Len(r.lines[m + 1]) >= MaxLine
  <2>1. first(m + 1)
    BY <1>8
  <2>2. \A i \in Faulty(r) : first(i) => i = m + 1
    BY <1>3, <1>5, <1>7, <1>8
  <2> HIDE DEF first
  <2> QED
    BY <1>3, <2>1, <2>2
<1>11. Made(r) = {[HttpResponse(IF oversize THEN 414 ELSE 400) EXCEPT !.body = "error"]}
  <2>1. Faulty(r) # {}
    BY <1>3
  <2> QED
    BY <2>1, Zenon DEF Made
<1> HIDE DEF oversize
<1>12. rsp \in Made(r)
  <2>1. c.resp = IF oversize THEN 414 ELSE 400
    BY <1>3, <1>10
  <2> QED
    BY <1>11, <2>1 DEF ErrorHandler
<1> HIDE DEF rsp
<1>13. Complete(q, rsp) \in Answers(r)
  BY <1>2, <1>3, <1>7, <1>9, <1>12, Answered
<1>14. Final(Complete(q, rsp))
  <2>1. c.resp \in {400, 414}
    BY <1>3
  <2>2. rsp.statu = c.resp
    BY DEF rsp, ErrorHandler, HttpResponse
  <2>3. Complete(q, rsp).statu = rsp.statu
    BY DEF Complete
  <2> QED
    BY <2>1, <2>2, <2>3 DEF Final
<1> QED
  BY <1>1, <1>3, <1>13, <1>14 DEF r, rsp
-----------------------------------------------------------------------------
(* The stack of calls. *)
LEMMA StackTop ==
  ASSUME NEW f \in Seq(Places), f # <<>>
  PROVE  /\ Len(f) \in Nat \ {0} /\ Last(f) = f[Len(f)] /\ Last(f) \in Places
         /\ Front(f) \in Seq(Places) /\ Len(Front(f)) = Len(f) - 1
         /\ \A i \in 1 .. Len(f) - 1 : Front(f)[i] = f[i]
<1> DEFINE n == Len(f)
<1>1. n \in Nat \ {0} /\ \A i \in 1 .. n : f[i] \in Places
  BY EmptySeq
<1>2. Last(f) = f[n] /\ Front(f) = SubSeq(f, 1, n - 1)
  BY DEF Last, Front
<1>3. n - 1 \in 0 .. Len(f)
  BY <1>1
<1>4. /\ SubSeq(f, 1, n - 1) \in Seq(Places) /\ Len(SubSeq(f, 1, n - 1)) = n - 1
      /\ \A i \in 1 .. n - 1 : SubSeq(f, 1, n - 1)[i] = f[i]
  <2> DEFINE m == n - 1
  <2>1. m \in 0 .. Len(f)
    BY <1>3
  <2> HIDE DEF m, n
  <2>2. /\ SubSeq(f, 1, m) \in Seq(Places) /\ Len(SubSeq(f, 1, m)) = m
        /\ \A i \in 1 .. m : SubSeq(f, 1, m)[i] = f[i]
    BY <2>1
  <2> QED
    BY <2>2 DEF m
<1> QED
  BY <1>1, <1>2, <1>4

(* A call that returns leaves one below that is not within                 *)
(* RecvHttpRequest.                                                        *)
LEMMA StackReturn ==
  ASSUME NEW f \in Seq(Places), f # <<>>, NEW st, NEW st2, Stacked(f, st),
         st # "CONNECTED" => st2 # "CONNECTED"
  PROVE  LET g == Front(f)
         IN  /\ g \in Seq(Places) /\ Stacked(g, st2)
             /\ ~Top(g, "parse") /\ ~Top(g, "respond")
<1> DEFINE g == Front(f)
           n == Len(f)
<1>1. /\ n \in Nat \ {0} /\ g \in Seq(Places) /\ Len(g) = n - 1
      /\ \A i \in 1 .. n - 1 : g[i] = f[i]
  BY StackTop
<1>2. \A i \in 1 .. n : /\ f[i] \in {"parse", "respond"} => i = n
                        /\ f[i] = "finish" => st # "CONNECTED"
  BY DEF Stacked
<1> HIDE DEF g, n
<1>3. \A i \in 1 .. n - 1 : i \in 1 .. n /\ i # n
  BY <1>1
<1>4. Stacked(g, st2)
  BY <1>1, <1>2, <1>3 DEF Stacked
<1>5. g # <<>> => Last(g) \notin {"parse", "respond"}
  <2> SUFFICES ASSUME g # <<>> PROVE Last(g) \notin {"parse", "respond"}
    OBVIOUS
  <2>1. Last(g) = g[Len(g)] /\ Len(g) \in Nat \ {0}
    BY <1>1, StackTop
  <2>2. n - 1 \in 1 .. n - 1
    BY <1>1, <2>1
  <2> QED
    BY <1>1, <1>2, <1>3, <2>1, <2>2
<1> QED
  BY <1>1, <1>4, <1>5 DEF g, Top

(* A call on top of one that is not within RecvHttpRequest. *)
LEMMA StackPush ==
  ASSUME NEW g \in Seq(Places), NEW st, Stacked(g, st), ~Top(g, "parse"), ~Top(g, "respond"),
         NEW place \in Places, place = "finish" => st # "CONNECTED"
  PROVE  LET h == Append(g, place)
         IN  /\ h \in Seq(Places) /\ Stacked(h, st) /\ h # <<>> /\ Last(h) = place
             /\ \A p : Top(h, p) <=> p = place
<1> DEFINE h == Append(g, place)
           n == Len(g)
<1>1. /\ n \in Nat /\ h \in Seq(Places) /\ Len(h) = n + 1 /\ h[n + 1] = place
      /\ \A i \in 1 .. n : h[i] = g[i]
  OBVIOUS
<1>2. \A i \in 1 .. n : g[i] \notin {"parse", "respond"} /\ (g[i] = "finish" => st # "CONNECTED")
  <2>1. \A i \in 1 .. n : /\ g[i] \in {"parse", "respond"} => i = n
                          /\ g[i] = "finish" => st # "CONNECTED"
    BY DEF Stacked
  <2>2. n # 0 => g[n] \notin {"parse", "respond"}
    <3> SUFFICES ASSUME n # 0 PROVE g[n] \notin {"parse", "respond"}
      OBVIOUS
    <3>1. g # <<>>
      OBVIOUS
    <3>2. Last(g) = g[n]
      BY DEF Last
    <3> QED
      BY <3>1, <3>2 DEF Top
  <2> QED
    BY <1>1, <2>1, <2>2
<1> HIDE DEF h, n
<1>3. \A i \in 1 .. n + 1 : i \in 1 .. n \/ i = n + 1
  BY <1>1
<1>4. Stacked(h, st)
  BY <1>1, <1>2, <1>3 DEF Stacked
<1>5. h # <<>> /\ Last(h) = place
  <2>1. h # <<>>
    BY <1>1
  <2> QED
    BY <1>1, <2>1, StackTop
<1> QED
  BY <1>1, <1>4, <1>5 DEF h, Top

(* ShutdownInLoop on top of the calls that go on. *)
LEMMA ShutdownStack ==
  ASSUME NEW g \in Seq(Places), NEW st, Stacked(g, st), ~Top(g, "parse"), ~Top(g, "respond"),
         st # "CONNECTED", NEW buf
  PROVE  LET h == g \o Shutdown(buf)
         IN  /\ h \in Seq(Places) /\ Stacked(h, st) /\ h # <<>>
             /\ ~Top(h, "parse") /\ ~Top(h, "respond") /\ (Top(h, "finish") => buf = <<>>)
<1> DEFINE h1 == Append(g, "finish")
           h2 == Append(h1, "while")
<1>1. "finish" \in Places /\ "while" \in Places
  BY DEF Places
<1>2. g \o <<"finish">> = h1 /\ g \o <<"finish", "while">> = h2
  BY <1>1
<1> HIDE DEF h1
<1>3. /\ h1 \in Seq(Places) /\ Stacked(h1, st) /\ h1 # <<>>
      /\ \A p : Top(h1, p) <=> p = "finish"
  BY <1>1, StackPush DEF h1
<1>4. ~Top(h1, "parse") /\ ~Top(h1, "respond")
  BY <1>3
<1> HIDE DEF h2
<1>5. /\ h2 \in Seq(Places) /\ Stacked(h2, st) /\ h2 # <<>>
      /\ \A p : Top(h2, p) <=> p = "while"
  BY <1>1, <1>3, <1>4, StackPush DEF h2
<1>6. ~Top(h2, "parse") /\ ~Top(h2, "respond") /\ ~Top(h2, "finish")
  BY <1>5
<1>7. CASE buf = <<>>
  <2>1. g \o Shutdown(buf) = h1
    BY <1>2, <1>7 DEF Shutdown
  <2> QED
    BY <1>3, <1>4, <1>7, <2>1
<1>8. CASE buf # <<>>
  <2>1. g \o Shutdown(buf) = h2
    BY <1>2, <1>8 DEF Shutdown
  <2> QED
    BY <1>5, <1>6, <2>1
<1> QED
  BY <1>7, <1>8
-----------------------------------------------------------------------------
(* The history of replies: what has been seen of it stays. *)
LEMMA RepliesKept ==
  ASSUME NEW s, NEW rs \in Seq(Reply), NEW x \in Reply
  PROVE  /\ Append(rs, x) \in Seq(Reply) /\ Len(Append(rs, x)) = Len(rs) + 1
         /\ Append(rs, x)[Len(rs) + 1] = x
         /\ \A i \in 1 .. Len(rs) : Append(rs, x)[i] = rs[i]
         /\ Lost(s, rs) => Lost(s, Append(rs, x))
         /\ FinalSeen(s, rs) => FinalSeen(s, Append(rs, x))
<1> DEFINE rs2 == Append(rs, x)
           n == Len(rs)
<1>1. /\ rs2 \in Seq(Reply) /\ Len(rs2) = n + 1 /\ rs2[n + 1] = x /\ n \in Nat
      /\ \A i \in 1 .. n : rs2[i] = rs[i]
  OBVIOUS
<1> HIDE DEF rs2
<1>2. ASSUME NEW i \in 1 .. Len(s), FirstRefused(s, rs, i) PROVE FirstRefused(s, rs2, i)
  <2>1. /\ i \in 1 .. n /\ Faulty(s[i]) # {} /\ \A j \in 1 .. i - 1 : Faulty(s[j]) = {}
        /\ \A j \in 1 .. i : rs[j] \in Answers(s[j])
    BY <1>2 DEF FirstRefused
  <2> HIDE DEF n
  <2>2. i \in 1 .. n + 1 /\ \A j \in 1 .. i : j \in 1 .. n
    BY <1>1, <2>1
  <2> QED
    BY <1>1, <2>1, <2>2 DEF FirstRefused
<1>3. ASSUME NEW i \in 1 .. Len(s), FinalAt(s, rs, i) PROVE FinalAt(s, rs2, i)
  <2>1. /\ i \in 1 .. n /\ \A j \in 1 .. i - 1 : Faulty(s[j]) = {}
        /\ \E answer \in Answers(s[i]) : Final(answer)
    BY <1>3 DEF FinalAt
  <2> HIDE DEF n
  <2>2. i \in 1 .. n + 1
    BY <1>1, <2>1
  <2> QED
    BY <1>1, <2>1, <2>2 DEF FinalAt
<1> QED
  BY <1>1, <1>2, <1>3 DEF Lost, FinalSeen, rs2, n

(* One more reply that is right for its request. *)
LEMMA RightReply ==
  ASSUME NEW s, NEW rs \in Seq(Reply), RightReplies(s, rs), Len(rs) \in 0 .. Len(s) - 1,
         NEW x \in Reply, x \in Answers(s[Len(rs) + 1]), Len(s) \in Nat
  PROVE  /\ Faulty(s[Len(rs) + 1]) = {} => RightReplies(s, Append(rs, x))
         /\ Faulty(s[Len(rs) + 1]) # {} => Lost(s, Append(rs, x))
         /\ Final(x) => FinalSeen(s, Append(rs, x))
<1> DEFINE rs2 == Append(rs, x)
           n == Len(rs)
<1>1. /\ Len(rs2) = n + 1 /\ rs2[n + 1] = x /\ n \in 0 .. Len(s) - 1
      /\ \A i \in 1 .. n : rs2[i] = rs[i]
  BY RepliesKept
<1>2. x \in Answers(s[n + 1])
  OBVIOUS
<1>3. \A i \in 1 .. n : Faulty(s[i]) = {} /\ rs[i] \in Answers(s[i])
  BY DEF RightReplies
<1> HIDE DEF rs2, n
<1>4. /\ n + 1 \in 1 .. Len(s) /\ n + 1 \in 1 .. n + 1 /\ (n + 1) - 1 = n
      /\ \A i \in 1 .. n + 1 : i \in 1 .. n \/ i = n + 1
  BY <1>1
<1>5. \A i \in 1 .. n + 1 : rs2[i] \in Answers(s[i])
  BY <1>1, <1>2, <1>3, <1>4
<1>6. Faulty(s[n + 1]) = {} => RightReplies(s, rs2)
  BY <1>1, <1>3, <1>4, <1>5 DEF RightReplies
<1>7. Faulty(s[n + 1]) # {} => Lost(s, rs2)
  <2> SUFFICES ASSUME Faulty(s[n + 1]) # {} PROVE Lost(s, rs2)
    OBVIOUS
  <2>1. FirstRefused(s, rs2, n + 1)
    BY <1>1, <1>3, <1>4, <1>5 DEF FirstRefused
  <2> QED
    BY <1>4, <2>1 DEF Lost
<1>8. Final(x) => FinalSeen(s, rs2)
  <2> SUFFICES ASSUME Final(x) PROVE FinalSeen(s, rs2)
    OBVIOUS
  <2>1. FinalAt(s, rs2, n + 1)
    BY <1>1, <1>2, <1>3, <1>4 DEF FinalAt
  <2> QED
    BY <1>4, <2>1 DEF FinalSeen
<1> QED
  BY <1>6, <1>7, <1>8 DEF rs2, n

(* What is said to a request that is refused announces the close. *)
LEMMA LostSeen ==
  ASSUME NEW s, NEW rs, Lost(s, rs)
  PROVE  FinalSeen(s, rs)
<1>1. PICK i \in 1 .. Len(s) : FirstRefused(s, rs, i)
  BY DEF Lost
<1> DEFINE r == s[i]
<1>2. /\ i \in 1 .. Len(rs) /\ Faulty(r) # {} /\ \A j \in 1 .. i - 1 : Faulty(s[j]) = {}
      /\ \A j \in 1 .. i : rs[j] \in Answers(s[j])
  BY <1>1 DEF FirstRefused
<1>3. i \in 1 .. i
  OBVIOUS
<1>4. rs[i] \in Answers(r)
  BY <1>2, <1>3
<1> HIDE DEF r
<1>5. \E x \in Made(r) : rs[i].statu = x.statu
  <2> DEFINE id == IF 1 \in Good(r) THEN r.lines[1][1].id ELSE 0
             headers == {j \in Good(r) : r.lines[j][1].sym = "connection"}
             kept == \E j \in headers : /\ \A h \in headers : j <= h
                                       /\ r.lines[j][1].value = "keep-alive"
             asked == IF kept THEN "keep-alive" ELSE "close"
             conn(x) == IF x.connection = "" THEN asked ELSE x.connection
  <2>1. Answers(r) = {[statu |-> x.statu, body |-> x.body, location |-> x.redirect,
                       length |-> x.body # "", id |-> id, connection |-> conn(x)] :
                         x \in Made(r)}
    BY Zenon DEF Answers
  <2> HIDE DEF id, headers, kept, asked, conn
  <2> DEFINE f(x) == [statu |-> x.statu, body |-> x.body, location |-> x.redirect,
                      length |-> x.body # "", id |-> id, connection |-> conn(x)]
  <2>2. \A x : f(x).statu = x.statu
    OBVIOUS
  <2>3. Answers(r) = {f(x) : x \in Made(r)}
    BY <2>1
  <2> HIDE DEF f
  <2> QED
    BY <1>4, <2>2, <2>3
<1>6. \A x \in Made(r) : x.statu \in {400, 414}
  <2> DEFINE oversize == \E j \in Faulty(r) : /\ \A h \in Faulty(r) : j <= h
                                             /\ Len(r.lines[j]) >= MaxLine
  <2>1. Made(r) = {[HttpResponse(IF oversize THEN 414 ELSE 400) EXCEPT !.body = "error"]}
    BY <1>2, Zenon DEF Made
  <2> DEFINE n == IF oversize THEN 414 ELSE 400
  <2>2. n \in {400, 414}
    OBVIOUS
  <2>3. Made(r) = {[HttpResponse(n) EXCEPT !.body = "error"]}
    BY <2>1
  <2> HIDE DEF oversize, n
  <2>4. [HttpResponse(n) EXCEPT !.body = "error"].statu = n
    BY DEF HttpResponse
  <2> QED
    BY <2>2, <2>3, <2>4
<1>7. Final(rs[i])
  BY <1>5, <1>6 DEF Final
<1>8. FinalAt(s, rs, i)
  BY <1>2, <1>4, <1>7 DEF FinalAt, r
<1> QED
  BY <1>8 DEF FinalSeen
-----------------------------------------------------------------------------
(* The names of the model and those of the invariant. *)
LEMMA TopOf ==
  /\ \A place : At(place) <=> Top(frames, place)
  /\ Input = InputOf(script)
<1>1. \A place : At(place) <=> Top(frames, place)
  BY DEF At, Idle, Top
<1>2. Input = InputOf(script)
  BY Zenon DEF Input, InputOf, Wires
<1> QED
  BY <1>1, <1>2

(* The empty stack. *)
LEMMA EmptyStack ==
  /\ <<>> \in Seq(Places) /\ \A st : Stacked(<<>>, st)
  /\ \A place : ~Top(<<>>, place)
<1>1. <<>> \in Seq(Places) /\ \A i \in 1 .. Len(<<>>) : FALSE
  OBVIOUS
<1> QED
  BY <1>1 DEF Stacked, Top

(* At first nothing has been read, and nothing is due. *)
LEMMA HttpInit ==
  Init => HttpInv
<1> SUFFICES ASSUME Init PROVE HttpInv
  OBVIOUS
<1> USE DEF Init
<1>1. /\ InputOf(script) \in Seq(Symbol) /\ Start(script, 0) = 0 /\ Len(script) \in Nat
      /\ 0 < Len(script) => 0 < Start(script, 1)
  <2>1. InputOf(script) \in Seq(Symbol) /\ Start(script, 0) = 0 /\ Len(script) \in Nat
    BY InputParts, Steps
  <2>2. ASSUME 0 < Len(script) PROVE 0 < Start(script, 1)
    <3>1. 0 \in 0 .. Len(script) - 1
      BY <2>1, <2>2
    <3>2. Start(script, 0) < Start(script, 0 + 1)
      BY <3>1, Steps
    <3> QED
      BY <2>1, <3>2
  <2> QED
    BY <2>1, <2>2
<1>2. Len(InputOf(script)) \in Nat
  BY <1>1
<1>3. /\ <<>> \in Seq(Symbol) /\ <<>> \in Seq(Reply) /\ <<>> \in Seq(Places) /\ Len(<<>>) = 0
      /\ 0 \in 0 .. 0 /\ 0 - 0 = 0
  OBVIOUS
<1>4. Types
  <2>1. 0 \in 0 .. Len(InputOf(script))
    BY <1>2
  <2>5. left \in 0 .. Timeout
    BY TimeoutAssumption DEF EnableInactiveRelease
  <2>2. ContextOK(context) /\ buffer \in Seq(Symbol) /\ replies \in Seq(Reply) /\ frames \in Seq(Places)
    BY <1>3, FreshOK
  <2>3. Len(buffer) <= delivered /\ unsent \in 0 .. Len(replies)
    BY <1>3
  <2>4. /\ script \in Scripts /\ delivered \in 0 .. Len(InputOf(script)) /\ eof \in BOOLEAN
        /\ writing \in BOOLEAN /\ statu \in {"CONNECTED", "DISCONNECTING", "DISCONNECTED"}
    BY <2>1
  <2> QED
    BY <2>2, <2>3, <2>4, <2>5, Zenon DEF Types
<1>5. Stacked(frames, statu) /\ \A place : ~Top(frames, place)
  BY EmptyStack
<1>6. Phase(frames, context, buffer)
  BY <1>5 DEF Phase, BodyMissing, Fresh
<1>7. FromInput(script, delivered, buffer)
  BY <1>3 DEF FromInput
<1>8. InSync(script, frames, context, delivered, buffer, replies)
  <2>1. Position(script, context, 0, 0)
    BY <1>1 DEF Position
  <2>2. RightReplies(script, replies)
    BY <1>3 DEF RightReplies
  <2>3. NoMore(script, 0, 0)
    BY <1>1 DEF NoMore
  <2> QED
    BY <1>3, <2>1, <2>2, <2>3 DEF InSync
<1> QED
  BY <1>4, <1>5, <1>6, <1>7, <1>8 DEF HttpInv

(* The timer of a connection is refreshed only while it has one. *)
LEMMA TimerRefreshed ==
  ASSUME left \in 0 .. Timeout, HandleEvent
  PROVE  left' \in 0 .. Timeout /\ (left = 0 => left' = 0)
  BY TimeoutAssumption DEF HandleEvent

(* HandleRead adds to the end of the buffer what follows in the input. *)
LEMMA ReadMore ==
  ASSUME NEW s \in Scripts, NEW d \in Nat, NEW buf \in Seq(Symbol), Len(buf) <= d,
         FromInput(s, d, buf), NEW n \in 1 .. Len(InputOf(s)) - d
  PROVE  LET b2 == buf \o SubSeq(InputOf(s), d + 1, d + n)
         IN  /\ b2 \in Seq(Symbol) /\ Len(b2) <= d + n /\ d + n \in 0 .. Len(InputOf(s))
             /\ (d + n) - Len(b2) = d - Len(buf) /\ FromInput(s, d + n, b2)
<1> DEFINE x == InputOf(s)
           more == SubSeq(x, d + 1, d + n)
           b2 == buf \o more
           m == Len(buf)
           N == Len(x)
<1>1. x \in Seq(Symbol) /\ N \in Nat
  BY InputParts
<1>2. d + 1 \in 1 .. N /\ d + n \in 1 .. N /\ n \in Nat \ {0} /\ d + 1 <= d + n
  BY <1>1
<1>3. \A p \in 1 .. m : buf[p] = x[d - m + p]
  BY DEF FromInput
<1>4. m \in Nat /\ m <= d
  OBVIOUS
<1> HIDE DEF x
<1>5. more \in Seq(Symbol) /\ Len(more) = n /\ \A p \in 1 .. n : more[p] = x[d + p]
  <2> DEFINE a == d + 1
             b == d + n
  <2>1. a \in 1 .. Len(x) /\ b \in 1 .. Len(x) /\ a <= b /\ a \in Nat /\ b \in Nat
    BY <1>2
  <2>2. (b - a) + 1 = n /\ \A p \in 1 .. n : (a + p) - 1 = d + p
    BY <1>2
  <2> HIDE DEF a, b
  <2>3. /\ SubSeq(x, a, b) \in Seq(Symbol) /\ Len(SubSeq(x, a, b)) = (b - a) + 1
        /\ \A p \in 1 .. (b - a) + 1 : SubSeq(x, a, b)[p] = x[(a + p) - 1]
    BY <1>1, <2>1
  <2> QED
    BY <2>2, <2>3 DEF a, b
<1> HIDE DEF more
<1>6. /\ b2 \in Seq(Symbol) /\ Len(b2) = m + Len(more)
      /\ \A p \in 1 .. m + Len(more) :
           b2[p] = IF p <= m THEN buf[p] ELSE more[p - m]
  BY <1>5
<1> HIDE DEF b2, m, N
<1>7. Len(b2) = m + n
  BY <1>5, <1>6
<1> DEFINE w == Len(b2)
<1>8. w = m + n
  BY <1>7
<1> HIDE DEF w
<1>9. w <= d + n /\ (d + n) - w = d - m /\ d + n \in 0 .. N
  BY <1>2, <1>4, <1>8
<1>10. \A p \in 1 .. w : b2[p] = x[(d - m) + p]
  <2> TAKE p \in 1 .. w
  <2>1. b2[p] = IF p <= m THEN buf[p] ELSE more[p - m]
    BY <1>5, <1>6, <1>8
  <2>2. CASE p <= m
    <3>1. p \in 1 .. m
      BY <1>4, <1>8, <2>2
    <3> QED
      BY <1>3, <2>1, <2>2, <3>1
  <2>3. CASE ~(p <= m)
    <3>1. p - m \in 1 .. n /\ d + (p - m) = (d - m) + p
      BY <1>2, <1>4, <1>8, <2>3
    <3> QED
      BY <1>5, <2>1, <2>3, <3>1
  <2> QED
    BY <2>2, <2>3
<1>11. FromInput(s, d + n, b2)
  BY <1>9, <1>10 DEF FromInput, w, x
<1> QED
  BY <1>6, <1>9, <1>11 DEF b2, more, m, N, x, w

(* HandleRead: the position is as it was, with more input behind it. *)
LEMMA HandleReadInv ==
  HttpInv /\ HandleRead => HttpInv'
<1> SUFFICES ASSUME HttpInv, HandleRead PROVE HttpInv'
  OBVIOUS
<1>1. PICK n \in 1 .. Len(Input) - delivered :
        /\ buffer' = buffer \o SubSeq(Input, delivered + 1, delivered + n)
        /\ delivered' = delivered + n
  BY DEF HandleRead
<1>2. /\ frames = <<>> /\ frames' = <<"while">>
      /\ script' = script /\ eof' = eof /\ context' = context /\ statu' = statu
      /\ unsent' = unsent /\ writing' = writing /\ replies' = replies
  BY DEF HandleRead, Idle
<1>3. /\ Types /\ Stacked(frames, statu) /\ Phase(frames, context, buffer)
      /\ FromInput(script, delivered, buffer)
      /\ Lost(script, replies) \/ InSync(script, frames, context, delivered, buffer, replies)
      /\ statu # "CONNECTED" => eof \/ left = 0 \/ FinalSeen(script, replies)
  BY DEF HttpInv
<1>4. /\ script \in Scripts /\ delivered \in Nat /\ buffer \in Seq(Symbol)
      /\ Len(buffer) <= delivered
  BY <1>3 DEF Types
<1>5. /\ buffer' \in Seq(Symbol) /\ Len(buffer') <= delivered'
      /\ delivered' \in 0 .. Len(InputOf(script))
      /\ delivered' - Len(buffer') = delivered - Len(buffer)
      /\ FromInput(script, delivered', buffer')
  <2>1. n \in 1 .. Len(InputOf(script)) - delivered
    BY TopOf
  <2>2. buffer' = buffer \o SubSeq(InputOf(script), delivered + 1, delivered + n)
    BY <1>1, TopOf
  <2> QED
    <3> DEFINE x == InputOf(script)
               b2 == buffer \o SubSeq(x, delivered + 1, delivered + n)
    <3>1. FromInput(script, delivered, buffer)
      BY <1>3
    <3>2. /\ b2 \in Seq(Symbol) /\ Len(b2) <= delivered + n
          /\ delivered + n \in 0 .. Len(InputOf(script))
          /\ (delivered + n) - Len(b2) = delivered - Len(buffer)
          /\ FromInput(script, delivered + n, b2)
      BY <1>4, <2>1, <3>1, ReadMore
    <3>3. buffer' = b2 /\ delivered' = delivered + n
      BY <1>1, <2>2
    <3> HIDE DEF b2
    <3> QED
      BY <3>2, <3>3
<1>6. /\ frames' \in Seq(Places) /\ Stacked(frames', statu')
      /\ \A p : Top(frames', p) <=> p = "while"
      /\ frames' # <<>>
  <2> DEFINE g == <<>>
  <2>1. frames' = Append(g, "while") /\ "while" \in Places
    BY <1>2 DEF Places
  <2>2. /\ g \in Seq(Places) /\ Stacked(g, statu') /\ ~Top(g, "parse") /\ ~Top(g, "respond")
    BY EmptyStack
  <2> HIDE DEF g
  <2> QED
    BY <2>1, <2>2, StackPush
<1>12. left' \in 0 .. Timeout /\ (left = 0 => left' = 0)
  BY <1>3, TimerRefreshed DEF HandleRead, Types
<1>7. Types'
  BY <1>2, <1>3, <1>5, <1>6, <1>12 DEF Types
<1>8. ~Top(frames', "parse") /\ ~Top(frames', "respond") /\ ~Top(frames', "finish")
  BY <1>6
<1>9. ~Top(frames, "parse") /\ ~Top(frames, "respond")
  BY <1>2, EmptyStack
<1>10. Phase(frames', context', buffer')
  BY <1>2, <1>3, <1>8, <1>9 DEF Phase
<1>11. InSync(script, frames, context, delivered, buffer, replies)
         => InSync(script', frames', context', delivered', buffer', replies')
  BY <1>2, <1>5, <1>6, <1>8 DEF InSync, Waits
<1> QED
  BY <1>2, <1>3, <1>5, <1>6, <1>7, <1>10, <1>11, <1>12 DEF HttpInv

(* PeerCloses: eof is the reason to shut down. *)
LEMMA PeerClosesInv ==
  HttpInv /\ PeerCloses => HttpInv'
<1> SUFFICES ASSUME HttpInv, PeerCloses PROVE HttpInv'
  OBVIOUS
<1>1. /\ frames = <<>> /\ frames' = Shutdown(buffer) /\ eof' = TRUE /\ statu' = "DISCONNECTING"
      /\ script' = script /\ delivered' = delivered /\ buffer' = buffer /\ context' = context
      /\ unsent' = unsent /\ writing' = writing /\ replies' = replies
  BY DEF PeerCloses, Idle
<1>2. /\ Types /\ Phase(frames, context, buffer)
      /\ FromInput(script, delivered, buffer)
      /\ Lost(script, replies) \/ InSync(script, frames, context, delivered, buffer, replies)
  BY DEF HttpInv
<1>3. /\ frames' \in Seq(Places) /\ Stacked(frames', statu')
      /\ ~Top(frames', "parse") /\ ~Top(frames', "respond")
  <2> DEFINE g == <<>>
  <2>1. frames' = g \o Shutdown(buffer)
    BY <1>1 DEF Shutdown
  <2>2. /\ g \in Seq(Places) /\ Stacked(g, statu') /\ ~Top(g, "parse") /\ ~Top(g, "respond")
    BY EmptyStack
  <2> HIDE DEF g
  <2>3. statu' # "CONNECTED"
    BY <1>1
  <2> QED
    BY <2>1, <2>2, <2>3, ShutdownStack
<1>4. ~Top(frames, "parse") /\ ~Top(frames, "respond")
  BY <1>1, EmptyStack
<1>5. Types'
  <2>1. left' \in 0 .. Timeout
    BY <1>2, TimerRefreshed DEF PeerCloses, Types
  <2> QED
    BY <1>1, <1>2, <1>3, <2>1 DEF Types
<1>6. Phase(frames', context', buffer')
  BY <1>1, <1>2, <1>3, <1>4 DEF Phase
<1>7. InSync(script, frames, context, delivered, buffer, replies)
        => InSync(script', frames', context', delivered', buffer', replies')
  BY <1>1 DEF InSync, Waits
<1> QED
  BY <1>1, <1>2, <1>3, <1>5, <1>6, <1>7 DEF HttpInv

(* While: OnMessage returns only when the buffer is empty, and then no     *)
(* request that has not been answered is complete.                         *)
LEMMA WhileInv ==
  HttpInv /\ While => HttpInv'
<1> SUFFICES ASSUME HttpInv, While PROVE HttpInv'
  OBVIOUS
<1>1. /\ Top(frames, "while") /\ frames # <<>>
      /\ frames' = IF buffer = <<>> THEN Front(frames) ELSE Append(Front(frames), "parse")
      /\ script' = script /\ delivered' = delivered /\ buffer' = buffer /\ context' = context
      /\ unsent' = unsent /\ writing' = writing /\ replies' = replies
      /\ eof' = eof /\ left' = left /\ statu' = statu
  BY TopOf DEF While, Return, Goto, Top
<1>2. /\ Types /\ Stacked(frames, statu) /\ Phase(frames, context, buffer)
      /\ FromInput(script, delivered, buffer)
      /\ Lost(script, replies) \/ InSync(script, frames, context, delivered, buffer, replies)
      /\ statu # "CONNECTED" => eof \/ left = 0 \/ FinalSeen(script, replies)
  BY DEF HttpInv
<1>3. frames \in Seq(Places)
  BY <1>2 DEF Types
<1>4. /\ Front(frames) \in Seq(Places) /\ Stacked(Front(frames), statu)
      /\ ~Top(Front(frames), "parse") /\ ~Top(Front(frames), "respond")
  BY <1>1, <1>2, <1>3, StackReturn
<1>5. ~Top(frames, "parse") /\ ~Top(frames, "respond")
  BY <1>1 DEF Top
<1>6. context.recv \in {"line", "head", "body"} /\ BodyMissing(context)
  BY <1>2, <1>5 DEF Phase
<1>7. CASE buffer = <<>>
  <2>1. frames' = Front(frames)
    BY <1>1, <1>7
  <2>2. Types'
    BY <1>1, <1>2, <1>4, <2>1 DEF Types
  <2>3. Phase(frames', context', buffer')
    BY <1>1, <1>4, <1>6, <2>1 DEF Phase
  <2>4. ASSUME InSync(script, frames, context, delivered, buffer, replies)
        PROVE  NoMore(script, delivered, Len(replies))
    <3>1. delivered \in Nat /\ Len(replies) \in Nat /\ script \in Scripts /\ ContextOK(context)
      BY <1>2 DEF Types
    <3>2. delivered - Len(buffer) = delivered
      BY <1>7, <3>1
    <3>3. Position(script, context, delivered, Len(replies))
      BY <2>4, <3>2 DEF InSync
    <3> QED
      BY <1>6, <3>1, <3>3, PositionWaits
  <2>5. InSync(script, frames, context, delivered, buffer, replies)
          => InSync(script', frames', context', delivered', buffer', replies')
    BY <1>1, <2>4 DEF InSync
  <2> QED
    BY <1>1, <1>2, <1>4, <2>1, <2>2, <2>3, <2>5 DEF HttpInv
<1>8. CASE buffer # <<>>
  <2>1. "parse" \in Places /\ frames' = Append(Front(frames), "parse")
    BY <1>1, <1>8 DEF Places
  <2>2. /\ frames' \in Seq(Places) /\ Stacked(frames', statu) /\ frames' # <<>>
        /\ \A p : Top(frames', p) <=> p = "parse"
    BY <1>4, <2>1, StackPush
  <2>3. Top(frames', "parse") /\ ~Top(frames', "respond") /\ ~Top(frames', "finish")
    BY <2>2
  <2>4. Types'
    BY <1>1, <1>2, <2>2 DEF Types
  <2>5. Phase(frames', context', buffer')
    BY <1>1, <1>6, <1>8, <2>3 DEF Phase
  <2>6. InSync(script, frames, context, delivered, buffer, replies)
          => InSync(script', frames', context', delivered', buffer', replies')
    BY <1>1, <2>2, <2>3 DEF InSync, Waits
  <2> QED
    BY <1>1, <1>2, <2>2, <2>4, <2>5, <2>6 DEF HttpInv
<1> QED
  BY <1>7, <1>8

(* RecvHttpRequest stays on top of the stack, or is left with what it has. *)
LEMMA GotoRespond ==
  ASSUME HttpInv, frames # <<>>
  PROVE  LET h == Goto("respond")
         IN  /\ h \in Seq(Places) /\ Stacked(h, statu) /\ h # <<>>
             /\ ~Top(h, "parse") /\ ~Top(h, "finish") /\ Top(h, "respond")
<1>1. frames \in Seq(Places) /\ Stacked(frames, statu)
  BY DEF HttpInv, Types
<1> DEFINE g == Front(frames)
<1>2. /\ g \in Seq(Places) /\ Stacked(g, statu) /\ ~Top(g, "parse") /\ ~Top(g, "respond")
  BY <1>1, StackReturn
<1>3. "respond" \in Places
  BY DEF Places
<1> HIDE DEF g
<1> DEFINE h == Append(g, "respond")
<1>4. h \in Seq(Places) /\ Stacked(h, statu) /\ h # <<>> /\ \A p : Top(h, p) <=> p = "respond"
  BY <1>2, <1>3, StackPush
<1> HIDE DEF h
<1>5. ~Top(h, "parse") /\ ~Top(h, "finish") /\ Top(h, "respond")
  BY <1>4
<1> QED
  BY <1>4, <1>5 DEF h, g, Goto

(* What GetLineAndPop leaves still comes from the input. *)
LEMMA BehindInput ==
  ASSUME NEW s, NEW d \in Nat, NEW buf \in Seq(Symbol), Len(buf) <= d, FromInput(s, d, buf)
  PROVE  /\ Behind(buf) \in Seq(Symbol) /\ Len(Behind(buf)) <= d
         /\ FromInput(s, d, Behind(buf))
<1> DEFINE t == LineLength(buf)
           b2 == Behind(buf)
<1>1. /\ b2 \in Seq(Symbol) /\ t \in 0 .. Len(buf) /\ Len(b2) = Len(buf) - t
      /\ \A p \in 1 .. Len(b2) : b2[p] = buf[t + p]
  BY LineType
<1> HIDE DEF b2, t
<1>2. IsRest(b2, buf, t)
  BY <1>1 DEF IsRest
<1>3. FromInput(s, d, b2) /\ Len(b2) <= d
  BY <1>2, Consumed
<1> QED
  BY <1>1, <1>3 DEF b2

(* ReadLine keeps the position, by LinePosition. *)
LEMMA ReadLineInv ==
  HttpInv /\ ReadLine => HttpInv'
<1> SUFFICES ASSUME HttpInv, ReadLine PROVE HttpInv'
  OBVIOUS
<1>1. /\ Top(frames, "parse") /\ frames # <<>> /\ context.recv = "line"
      /\ context' = RecvHttpLine(context, buffer) /\ buffer' = Behind(buffer)
      /\ frames' = IF context'.recv = "head" THEN frames ELSE Goto("respond")
      /\ script' = script /\ delivered' = delivered /\ eof' = eof /\ left' = left /\ statu' = statu
      /\ unsent' = unsent /\ writing' = writing /\ replies' = replies
  BY TopOf DEF ReadLine, Top
<1>2. /\ Types /\ Stacked(frames, statu) /\ Phase(frames, context, buffer)
      /\ FromInput(script, delivered, buffer)
      /\ Lost(script, replies) \/ InSync(script, frames, context, delivered, buffer, replies)
      /\ statu # "CONNECTED" => eof \/ left = 0 \/ FinalSeen(script, replies)
  BY DEF HttpInv
<1>3. /\ script \in Scripts /\ delivered \in Nat /\ buffer \in Seq(Symbol)
      /\ Len(buffer) <= delivered /\ ContextOK(context) /\ frames \in Seq(Places)
      /\ delivered \in 0 .. Len(InputOf(script)) /\ replies \in Seq(Reply)
  BY <1>2 DEF Types
<1>4. /\ ContextOK(context') /\ context'.recv \in {"line", "head", "error"}
  BY <1>1, <1>3, RecvLineWorks
<1>5. /\ buffer' \in Seq(Symbol) /\ Len(buffer') <= delivered
      /\ FromInput(script, delivered, buffer')
  BY <1>1, <1>2, <1>3, BehindInput
<1>6. /\ frames' \in Seq(Places) /\ Stacked(frames', statu) /\ frames' # <<>>
      /\ ~Top(frames', "finish")
      /\ Top(frames', "parse") => context'.recv = "head"
      /\ Top(frames', "respond") => context'.recv # "head"
      /\ ~Top(frames', "respond") => context'.recv = "head"
  <2>1. CASE context'.recv = "head"
    <3>1. frames' = frames /\ ~Top(frames, "finish") /\ ~Top(frames, "respond")
      BY <1>1, <2>1 DEF Top
    <3> QED
      BY <1>1, <1>2, <1>3, <2>1, <3>1
  <2>2. CASE context'.recv # "head"
    <3>1. frames' = Goto("respond")
      BY <1>1, <2>2
    <3> QED
      BY <1>1, <2>2, <3>1, GotoRespond
  <2> QED
    BY <2>1, <2>2
<1>7. Types'
  BY <1>1, <1>2, <1>4, <1>5, <1>6 DEF Types
<1>8. Phase(frames', context', buffer')
  BY <1>4, <1>6 DEF Phase, BodyMissing
<1>9. ASSUME InSync(script, frames, context, delivered, buffer, replies)
      PROVE  InSync(script', frames', context', delivered', buffer', replies')
  <2>1. buffer # <<>> /\ delivered <= Len(InputOf(script)) /\ Len(replies) \in Nat
    BY <1>1, <1>2, <1>3 DEF Phase
  <2>2. Position(script, context, delivered - Len(buffer), Len(replies))
    BY <1>9 DEF InSync
  <2>3. /\ Position(script, context', delivered - Len(buffer'), Len(replies))
        /\ context'.recv = "line" => NoMore(script, delivered, Len(replies))
    BY <1>1, <1>2, <1>3, <2>1, <2>2, LinePosition
  <2>4. Waits(frames', context') => context'.recv = "line"
    BY <1>4, <1>6 DEF Waits
  <2> QED
    BY <1>1, <1>9, <2>3, <2>4 DEF InSync
<1> QED
  BY <1>1, <1>2, <1>5, <1>6, <1>7, <1>8, <1>9 DEF HttpInv

(* ReadHead keeps the position, by HeadPosition. *)
LEMMA ReadHeadInv ==
  HttpInv /\ ReadHead => HttpInv'
<1> SUFFICES ASSUME HttpInv, ReadHead PROVE HttpInv'
  OBVIOUS
<1>1. /\ Top(frames, "parse") /\ frames # <<>> /\ context.recv = "head"
      /\ context' = RecvHttpHead(context, buffer) /\ buffer' = Behind(buffer)
      /\ frames' = IF Line(buffer) = <<>> \/ context'.recv = "error"
                   THEN Goto("respond") ELSE frames
      /\ script' = script /\ delivered' = delivered /\ eof' = eof /\ left' = left /\ statu' = statu
      /\ unsent' = unsent /\ writing' = writing /\ replies' = replies
  BY TopOf DEF ReadHead, Top
<1>2. /\ Types /\ Stacked(frames, statu) /\ Phase(frames, context, buffer)
      /\ FromInput(script, delivered, buffer)
      /\ Lost(script, replies) \/ InSync(script, frames, context, delivered, buffer, replies)
      /\ statu # "CONNECTED" => eof \/ left = 0 \/ FinalSeen(script, replies)
  BY DEF HttpInv
<1>3. /\ script \in Scripts /\ delivered \in Nat /\ buffer \in Seq(Symbol)
      /\ Len(buffer) <= delivered /\ ContextOK(context) /\ frames \in Seq(Places)
      /\ replies \in Seq(Reply)
  BY <1>2 DEF Types
<1>4. /\ ContextOK(context') /\ context'.recv \in {"head", "body", "error"}
      /\ Line(buffer) = <<>> /\ context'.recv # "error" => context' = context
  BY <1>1, <1>3, RecvHeadWorks
<1>5. /\ buffer' \in Seq(Symbol) /\ Len(buffer') <= delivered
      /\ FromInput(script, delivered, buffer')
  BY <1>1, <1>2, <1>3, BehindInput
<1>6. /\ frames' \in Seq(Places) /\ Stacked(frames', statu) /\ frames' # <<>>
      /\ ~Top(frames', "finish")
      /\ Top(frames', "parse") => context'.recv \in {"head", "body"}
      /\ Top(frames', "respond") => /\ context'.recv \in {"head", "error"}
                                    /\ context'.recv = "head" => Line(buffer) = <<>>
      /\ ~Top(frames', "respond") =>
           context'.recv \in {"head", "body"} /\ Top(frames', "parse")
  <2>1. CASE ~(Line(buffer) = <<>> \/ context'.recv = "error")
    <3>1. frames' = frames /\ ~Top(frames, "finish") /\ ~Top(frames, "respond")
      BY <1>1, <2>1 DEF Top
    <3> QED
      BY <1>1, <1>2, <1>3, <1>4, <2>1, <3>1
  <2>2. CASE Line(buffer) = <<>> \/ context'.recv = "error"
    <3>1. frames' = Goto("respond")
      BY <1>1, <2>2
    <3>2. context'.recv \in {"head", "error"} /\ (context'.recv = "head" => Line(buffer) = <<>>)
      BY <1>1, <1>4, <2>2
    <3> QED
      BY <1>1, <3>1, <3>2, GotoRespond
  <2> QED
    BY <2>1, <2>2
<1>7. Types'
  BY <1>1, <1>2, <1>4, <1>5, <1>6 DEF Types
<1>8. Phase(frames', context', buffer')
  BY <1>4, <1>6 DEF Phase, BodyMissing
<1>9. ASSUME InSync(script, frames, context, delivered, buffer, replies)
      PROVE  InSync(script', frames', context', delivered', buffer', replies')
  <2>1. Len(replies) \in Nat
    BY <1>3
  <2>2. Position(script, context, delivered - Len(buffer), Len(replies))
    BY <1>9 DEF InSync
  <2>3. /\ Position(script, context', delivered - Len(buffer'), Len(replies))
        /\ Line(buffer) = <<>> /\ context'.recv # "error" =>
             NoMore(script, delivered, Len(replies))
    BY <1>1, <1>2, <1>3, <2>1, <2>2, HeadPosition
  <2>4. Waits(frames', context') => Line(buffer) = <<>> /\ context'.recv # "error"
    BY <1>4, <1>6 DEF Waits
  <2> QED
    BY <1>1, <1>9, <2>3, <2>4 DEF InSync
<1> QED
  BY <1>1, <1>2, <1>5, <1>6, <1>7, <1>8, <1>9 DEF HttpInv

(* ReadBody keeps the position, by BodyPosition. *)
LEMMA ReadBodyInv ==
  HttpInv /\ ReadBody => HttpInv'
<1> SUFFICES ASSUME HttpInv, ReadBody PROVE HttpInv'
  OBVIOUS
<1>1. /\ Top(frames, "parse") /\ frames # <<>> /\ context.recv = "body"
      /\ context' = RecvHttpBody(context, buffer)
      /\ buffer' = SubSeq(buffer, BodyTaken(context, buffer) + 1, Len(buffer))
      /\ frames' = Goto("respond")
      /\ script' = script /\ delivered' = delivered /\ eof' = eof /\ left' = left /\ statu' = statu
      /\ unsent' = unsent /\ writing' = writing /\ replies' = replies
  BY TopOf DEF ReadBody, Top
<1>2. /\ Types /\ Stacked(frames, statu) /\ Phase(frames, context, buffer)
      /\ FromInput(script, delivered, buffer)
      /\ Lost(script, replies) \/ InSync(script, frames, context, delivered, buffer, replies)
      /\ statu # "CONNECTED" => eof \/ left = 0 \/ FinalSeen(script, replies)
  BY DEF HttpInv
<1>3. /\ script \in Scripts /\ delivered \in Nat /\ buffer \in Seq(Symbol)
      /\ Len(buffer) <= delivered /\ ContextOK(context) /\ frames \in Seq(Places)
      /\ replies \in Seq(Reply)
  BY <1>2 DEF Types
<1>4. /\ ContextOK(context') /\ context'.recv \in {"body", "over"}
      /\ context'.recv = "body" => context'.request.body < ContentLength(context'.request)
  BY <1>1, <1>3, RecvBodyWorks
<1>5. /\ buffer' \in Seq(Symbol) /\ Len(buffer') <= delivered
      /\ FromInput(script, delivered, buffer')
  <2> DEFINE t == BodyTaken(context, buffer)
             b2 == SubSeq(buffer, t + 1, Len(buffer))
  <2>1. t \in 0 .. Len(buffer)
    BY <1>1, <1>3, RecvBodyWorks
  <2> HIDE DEF t
  <2>2. /\ b2 \in Seq(Symbol) /\ Len(b2) = Len(buffer) - t
        /\ \A p \in 1 .. Len(b2) : b2[p] = buffer[t + p]
    BY <1>3, <2>1
  <2>3. buffer' = b2
    BY <1>1 DEF t
  <2> HIDE DEF b2
  <2>4. IsRest(b2, buffer, t)
    BY <2>1, <2>2 DEF IsRest
  <2> QED
    BY <1>2, <1>3, <2>2, <2>3, <2>4, Consumed
<1>6. /\ frames' \in Seq(Places) /\ Stacked(frames', statu) /\ frames' # <<>>
      /\ ~Top(frames', "parse") /\ ~Top(frames', "finish") /\ Top(frames', "respond")
  BY <1>1, GotoRespond
<1>7. Types'
  BY <1>1, <1>2, <1>4, <1>5, <1>6 DEF Types
<1>8. Phase(frames', context', buffer')
  BY <1>4, <1>6 DEF Phase, BodyMissing
<1>9. ASSUME InSync(script, frames, context, delivered, buffer, replies)
      PROVE  InSync(script', frames', context', delivered', buffer', replies')
  <2>1. Len(replies) \in Nat
    BY <1>3
  <2>2. Position(script, context, delivered - Len(buffer), Len(replies))
    BY <1>9 DEF InSync
  <2>3. /\ Position(script, context', delivered - Len(buffer'), Len(replies))
        /\ context'.recv = "body" => NoMore(script, delivered, Len(replies))
    BY <1>1, <1>2, <1>3, <2>1, <2>2, BodyPosition
  <2>4. Waits(frames', context') => context'.recv = "body"
    BY <1>4, <1>6 DEF Waits
  <2> QED
    BY <1>1, <1>9, <2>3, <2>4 DEF InSync
<1> QED
  BY <1>1, <1>2, <1>5, <1>6, <1>7, <1>8, <1>9 DEF HttpInv

(* What goes on when OnMessage is left, or when its loop goes on. *)
LEMMA GoOn ==
  ASSUME HttpInv, frames # <<>>, NEW st, statu # "CONNECTED" => st # "CONNECTED"
  PROVE  /\ Return \in Seq(Places) /\ Stacked(Return, st)
         /\ ~Top(Return, "parse") /\ ~Top(Return, "respond")
         /\ Goto("while") \in Seq(Places) /\ Stacked(Goto("while"), st)
         /\ Goto("while") # <<>> /\ ~Top(Goto("while"), "parse")
         /\ ~Top(Goto("while"), "respond") /\ ~Top(Goto("while"), "finish")
<1>1. frames \in Seq(Places) /\ Stacked(frames, statu)
  BY DEF HttpInv, Types
<1> DEFINE g == Front(frames)
<1>2. /\ g \in Seq(Places) /\ Stacked(g, st) /\ ~Top(g, "parse") /\ ~Top(g, "respond")
  BY <1>1, StackReturn
<1>3. "while" \in Places
  BY DEF Places
<1> HIDE DEF g
<1> DEFINE h == Append(g, "while")
<1>4. h \in Seq(Places) /\ Stacked(h, st) /\ h # <<>> /\ \A p : Top(h, p) <=> p = "while"
  BY <1>2, <1>3, StackPush
<1> HIDE DEF h
<1>5. ~Top(h, "parse") /\ ~Top(h, "finish") /\ ~Top(h, "respond")
  BY <1>4
<1> QED
  BY <1>2, <1>4, <1>5 DEF h, g, Goto, Return

(* RespondError: the reply is right, and from here on the place in the     *)
(* input is lost.                                                          *)
LEMMA RespondErrorInv ==
  HttpInv /\ RespondError => HttpInv'
<1> SUFFICES ASSUME HttpInv, RespondError PROVE HttpInv'
  OBVIOUS
<1> DEFINE reply == Complete(context.request, ErrorHandler(HttpResponse(context.resp)))
<1>1. /\ Top(frames, "respond") /\ frames # <<>> /\ context.resp >= 400
      /\ replies' = Append(replies, reply) /\ unsent' = unsent + 1 /\ writing' = TRUE
      /\ context' = Fresh /\ buffer' = <<>> /\ statu' = "DISCONNECTING"
      /\ frames' = Return \o Shutdown(<<>>)
      /\ script' = script /\ delivered' = delivered /\ eof' = eof /\ left' = left
  BY TopOf DEF RespondError, WriteReponse, Top
<1>2. /\ Types /\ Stacked(frames, statu) /\ Phase(frames, context, buffer)
      /\ Lost(script, replies) \/ InSync(script, frames, context, delivered, buffer, replies)
  BY DEF HttpInv
<1>3. /\ script \in Scripts /\ delivered \in Nat /\ buffer \in Seq(Symbol)
      /\ Len(buffer) <= delivered /\ ContextOK(context)
      /\ replies \in Seq(Reply) /\ unsent \in 0 .. Len(replies)
  BY <1>2 DEF Types
<1>4. /\ context.recv = "error" /\ context.resp \in {400, 414} /\ context.request \in RequestType
  BY <1>1, <1>3 DEF ContextOK, ContextType
<1>5. reply \in Reply
  <2>1. HttpResponse(context.resp) \in Responses
    BY <1>4, ResponseTypes
  <2>2. ErrorHandler(HttpResponse(context.resp)) \in Responses
    BY <2>1, ResponseTypes DEF ErrorHandler
  <2> QED
    BY <1>4, <2>2, CompleteTypes
<1> HIDE DEF reply
<1>6. /\ replies' \in Seq(Reply) /\ Len(replies') = Len(replies) + 1
      /\ Lost(script, replies) => Lost(script, replies')
  BY <1>1, <1>3, <1>5, RepliesKept
<1>7. InSync(script, frames, context, delivered, buffer, replies) => Lost(script, replies')
  <2> SUFFICES ASSUME InSync(script, frames, context, delivered, buffer, replies)
               PROVE  Lost(script, replies')
    OBVIOUS
  <2> DEFINE k == Len(replies)
             at == delivered - Len(buffer)
  <2>1. k \in Nat /\ at \in Nat
    BY <1>3
  <2>2. Position(script, context, at, k) /\ RightReplies(script, replies)
    BY DEF InSync
  <2> HIDE DEF at
  <2>3. /\ k \in 0 .. Len(script) - 1 /\ Faulty(script[k + 1]) # {}
        /\ reply \in Answers(script[k + 1])
    BY <1>3, <1>4, <2>1, <2>2, ErrorRight DEF reply
  <2>4. Len(script) \in Nat
    BY <1>3, Steps
  <2> QED
    BY <1>1, <1>3, <1>5, <2>2, <2>3, <2>4, RightReply
<1>8. Lost(script, replies') /\ FinalSeen(script, replies')
  BY <1>2, <1>6, <1>7, LostSeen
<1>9. /\ frames' \in Seq(Places) /\ Stacked(frames', statu')
      /\ ~Top(frames', "parse") /\ ~Top(frames', "respond")
  <2>1. statu' # "CONNECTED"
    BY <1>1
  <2>2. /\ Return \in Seq(Places) /\ Stacked(Return, statu')
        /\ ~Top(Return, "parse") /\ ~Top(Return, "respond")
    BY <1>1, <2>1, GoOn
  <2> QED
    BY <1>1, <2>1, <2>2, ShutdownStack
<1>10. /\ buffer' \in Seq(Symbol) /\ Len(buffer') <= delivered'
       /\ FromInput(script, delivered', buffer')
  <2>1. /\ <<>> \in Seq(Symbol) /\ Len(<<>>) <= delivered
        /\ \A p \in 1 .. Len(<<>>) : FALSE
    BY <1>3
  <2> QED
    BY <1>1, <2>1 DEF FromInput
<1>11. unsent' \in 0 .. Len(replies')
  <2> DEFINE n == Len(replies)
             m == Len(replies')
  <2>1. n \in Nat /\ unsent \in 0 .. n /\ m = n + 1
    BY <1>3, <1>6
  <2> HIDE DEF n, m
  <2>2. unsent + 1 \in 0 .. m
    BY <2>1
  <2> QED
    BY <1>1, <2>2 DEF m
<1>12. Types'
  BY <1>1, <1>2, <1>6, <1>9, <1>10, <1>11, FreshOK DEF Types
<1>13. Phase(frames', context', buffer')
  BY <1>1, <1>9 DEF Phase, BodyMissing, Fresh
<1> QED
  BY <1>1, <1>8, <1>9, <1>10, <1>12, <1>13 DEF HttpInv

(* RespondLater: the request is not complete, so that nothing is due. *)
LEMMA RespondLaterInv ==
  HttpInv /\ RespondLater => HttpInv'
<1> SUFFICES ASSUME HttpInv, RespondLater PROVE HttpInv'
  OBVIOUS
<1>1. /\ Top(frames, "respond") /\ frames # <<>>
      /\ context.resp < 400 /\ context.recv # "over" /\ frames' = Return
      /\ script' = script /\ delivered' = delivered /\ buffer' = buffer /\ context' = context
      /\ unsent' = unsent /\ writing' = writing /\ replies' = replies
      /\ eof' = eof /\ left' = left /\ statu' = statu
  BY TopOf DEF RespondLater, Top
<1>2. /\ Types /\ Stacked(frames, statu) /\ Phase(frames, context, buffer)
      /\ FromInput(script, delivered, buffer)
      /\ Lost(script, replies) \/ InSync(script, frames, context, delivered, buffer, replies)
      /\ statu # "CONNECTED" => eof \/ left = 0 \/ FinalSeen(script, replies)
  BY DEF HttpInv
<1>3. context.recv \in {"line", "head", "body"}
  <2>1. ContextOK(context)
    BY <1>2 DEF Types
  <2> QED
    BY <1>1, <2>1 DEF ContextOK, ContextType
<1>4. BodyMissing(context)
  BY <1>1, <1>2 DEF Phase, Top
<1>5. /\ frames' \in Seq(Places) /\ Stacked(frames', statu)
      /\ ~Top(frames', "parse") /\ ~Top(frames', "respond")
  BY <1>1, GoOn
<1>6. Types'
  BY <1>1, <1>2, <1>5 DEF Types
<1>7. Phase(frames', context', buffer')
  BY <1>1, <1>3, <1>4, <1>5 DEF Phase
<1>8. InSync(script, frames, context, delivered, buffer, replies)
        => InSync(script', frames', context', delivered', buffer', replies')
  BY <1>1, <1>3 DEF InSync, Waits
<1> QED
  BY <1>1, <1>2, <1>5, <1>6, <1>7, <1>8 DEF HttpInv

(* Respond: the reply is right, the next request is at the front of the    *)
(* buffer, and a close is announced before the connection is shut down.    *)
LEMMA RespondInv ==
  HttpInv /\ Respond => HttpInv'
<1> SUFFICES ASSUME HttpInv, Respond PROVE HttpInv'
  OBVIOUS
<1>1. PICK reply \in Replies(context.request) :
        /\ WriteReponse(reply)
        /\ IF Close(reply)
           THEN /\ statu' = "DISCONNECTING"
                /\ frames' = Goto("while") \o Shutdown(buffer)
           ELSE frames' = Goto("while") /\ UNCHANGED statu
  BY DEF Respond
<1>2. /\ Top(frames, "respond") /\ frames # <<>> /\ context.recv = "over"
      /\ replies' = Append(replies, reply) /\ unsent' = unsent + 1 /\ writing' = TRUE
      /\ context' = Fresh
      /\ script' = script /\ delivered' = delivered /\ eof' = eof /\ left' = left /\ buffer' = buffer
  BY <1>1, TopOf DEF Respond, WriteReponse, Top
<1>3. /\ Types /\ Stacked(frames, statu)
      /\ FromInput(script, delivered, buffer)
      /\ Lost(script, replies) \/ InSync(script, frames, context, delivered, buffer, replies)
      /\ statu # "CONNECTED" => eof \/ left = 0 \/ FinalSeen(script, replies)
  BY DEF HttpInv
<1>4. /\ script \in Scripts /\ delivered \in Nat /\ buffer \in Seq(Symbol)
      /\ Len(buffer) <= delivered /\ ContextOK(context)
      /\ replies \in Seq(Reply) /\ unsent \in 0 .. Len(replies)
      /\ statu \in {"CONNECTED", "DISCONNECTING", "DISCONNECTED"}
  BY <1>3 DEF Types
<1>5. PICK rsp \in Route(context.request, HttpResponse(context.resp)) :
        reply = Complete(context.request, rsp)
  BY DEF Replies
<1>6. reply \in Reply
  <2>1. context.resp \in Nat /\ context.request \in RequestType
    BY <1>4 DEF ContextOK, ContextType
  <2>2. HttpResponse(context.resp) \in Responses
    BY <2>1, ResponseTypes
  <2>3. rsp \in Responses
    BY <2>2, RouteTypes
  <2> QED
    BY <1>5, <2>1, <2>3, CompleteTypes
<1>7. /\ replies' \in Seq(Reply) /\ Len(replies') = Len(replies) + 1
      /\ Lost(script, replies) => Lost(script, replies')
      /\ FinalSeen(script, replies) => FinalSeen(script, replies')
  BY <1>2, <1>4, <1>6, RepliesKept
<1>8. /\ frames' \in Seq(Places) /\ Stacked(frames', statu') /\ frames' # <<>>
      /\ ~Top(frames', "parse") /\ ~Top(frames', "respond")
      /\ Top(frames', "finish") => buffer = <<>>
      /\ statu' \in {"CONNECTED", "DISCONNECTING", "DISCONNECTED"}
  <2>1. CASE Close(reply)
    <3>1. statu' = "DISCONNECTING" /\ frames' = Goto("while") \o Shutdown(buffer)
      BY <1>1, <2>1
    <3>2. statu' # "CONNECTED"
      BY <3>1
    <3> DEFINE g == Goto("while")
    <3>3. /\ g \in Seq(Places) /\ Stacked(g, statu') /\ ~Top(g, "parse") /\ ~Top(g, "respond")
      BY <1>2, <3>2, GoOn
    <3> HIDE DEF g
    <3>4. frames' = g \o Shutdown(buffer)
      BY <3>1 DEF g
    <3> DEFINE h == g \o Shutdown(buffer)
    <3>5. /\ h \in Seq(Places) /\ Stacked(h, statu') /\ h # <<>>
          /\ ~Top(h, "parse") /\ ~Top(h, "respond") /\ (Top(h, "finish") => buffer = <<>>)
      BY <3>2, <3>3, ShutdownStack
    <3> HIDE DEF h
    <3>6. frames' = h
      BY <3>4 DEF h
    <3> QED
      BY <3>1, <3>5, <3>6
  <2>2. CASE ~Close(reply)
    <3>1. statu' = statu /\ frames' = Goto("while")
      BY <1>1, <2>2
    <3> QED
      BY <1>2, <1>4, <3>1, GoOn
  <2> QED
    BY <2>1, <2>2
<1>9. unsent' \in 0 .. Len(replies')
  <2> DEFINE n == Len(replies)
             m == Len(replies')
  <2>1. n \in Nat /\ unsent \in 0 .. n /\ m = n + 1
    BY <1>4, <1>7
  <2> HIDE DEF n, m
  <2>2. unsent + 1 \in 0 .. m
    BY <2>1
  <2> QED
    BY <1>2, <2>2 DEF m
<1>10. Types'
  BY <1>2, <1>3, <1>7, <1>8, <1>9, FreshOK DEF Types
<1>11. Phase(frames', context', buffer')
  BY <1>2, <1>8 DEF Phase, BodyMissing, Fresh
<1>12. ASSUME InSync(script, frames, context, delivered, buffer, replies)
       PROVE  /\ InSync(script', frames', context', delivered', buffer', replies')
              /\ Close(reply) => FinalSeen(script, replies')
  <2> DEFINE k == Len(replies)
             at == delivered - Len(buffer)
  <2>1. k \in Nat /\ at \in Nat
    BY <1>4
  <2>2. Position(script, context, at, k) /\ RightReplies(script, replies)
    BY <1>12 DEF InSync
  <2> HIDE DEF at
  <2>3. /\ k \in 0 .. Len(script) - 1 /\ Faulty(script[k + 1]) = {}
        /\ at = Start(script, k + 1) /\ reply \in Answers(script[k + 1])
    <3> HIDE DEF k
    <3>1. script \in Scripts /\ k \in Nat /\ at \in Nat /\ ReadAll(script, context, at, k)
      BY <1>2, <1>4, <2>1, <2>2 DEF ReadAll
    <3>2. /\ k \in 0 .. Len(script) - 1 /\ Faulty(script[k + 1]) = {}
          /\ at = Start(script, k + 1)
      <4>1. Served(script, context, at, k)
        BY <3>1, AnswerPlace
      <4> QED
        BY <4>1 DEF Served
    <3>3. Complete(context.request, rsp) \in Answers(script[k + 1])
      BY <1>4, <3>1, AnswerRight
    <3> QED
      BY <1>5, <3>2, <3>3
  <2>4. Len(script) \in Nat /\ k + 1 \in 0 .. Len(script)
    BY <1>4, <2>3, Steps
  <2>5. RightReplies(script, replies') /\ (Close(reply) => FinalSeen(script, replies'))
    BY <1>2, <1>4, <1>6, <2>2, <2>3, <2>4, RightReply DEF Final
  <2>6. Position(script, context', at, k + 1)
    BY <1>2, <2>3, <2>4 DEF Position
  <2>7. Waits(frames', context') => NoMore(script, delivered, k + 1)
    <3> SUFFICES ASSUME Waits(frames', context') PROVE NoMore(script, delivered, k + 1)
      OBVIOUS
    <3>1. buffer = <<>>
      BY <1>8 DEF Waits
    <3>2. at = delivered
      BY <1>4, <3>1 DEF at
    <3>3. ContextOK(Fresh) /\ Fresh.recv = "line" /\ BodyMissing(Fresh)
      BY FreshOK DEF Fresh, BodyMissing
    <3> QED
      BY <1>2, <1>4, <2>1, <2>6, <3>2, <3>3, PositionWaits
  <2>8. Position(script', context', delivered' - Len(buffer'), Len(replies'))
    BY <1>2, <1>7, <2>6 DEF at
  <2> QED
    BY <1>2, <1>7, <2>5, <2>7, <2>8 DEF InSync
<1>13. statu' # "CONNECTED" => eof' \/ left' = 0 \/ FinalSeen(script, replies')
  <2>1. CASE Close(reply)
    BY <1>3, <1>7, <1>12, <2>1, LostSeen
  <2>2. CASE ~Close(reply)
    BY <1>1, <1>2, <1>3, <1>7, <2>2
  <2> QED
    BY <2>1, <2>2
<1> QED
  BY <1>2, <1>3, <1>7, <1>8, <1>10, <1>11, <1>12, <1>13 DEF HttpInv

(* FinishShutdown: the end of ShutdownInLoop is reached only in a          *)
(* connection that is being shut down.                                     *)
LEMMA FinishShutdownInv ==
  HttpInv /\ FinishShutdown => HttpInv'
<1> SUFFICES ASSUME HttpInv, FinishShutdown PROVE HttpInv'
  OBVIOUS
<1>1. /\ Top(frames, "finish") /\ frames # <<>> /\ frames' = Return
      /\ script' = script /\ delivered' = delivered /\ buffer' = buffer /\ context' = context
      /\ unsent' = unsent /\ replies' = replies /\ eof' = eof /\ left' = left
      /\ \/ writing' = TRUE /\ statu' = statu
         \/ writing' = writing /\ statu' = "DISCONNECTED"
  BY TopOf DEF FinishShutdown, Top
<1>2. /\ Types /\ Stacked(frames, statu) /\ Phase(frames, context, buffer)
      /\ FromInput(script, delivered, buffer)
      /\ Lost(script, replies) \/ InSync(script, frames, context, delivered, buffer, replies)
      /\ statu # "CONNECTED" => eof \/ left = 0 \/ FinalSeen(script, replies)
  BY DEF HttpInv
<1>3. statu # "CONNECTED" /\ frames \in Seq(Places)
  <2>1. frames \in Seq(Places)
    BY <1>2 DEF Types
  <2>2. Len(frames) \in Nat \ {0} /\ frames[Len(frames)] = "finish"
    BY <1>1, <2>1, StackTop DEF Top
  <2>3. Len(frames) \in 1 .. Len(frames)
    BY <2>2
  <2> QED
    BY <1>2, <2>1, <2>2, <2>3 DEF Stacked
<1>4. /\ frames' \in Seq(Places) /\ Stacked(frames', statu')
      /\ ~Top(frames', "parse") /\ ~Top(frames', "respond")
  BY <1>1, GoOn
<1>5. writing' \in BOOLEAN /\ statu' \in {"CONNECTED", "DISCONNECTING", "DISCONNECTED"}
  BY <1>1, <1>2 DEF Types
<1>6. Types'
  BY <1>1, <1>2, <1>4, <1>5 DEF Types
<1>7. ~Top(frames, "parse") /\ ~Top(frames, "respond")
  BY <1>1 DEF Top
<1>8. Phase(frames', context', buffer')
  BY <1>1, <1>2, <1>4, <1>7 DEF Phase
<1>9. InSync(script, frames, context, delivered, buffer, replies)
        => InSync(script', frames', context', delivered', buffer', replies')
  BY <1>1 DEF InSync, Waits
<1> QED
  BY <1>1, <1>2, <1>3, <1>4, <1>6, <1>8, <1>9 DEF HttpInv

(* HandleWrite releases only a connection that is being shut down. *)
LEMMA HandleWriteInv ==
  HttpInv /\ HandleWrite => HttpInv'
<1> SUFFICES ASSUME HttpInv, HandleWrite PROVE HttpInv'
  OBVIOUS
<1>1. PICK rest \in 0 .. unsent - 1 :
        /\ unsent' = rest /\ writing' = (rest > 0)
        /\ statu' = IF rest = 0 /\ statu = "DISCONNECTING" THEN "DISCONNECTED" ELSE statu
  BY DEF HandleWrite
<1>2. /\ frames = <<>> /\ frames' = frames
      /\ script' = script /\ delivered' = delivered /\ buffer' = buffer /\ context' = context
      /\ replies' = replies /\ eof' = eof
  BY DEF HandleWrite, Idle
<1>3. /\ Types /\ Phase(frames, context, buffer)
      /\ FromInput(script, delivered, buffer)
      /\ Lost(script, replies) \/ InSync(script, frames, context, delivered, buffer, replies)
      /\ statu # "CONNECTED" => eof \/ left = 0 \/ FinalSeen(script, replies)
  BY DEF HttpInv
<1>4. /\ unsent' \in 0 .. Len(replies) /\ writing' \in BOOLEAN
      /\ statu' \in {"CONNECTED", "DISCONNECTING", "DISCONNECTED"}
      /\ statu' # "CONNECTED" => statu # "CONNECTED"
  <2>1. /\ unsent \in 0 .. Len(replies) /\ replies \in Seq(Reply)
        /\ statu \in {"CONNECTED", "DISCONNECTING", "DISCONNECTED"}
    BY <1>3 DEF Types
  <2> DEFINE n == Len(replies)
  <2>2. n \in Nat /\ unsent \in 0 .. n
    BY <2>1
  <2> HIDE DEF n
  <2>3. unsent' \in 0 .. n
    BY <1>1, <2>2
  <2>4. writing' \in BOOLEAN
    BY <1>1
  <2> QED
    BY <1>1, <2>1, <2>3, <2>4 DEF n
<1>7. left' \in 0 .. Timeout /\ (left = 0 => left' = 0)
  BY <1>3, TimerRefreshed DEF HandleWrite, Types
<1>5. Types'
  BY <1>2, <1>3, <1>4, <1>7 DEF Types
<1>6. Stacked(frames', statu')
  BY <1>2, EmptyStack
<1> QED
  BY <1>2, <1>3, <1>4, <1>5, <1>6, <1>7 DEF HttpInv

(* OnTime: when the timer runs out, the connection may be released. *)
LEMMA OnTimeInv ==
  HttpInv /\ OnTime => HttpInv'
<1> SUFFICES ASSUME HttpInv, OnTime PROVE HttpInv'
  OBVIOUS
<1>1. /\ frames' = frames /\ statu' = statu /\ left > 0 /\ left' = left - 1
      /\ script' = script /\ delivered' = delivered /\ buffer' = buffer /\ context' = context
      /\ unsent' = unsent /\ writing' = writing /\ replies' = replies /\ eof' = eof
  BY DEF OnTime
<1>2. left' \in 0 .. Timeout /\ left # 0
  <2>1. left \in 0 .. Timeout
    BY DEF HttpInv, Types
  <2> QED
    BY <1>1, <2>1, TimeoutAssumption
<1>3. Types'
  BY <1>1, <1>2 DEF HttpInv, Types
<1>4. statu' # "CONNECTED" => eof' \/ left' = 0 \/ FinalSeen(script', replies')
  BY <1>1, <1>2 DEF HttpInv
<1> QED
  BY <1>1, <1>3, <1>4 DEF HttpInv

(* ReleaseInLoop: the timer is the reason. *)
LEMMA ReleaseInLoopInv ==
  HttpInv /\ ReleaseInLoop => HttpInv'
<1> SUFFICES ASSUME HttpInv, ReleaseInLoop PROVE HttpInv'
  OBVIOUS
<1>1. /\ frames = <<>> /\ frames' = frames /\ statu' = "DISCONNECTED" /\ left' = left /\ left = 0
      /\ script' = script /\ delivered' = delivered /\ buffer' = buffer /\ context' = context
      /\ unsent' = unsent /\ writing' = writing /\ replies' = replies /\ eof' = eof
  BY DEF ReleaseInLoop, Idle
<1>2. Types'
  BY <1>1 DEF HttpInv, Types
<1>3. Stacked(frames', statu')
  BY <1>1, EmptyStack
<1> QED
  BY <1>1, <1>2, <1>3 DEF HttpInv

(* The invariant holds in every state, for any scripts of requests, files, *)
(* route tables and limit on a line.                                       *)
THEOREM HttpInvariant ==
  Spec => []HttpInv
<1>1. HttpInv /\ [Next]_vars => HttpInv'
  <2> SUFFICES ASSUME HttpInv, [Next]_vars PROVE HttpInv'
    OBVIOUS
  <2>1. CASE Next
    BY <2>1, HandleReadInv, PeerClosesInv, WhileInv, ReadLineInv, ReadHeadInv, ReadBodyInv,
       RespondErrorInv, RespondLaterInv, RespondInv, FinishShutdownInv, HandleWriteInv,
       OnTimeInv, ReleaseInLoopInv DEF Next, OnMessage
  <2>2. CASE UNCHANGED vars
    BY <2>2 DEF vars, HttpInv, Types
  <2> QED
    BY <2>1, <2>2
<1> QED
  BY <1>1, HttpInit, PTL DEF Spec
-----------------------------------------------------------------------------
(* The domain of a sequence. *)
LEMMA DomainOf ==
  ASSUME NEW S, NEW x \in Seq(S)
  PROVE  Len(x) \in Nat /\ DOMAIN x = 1 .. Len(x)
  OBVIOUS

(* The requests up to the first one that is refused. *)
LEMMA UnderstoodIs ==
  ASSUME script \in Scripts
  PROVE  /\ Understood \subseteq 1 .. Len(script) /\ DOMAIN script = 1 .. Len(script)
         /\ \A i \in 1 .. Len(script) :
              i \in Understood <=> \A j \in 1 .. i - 1 : Faulty(script[j]) = {}
<1>1. DOMAIN script = 1 .. Len(script)
  <2>1. script \in Seq(Message)
    BY WiresType
  <2> QED
    BY <2>1, DomainOf
<1> QED
  BY <1>1 DEF Understood

(* No request behind the first one that is refused is among them. *)
LEMMA UnderstoodLost ==
  ASSUME script \in Scripts, NEW j, FirstRefused(script, replies, j),
         NEW i \in Understood
  PROVE  i \in 1 .. j /\ j \in 1 .. Len(replies)
<1>1. j \in 1 .. Len(script) /\ j \in 1 .. Len(replies) /\ Faulty(script[j]) # {}
  BY DEF FirstRefused
<1>2. i \in 1 .. Len(script) /\ \A h \in 1 .. i - 1 : Faulty(script[h]) = {}
  BY UnderstoodIs
<1>3. j \notin 1 .. i - 1
  BY <1>1, <1>2
<1>4. i \in 1 .. j
  BY <1>1, <1>2, <1>3
<1> QED
  BY <1>1, <1>4

(* The type invariant of HttpServer: the parser's fields, the stack of     *)
(* OnMessage's calls and the counters of what has been read and is unsent  *)
(* stay in their ranges.                                                   *)
THEOREM ServerTypes ==
  Spec => []TypeOK
<1>1. HttpInv => TypeOK
  <2> SUFFICES ASSUME Types PROVE TypeOK
    BY DEF HttpInv
  <2> USE DEF Types
  <2>1. delivered \in 0 .. Len(Input)
    BY TopOf
  <2>2. /\ context.recv \in {"error", "line", "head", "body", "over"}
        /\ context.resp \in {200, 400, 414}
    BY DEF ContextOK, ContextType
  <2>3. context.request.body \in 0 .. ContentLength(context.request)
    <3>1. /\ context.request \in RequestType /\ context.request.body \in Nat
          /\ context.request.body <= ContentLength(context.request)
      BY DEF ContextOK, ContextType, RequestType
    <3> QED
      BY <3>1, LengthType
  <2>4. \A i \in DOMAIN frames : frames[i] \in {"while", "parse", "respond", "finish"}
    BY DEF Places
  <2> QED
    BY <2>1, <2>2, <2>3, <2>4 DEF TypeOK
<1> QED
  BY <1>1, HttpInvariant, PTL

(* Each request gets its own reply, in the order of the requests: no piece *)
(* in which the input arrives, no pipelining, no early return and no       *)
(* nested OnMessage makes the server answer a request twice, or with what  *)
(* belongs to another.                                                     *)
THEOREM ServerReplies ==
  Spec => []RepliesInOrder
<1>1. HttpInv => RepliesInOrder
  <2> SUFFICES ASSUME HttpInv PROVE RepliesInOrder
    OBVIOUS
  <2>1. /\ script \in Scripts /\ replies \in Seq(Reply) /\ buffer \in Seq(Symbol)
        /\ delivered \in Nat /\ Len(buffer) <= delivered
        /\ Lost(script, replies) \/ InSync(script, frames, context, delivered, buffer, replies)
    BY DEF HttpInv, Types
  <2>2. Len(replies) \in Nat /\ DOMAIN replies = 1 .. Len(replies)
    BY <2>1, DomainOf
  <2>3. CASE Lost(script, replies)
    <3>1. PICK j \in 1 .. Len(script) : FirstRefused(script, replies, j)
      BY <2>3 DEF Lost
    <3>2. ASSUME NEW i \in DOMAIN replies \cap Understood
          PROVE  replies[i] \in Answers(script[i])
      <4>1. i \in 1 .. j
        BY <2>1, <3>1, UnderstoodLost
      <4> QED
        BY <3>1, <4>1 DEF FirstRefused
    <3>3. j \in DOMAIN script /\ Faulty(script[j]) # {}
      BY <2>1, <3>1, UnderstoodIs DEF FirstRefused
    <3> QED
      BY <3>2, <3>3 DEF RepliesInOrder
  <2>4. CASE InSync(script, frames, context, delivered, buffer, replies)
    <3>1. \A i \in DOMAIN replies : replies[i] \in Answers(script[i])
      BY <2>2, <2>4 DEF InSync, RightReplies
    <3>2. Len(replies) <= Len(script)
      <4>1. Position(script, context, delivered - Len(buffer), Len(replies))
        BY <2>4 DEF InSync
      <4>2. Len(replies) \in 0 .. Len(script) \/ Len(replies) \in 0 .. Len(script) - 1
        BY <4>1 DEF Position
      <4> DEFINE n == Len(replies)
                 m == Len(script)
      <4>3. n \in Nat /\ m \in Nat /\ (n \in 0 .. m \/ n \in 0 .. m - 1)
        BY <2>1, <2>2, <4>2, Steps
      <4> HIDE DEF n, m
      <4>4. n <= m
        BY <4>3
      <4> QED
        BY <4>4 DEF n, m
    <3> QED
      BY <3>1, <3>2 DEF RepliesInOrder
  <2> QED
    BY <2>1, <2>3, <2>4
<1> QED
  BY <1>1, HttpInvariant, PTL

(* When OnMessage has returned, every request that had arrived completely  *)
(* has been answered.                                                      *)
THEOREM ServerAnswers ==
  Spec => []NothingLeftUnanswered
<1>1. HttpInv => NothingLeftUnanswered
  <2> SUFFICES ASSUME HttpInv, Idle, NEW i \in Understood,
                      Len(FlattenSeq([j \in 1 .. i |-> Wire(script[j])])) <= delivered
               PROVE  i \in DOMAIN replies
    BY DEF NothingLeftUnanswered
  <2>1. /\ script \in Scripts /\ replies \in Seq(Reply) /\ delivered \in Nat
        /\ Lost(script, replies) \/ InSync(script, frames, context, delivered, buffer, replies)
    BY DEF HttpInv, Types
  <2>2. Len(replies) \in Nat /\ DOMAIN replies = 1 .. Len(replies)
    BY <2>1, DomainOf
  <2>3. i \in 1 .. Len(script) /\ Len(script) \in Nat /\ DOMAIN script = 1 .. Len(script)
    BY <2>1, UnderstoodIs, Steps
  <2>4. Start(script, i) <= delivered
    <3>1. \A j \in 1 .. i : j \in DOMAIN script
      BY <2>3
    <3>2. [j \in 1 .. i |-> Wire(script[j])] = [j \in 1 .. i |-> Wires(script)[j]]
      BY <3>1 DEF Wires
    <3>3. UpTo(Wires(script), i) = [j \in 1 .. i |-> Wire(script[j])]
      BY <3>2 DEF UpTo
    <3> QED
      BY <3>3 DEF Start, Joined
  <2>5. CASE Lost(script, replies)
    <3>1. PICK j \in 1 .. Len(script) : FirstRefused(script, replies, j)
      BY <2>5 DEF Lost
    <3>2. i \in 1 .. j /\ j \in 1 .. Len(replies)
      BY <2>1, <3>1, UnderstoodLost
    <3> QED
      BY <2>2, <3>2
  <2>6. CASE InSync(script, frames, context, delivered, buffer, replies)
    <3> DEFINE k == Len(replies)
               n == Len(script)
    <3>1. k < n => delivered < Start(script, k + 1)
      BY <2>6 DEF InSync, Waits, NoMore, Idle
    <3>2. k \in Nat /\ n \in Nat /\ i \in 1 .. n
      BY <2>2, <2>3
    <3>3. ASSUME k < i PROVE FALSE
      <4> HIDE DEF k
      <4>1. i \in 0 .. Len(script) /\ k + 1 \in 0 .. i /\ k + 1 \in 0 .. Len(script) /\ k < n
        BY <3>2, <3>3
      <4>2. Start(script, k + 1) <= Start(script, i)
        BY <2>1, <4>1, StartGrows
      <4>3. Start(script, k + 1) \in Nat /\ Start(script, i) \in Nat
        BY <2>1, <4>1, Steps
      <4> QED
        BY <2>1, <2>4, <3>1, <4>1, <4>2, <4>3
    <3> HIDE DEF k, n
    <3>4. i \in 1 .. k
      BY <3>2, <3>3
    <3> QED
      BY <2>2, <3>4 DEF k
  <2> QED
    BY <2>1, <2>5, <2>6
<1> QED
  BY <1>1, HttpInvariant, PTL

(* The server begins to close a connection only after the peer has, or     *)
(* after a reply that is final (a request refused, or a reply that does    *)
(* not say keep-alive), or when the inactivity timer that its constructor  *)
(* enables has run out.                                                    *)
THEOREM ServerKeepsOpen ==
  Spec => []KeepAliveStaysOpen
<1>1. HttpInv => KeepAliveStaysOpen
  <2> SUFFICES ASSUME HttpInv, statu # "CONNECTED", ~eof, left # 0
               PROVE  \E i \in DOMAIN replies \cap Understood :
                        \E answer \in Answers(script[i]) : Final(answer)
    BY DEF KeepAliveStaysOpen
  <2>1. script \in Scripts /\ replies \in Seq(Reply) /\ FinalSeen(script, replies)
    BY DEF HttpInv, Types
  <2>2. PICK i \in 1 .. Len(script) : FinalAt(script, replies, i)
    BY <2>1 DEF FinalSeen
  <2>3. i \in DOMAIN replies
    BY <2>1, <2>2, DomainOf DEF FinalAt
  <2>4. i \in Understood
    BY <2>1, <2>2, UnderstoodIs DEF FinalAt
  <2> QED
    BY <2>2, <2>3, <2>4 DEF FinalAt
<1> QED
  BY <1>1, HttpInvariant, PTL
=============================================================================
