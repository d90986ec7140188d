------------------------ MODULE PhiEliminationProofs ------------------------
(***************************************************************************)
(* Splitting the edges into PHIs, for functions of any size: no edge that  *)
(* was found is gone when its turn comes, every single split leaves one    *)
(* graph behind, and at the end the copies run on their edges only.        *)
(***************************************************************************)
EXTENDS PhiElimination, SequenceTheorems, TLAPS

-----------------------------------------------------------------------------
(* Lists without duplicates.                                               *)

\* The element at one place is taken out, those behind it move up.
LEMMA RemoveAtFacts ==
  ASSUME NEW S, NEW list \in Seq(S), NEW n \in 1 .. Len(list)
  PROVE  /\ RemoveAt(list, n) \in Seq(S) /\ Len(RemoveAt(list, n)) = Len(list) - 1
         /\ \A i \in 1 .. Len(list) - 1 :
              RemoveAt(list, n)[i] = IF i < n THEN list[i] ELSE list[i + 1]
<1> DEFINE left == SubSeq(list, 1, n - 1)
           right == SubSeq(list, n + 1, Len(list))
<1>1. Len(list) \in Nat /\ \A m \in 1 .. Len(list) : list[m] \in S
  BY LenProperties, ElementOfSeq
<1>2. /\ left \in Seq(S) /\ Len(left) = n - 1
      /\ \A i \in 1 .. n - 1 : left[i] = list[i]
  <2>1. 1 \in Int /\ n - 1 \in Int /\ \A i \in 1 .. n - 1 : list[i] \in S
    BY <1>1
  <2>2. /\ left \in Seq(S) /\ Len(left) = IF 1 <= n - 1 THEN (n - 1) - 1 + 1 ELSE 0
        /\ \A i \in 1 .. (n - 1) - 1 + 1 : left[i] = list[1 + i - 1]
    BY <2>1, SubSeqProperties
  <2> HIDE DEF left
  <2>3. QED
    BY <2>2, <1>1
<1>3. /\ right \in Seq(S) /\ Len(right) = Len(list) - n
      /\ \A i \in 1 .. Len(list) - n : right[i] = list[n + i]
  <2>1. n + 1 \in Int /\ Len(list) \in Int /\ \A i \in n + 1 .. Len(list) : list[i] \in S
    BY <1>1
  <2>2. /\ right \in Seq(S)
        /\ Len(right) = IF n + 1 <= Len(list) THEN Len(list) - (n + 1) + 1 ELSE 0
        /\ \A i \in 1 .. Len(list) - (n + 1) + 1 : right[i] = list[(n + 1) + i - 1]
    BY <2>1, SubSeqProperties
  <2> HIDE DEF right
  <2>3. QED
    BY <2>2, <1>1
<1>4. RemoveAt(list, n) = left \o right
  BY DEF RemoveAt
<1> HIDE DEF left, right
<1>5. /\ left \o right \in Seq(S) /\ Len(left \o right) = Len(left) + Len(right)
      /\ \A i \in 1 .. Len(left) + Len(right) :
           (left \o right)[i] = IF i <= Len(left) THEN left[i] ELSE right[i - Len(left)]
  BY <1>2, <1>3, ConcatProperties
<1>6. Len(left) + Len(right) = Len(list) - 1
  BY <1>1, <1>2, <1>3
<1>7. ASSUME NEW i \in 1 .. Len(list) - 1
      PROVE  (left \o right)[i] = IF i < n THEN list[i] ELSE list[i + 1]
  <2>1. CASE i < n
    BY <2>1, <1>1, <1>2, <1>5, <1>6
  <2>2. CASE ~(i < n)
    <3>1. i - (n - 1) \in 1 .. Len(list) - n /\ ~(i <= n - 1) /\ n + (i - (n - 1)) = i + 1
      BY <2>2, <1>1
    <3>2. (left \o right)[i] = right[i - (n - 1)]
      BY <3>1, <1>2, <1>5, <1>6
    <3>3. right[i - (n - 1)] = list[i + 1]
      BY <3>1, <1>3
    <3>4. QED
      BY <3>2, <3>3, <2>2
  <2>3. QED
    BY <2>1, <2>2
<1>8. QED
  BY <1>4, <1>5, <1>6, <1>7

\* An element is taken out of the list, and only that one.
LEMMA RemovedFacts ==
  ASSUME NEW S, NEW list \in Seq(S), IsInjective(list), NEW x \in ToSet(list)
  PROVE  /\ Removed(list, x) \in Seq(S)
         /\ Len(Removed(list, x)) = Len(list) - 1
         /\ IsInjective(Removed(list, x))
         /\ ToSet(Removed(list, x)) = ToSet(list) \ {x}
<1>1. Len(list) \in Nat /\ DOMAIN list = 1 .. Len(list)
  BY LenProperties
<1>2. PICK n \in 1 .. Len(list) : n = (CHOOSE m \in DOMAIN list : list[m] = x) /\ list[n] = x
  BY <1>1 DEF ToSet
<1>3. PICK r : r = Removed(list, x)
  OBVIOUS
<1>4. r = RemoveAt(list, n)
  BY <1>2, <1>3 DEF Removed
<1>5. /\ r \in Seq(S) /\ Len(r) = Len(list) - 1
      /\ \A i \in 1 .. Len(list) - 1 : r[i] = IF i < n THEN list[i] ELSE list[i + 1]
  BY <1>4, RemoveAtFacts
<1>6. DOMAIN r = 1 .. Len(list) - 1
  BY <1>5, LenProperties
<1>7. \A a, b \in 1 .. Len(list) : list[a] = list[b] => a = b
  BY <1>1 DEF IsInjective
<1>8. IsInjective(r)
  <2>1. SUFFICES ASSUME NEW a \in 1 .. Len(list) - 1, NEW b \in 1 .. Len(list) - 1, r[a] = r[b]
                 PROVE  a = b
    BY <1>6 DEF IsInjective
  <2>2. PICK c \in 1 .. Len(list) : c = (IF a < n THEN a ELSE a + 1) /\ r[a] = list[c]
    BY <1>1, <1>5
  <2>3. PICK d \in 1 .. Len(list) : d = (IF b < n THEN b ELSE b + 1) /\ r[b] = list[d]
    BY <1>1, <1>5
  <2>4. c = d
    BY <2>1, <2>2, <2>3, <1>7
  <2>5. QED
    BY <2>2, <2>3, <2>4, <1>1
<1>9. ToSet(r) = ToSet(list) \ {x}
  <2>1. ASSUME NEW y \in ToSet(r) PROVE y \in ToSet(list) \ {x}
    <3>1. PICK i \in 1 .. Len(list) - 1 : y = r[i]
      BY <1>6 DEF ToSet
    <3>2. PICK m \in 1 .. Len(list) : m # n /\ y = list[m]
      BY <3>1, <1>1, <1>5
    <3>3. QED
      BY <3>2, <1>1, <1>2, <1>7 DEF ToSet
  <2>2. ASSUME NEW y \in ToSet(list) \ {x} PROVE y \in ToSet(r)
    <3>1. PICK m \in 1 .. Len(list) : y = list[m]
      BY <1>1 DEF ToSet
    <3>2. m # n
      BY <3>1, <1>2
    <3>3. CASE m < n
      <4>1. m \in 1 .. Len(list) - 1 /\ r[m] = y
        BY <3>1, <3>3, <1>1, <1>5
      <4>2. QED
        BY <4>1, <1>6 DEF ToSet
    <3>4. CASE m > n
      <4>1. m - 1 \in 1 .. Len(list) - 1 /\ r[m - 1] = y
        BY <3>1, <3>4, <1>1, <1>5
      <4>2. QED
        BY <4>1, <1>6 DEF ToSet
    <3>5. QED
      BY <3>2, <3>3, <3>4
  <2>3. QED
    BY <2>1, <2>2
<1>10. QED
  BY <1>3, <1>5, <1>8, <1>9

\* A new element goes to the end.
LEMMA AppendedFacts ==
  ASSUME NEW S, NEW list \in Seq(S), NEW x \in S
  PROVE  /\ Append(list, x) \in Seq(S) /\ Len(Append(list, x)) = Len(list) + 1
         /\ ToSet(Append(list, x)) = ToSet(list) \cup {x}
         /\ IsInjective(list) /\ x \notin ToSet(list) => IsInjective(Append(list, x))
<1>1. Len(list) \in Nat /\ DOMAIN list = 1 .. Len(list)
  BY LenProperties
<1>2. /\ Append(list, x) \in Seq(S) /\ Len(Append(list, x)) = Len(list) + 1
      /\ \A i \in 1 .. Len(list) : Append(list, x)[i] = list[i]
      /\ Append(list, x)[Len(list) + 1] = x
  BY AppendProperties
<1>3. DOMAIN Append(list, x) = 1 .. Len(list) + 1
  BY <1>2, LenProperties
<1>4. 1 .. Len(list) + 1 = (1 .. Len(list)) \cup {Len(list) + 1}
  BY <1>1
<1>5. ToSet(Append(list, x)) = ToSet(list) \cup {x}
  BY <1>1, <1>2, <1>3, <1>4 DEF ToSet
<1>6. IsInjective(list) /\ x \notin ToSet(list) => IsInjective(Append(list, x))
  BY <1>1, <1>2, <1>3, <1>4 DEF ToSet, IsInjective
<1>7. QED
  BY <1>2, <1>5, <1>6

-----------------------------------------------------------------------------
(* What the helpers of the split leave in the fields of a function.        *)

Fields == {"layout", "code", "succs", "preds", "properties"}

\* The lists of a function with n blocks.
Listed(f, n) ==
  /\ Fields \subseteq DOMAIN f /\ n \in Nat
  /\ f.succs \in Seq(Seq(Nat)) /\ Len(f.succs) = n
  /\ f.preds \in Seq(Seq(Nat)) /\ Len(f.preds) = n

\* h is f, except that the successors of x are l and the predecessors of y are m.
Relisted(f, n, h, x, l, y, m) ==
  /\ Listed(h, n) /\ h.layout = f.layout /\ h.code = f.code
  /\ \A z \in 1 .. n : /\ h.succs[z] = IF z = x THEN l ELSE f.succs[z]
                       /\ h.preds[z] = IF z = y THEN m ELSE f.preds[z]

\* g is f with an empty block n + 1.
Created(f, n, g) ==
  /\ Listed(g, n + 1) /\ g.layout = Append(f.layout, n + 1)
  /\ g.code \in Seq(Seq(Instructions)) /\ Len(g.code) = n + 1
  /\ g.succs[n + 1] = <<>> /\ g.preds[n + 1] = <<>>
  /\ \A z \in 1 .. n :
       g.succs[z] = f.succs[z] /\ g.preds[z] = f.preds[z] /\ g.code[z] = f.code[z]

\* One list of many is changed.
LEMMA ListsFacts ==
  ASSUME NEW n \in Nat, NEW lists \in Seq(Seq(Nat)), Len(lists) = n,
         NEW x \in 1 .. n, NEW l \in Seq(Nat),
         NEW changed, changed = [lists EXCEPT ![x] = l]
  PROVE  /\ changed \in Seq(Seq(Nat)) /\ Len(changed) = n
         /\ \A y \in 1 .. n : changed[y] = IF y = x THEN l ELSE lists[y]
BY ExceptSeq

\* An empty one is added.
LEMMA LongerFacts ==
  ASSUME NEW S, NEW n \in Nat, NEW lists \in Seq(Seq(S)), Len(lists) = n,
         NEW longer, longer = Append(lists, <<>>)
  PROVE  /\ longer \in Seq(Seq(S)) /\ Len(longer) = n + 1 /\ longer[n + 1] = <<>>
         /\ \A y \in 1 .. n : longer[y] = lists[y]
<1>1. <<>> \in Seq(S)
  BY EmptySeq
<1>2. QED
  BY <1>1, AppendProperties

LEMMA CreateBlockFacts ==
  ASSUME NEW n \in Nat, NEW f, Listed(f, n), f.code \in Seq(Seq(Instructions)), Len(f.code) = n,
         NEW g, g = CreateBlock(f)
  PROVE  Created(f, n, g)
<1>1. /\ Fields \subseteq DOMAIN g
      /\ g.layout = Append(f.layout, n + 1) /\ g.code = Append(f.code, <<>>)
      /\ g.succs = Append(f.succs, <<>>) /\ g.preds = Append(f.preds, <<>>)
  BY DEF CreateBlock, Fields, Listed
<1>2. f.succs \in Seq(Seq(Nat)) /\ Len(f.succs) = n /\ f.preds \in Seq(Seq(Nat)) /\ Len(f.preds) = n
  BY DEF Listed
<1>3. /\ g.succs \in Seq(Seq(Nat)) /\ Len(g.succs) = n + 1 /\ g.succs[n + 1] = <<>>
      /\ \A z \in 1 .. n : g.succs[z] = f.succs[z]
  BY <1>1, <1>2, LongerFacts
<1>4. /\ g.preds \in Seq(Seq(Nat)) /\ Len(g.preds) = n + 1 /\ g.preds[n + 1] = <<>>
      /\ \A z \in 1 .. n : g.preds[z] = f.preds[z]
  BY <1>1, <1>2, LongerFacts
<1>5. /\ g.code \in Seq(Seq(Instructions)) /\ Len(g.code) = n + 1
      /\ \A z \in 1 .. n : g.code[z] = f.code[z]
  BY <1>1, LongerFacts
<1>6. n + 1 \in Nat
  OBVIOUS
<1>7. QED
  BY <1>1, <1>3, <1>4, <1>5, <1>6 DEF Created, Listed

LEMMA RemoveSuccessorFacts ==
  ASSUME NEW n \in Nat, NEW f, Listed(f, n), NEW b \in 1 .. n, NEW s \in 1 .. n,
         NEW l \in Seq(Nat), l = Removed(f.succs[b], s),
         NEW m \in Seq(Nat), m = Removed(f.preds[s], b),
         NEW h, h = RemoveSuccessor(f, b, s)
  PROVE  Relisted(f, n, h, b, l, s, m)
<1>1. /\ Fields \subseteq DOMAIN h /\ h.layout = f.layout /\ h.code = f.code
      /\ h.succs = [f.succs EXCEPT ![b] = l] /\ h.preds = [f.preds EXCEPT ![s] = m]
  BY DEF RemoveSuccessor, Fields, Listed
<1>2. f.succs \in Seq(Seq(Nat)) /\ Len(f.succs) = n /\ f.preds \in Seq(Seq(Nat)) /\ Len(f.preds) = n
  BY DEF Listed
<1>3. /\ h.succs \in Seq(Seq(Nat)) /\ Len(h.succs) = n
      /\ \A y \in 1 .. n : h.succs[y] = IF y = b THEN l ELSE f.succs[y]
  BY <1>1, <1>2, ListsFacts
<1>4. /\ h.preds \in Seq(Seq(Nat)) /\ Len(h.preds) = n
      /\ \A y \in 1 .. n : h.preds[y] = IF y = s THEN m ELSE f.preds[y]
  BY <1>1, <1>2, ListsFacts
<1>5. QED
  BY <1>1, <1>3, <1>4 DEF Relisted, Listed

LEMMA AddSuccessorFacts ==
  ASSUME NEW n \in Nat, NEW f, Listed(f, n), NEW b \in 1 .. n, NEW s \in 1 .. n,
         s \notin ToSet(f.succs[b]), b \notin ToSet(f.preds[s]),
         NEW l \in Seq(Nat), l = Append(f.succs[b], s),
         NEW m \in Seq(Nat), m = Append(f.preds[s], b),
         NEW h, h = AddSuccessor(f, b, s)
  PROVE  Relisted(f, n, h, b, l, s, m)
<1>1. /\ Fields \subseteq DOMAIN h /\ h.layout = f.layout /\ h.code = f.code
      /\ h.succs = [f.succs EXCEPT ![b] = l] /\ h.preds = [f.preds EXCEPT ![s] = m]
  BY DEF AddSuccessor, Fields, Listed
<1>2. f.succs \in Seq(Seq(Nat)) /\ Len(f.succs) = n /\ f.preds \in Seq(Seq(Nat)) /\ Len(f.preds) = n
  BY DEF Listed
<1>3. /\ h.succs \in Seq(Seq(Nat)) /\ Len(h.succs) = n
      /\ \A y \in 1 .. n : h.succs[y] = IF y = b THEN l ELSE f.succs[y]
  BY <1>1, <1>2, ListsFacts
<1>4. /\ h.preds \in Seq(Seq(Nat)) /\ Len(h.preds) = n
      /\ \A y \in 1 .. n : h.preds[y] = IF y = s THEN m ELSE f.preds[y]
  BY <1>1, <1>2, ListsFacts
<1>5. QED
  BY <1>1, <1>3, <1>4 DEF Relisted, Listed

-----------------------------------------------------------------------------
(* What a split makes of a function.                                       *)

\* What becomes of instruction i of block x when block s comes between p and b.
Onward(i, x, p, b, s) ==
  LET j == IF x = p THEN Retargeted(i, b, s) ELSE i IN
    IF x = b THEN Incoming(j, p, s) ELSE j

\* h is f, of n blocks, with the next block s on the edge from p to b.
IsSplit(f, n, s, p, b, h) ==
  /\ s = n + 1
  /\ Listed(h, s) /\ h.layout = Append(f.layout, s)
  /\ h.code \in Seq(Seq(Instructions)) /\ Len(h.code) = s
  /\ h.succs[s] = <<b>> /\ h.preds[s] = <<p>> /\ h.code[s] = <<Branch(b)>>
  /\ \A x \in 1 .. n :
       /\ h.succs[x] = IF x = p THEN Append(Removed(f.succs[p], b), s) ELSE f.succs[x]
       /\ h.preds[x] = IF x = b THEN Append(Removed(f.preds[b], p), s) ELSE f.preds[x]
       /\ DOMAIN h.code[x] = DOMAIN f.code[x]
       /\ \A k \in DOMAIN f.code[x] : h.code[x][k] = Onward(f.code[x][k], x, p, b, s)

\* A function of n blocks that can be split.
Sized(f, n) ==
  /\ Listed(f, n) /\ f.layout \in Seq(Nat)
  /\ f.code \in Seq(Seq(Instructions)) /\ Len(f.code) = n /\ DOMAIN f.code = 1 .. n
  /\ Blocks(f) \subseteq 1 .. n
  /\ \A x \in 1 .. n : f.succs[x] \in Seq(Nat) /\ f.preds[x] \in Seq(Nat) /\ f.code[x] \in Seq(Instructions)

LEMMA ShapeFacts ==
  ASSUME NEW f, Shaped(f), NEW n, n = Len(f.code)
  PROVE  Sized(f, n)
<1>1. Fields \subseteq DOMAIN f
  BY DEF Shaped, Fields
<1>2. /\ f.code \in Seq(Seq(Instructions)) /\ f.layout \in Seq(Nat)
      /\ f.succs \in Seq(Seq(Nat)) /\ f.preds \in Seq(Seq(Nat))
      /\ Len(f.succs) = n /\ Len(f.preds) = n
      /\ Blocks(f) \subseteq DOMAIN f.code
  BY DEF Shaped
<1>3. n \in Nat /\ DOMAIN f.code = 1 .. n
  BY <1>2, LenProperties
<1>4. \A x \in 1 .. n :
        f.succs[x] \in Seq(Nat) /\ f.preds[x] \in Seq(Nat) /\ f.code[x] \in Seq(Instructions)
  BY <1>2, ElementOfSeq
<1>5. QED
  BY <1>1, <1>2, <1>3, <1>4 DEF Sized, Listed

\* The lists of the two blocks of an edge.
LEMMA EdgeFacts ==
  ASSUME NEW n, NEW f, Sized(f, n), Shaped(f), ListsAgree(f),
         NEW p \in Blocks(f), NEW b \in Blocks(f), p \in Predecessors(f, b)
  PROVE  /\ n \in Nat /\ p \in 1 .. n /\ b \in 1 .. n
         /\ f.succs[p] \in Seq(Nat) /\ IsInjective(f.succs[p])
         /\ f.preds[b] \in Seq(Nat) /\ IsInjective(f.preds[b])
         /\ b \in ToSet(f.succs[p]) /\ p \in ToSet(f.preds[b])
         /\ n + 1 \notin ToSet(f.succs[p]) /\ n + 1 \notin ToSet(f.preds[b])
<1>1. n \in Nat /\ p \in 1 .. n /\ b \in 1 .. n /\ n + 1 \notin Blocks(f)
  BY DEF Sized, Listed
<1>2. f.succs[p] \in Seq(Nat) /\ f.preds[b] \in Seq(Nat)
  BY <1>1 DEF Sized
<1>3. IsInjective(f.succs[p]) /\ IsInjective(f.preds[b])
  BY DEF Shaped
<1>4. b \in ToSet(f.succs[p]) /\ p \in ToSet(f.preds[b])
  BY DEF ListsAgree, Predecessors, Successors
<1>5. ToSet(f.succs[p]) \subseteq Blocks(f) /\ ToSet(f.preds[b]) \subseteq Blocks(f)
  BY DEF ListsAgree, Predecessors, Successors
<1>6. QED
  BY <1>1, <1>2, <1>3, <1>4, <1>5

\* A sequence with an element for every element of another.
LEMMA MappedFacts ==
  ASSUME NEW S, NEW c \in Seq(S), NEW d, d = [k \in DOMAIN c |-> d[k]],
         \A k \in DOMAIN c : d[k] \in S
  PROVE  d \in Seq(S) /\ Len(d) = Len(c) /\ DOMAIN d = DOMAIN c
<1>1. Len(c) \in Nat /\ DOMAIN c = 1 .. Len(c)
  BY LenProperties
<1>2. d \in [1 .. Len(c) -> S]
  BY <1>1
<1>3. d \in Seq(S)
  BY <1>1, <1>2, SeqDef
<1>4. DOMAIN d = 1 .. Len(d) /\ DOMAIN d = 1 .. Len(c) /\ Len(d) \in Nat
  BY <1>2, <1>3, LenProperties
<1>5. QED
  BY <1>1, <1>3, <1>4

LEMMA BranchFacts ==
  ASSUME NEW b \in Nat
  PROVE  /\ Branch(b) \in Instructions /\ Branch(b).op = "B" /\ Branch(b).to = b
         /\ <<Branch(b)>> \in Seq(Instructions)
<1>1. <<>> \in Seq(Int) /\ <<>> \in Seq(Nat)
  BY EmptySeq
<1>2. Instr \in Instructions
  BY <1>1 DEF Instr, Instructions, Opcodes, Conditions
<1>3. Branch(b) \in Instructions /\ Branch(b).op = "B" /\ Branch(b).to = b
  BY <1>2 DEF Branch, Instructions, Opcodes, Branches, Unconditional
<1>4. QED
  BY <1>3

LEMMA InstructionFacts ==
  ASSUME NEW i \in Instructions, NEW p \in Nat, NEW b \in Nat, NEW s \in Nat
  PROVE  /\ Branch(b) \in Instructions
         /\ Retargeted(i, b, s) \in Instructions /\ Incoming(i, p, s) \in Instructions
<1>1. Branch(b) \in Instructions
  BY BranchFacts
<1>2. Retargeted(i, b, s) \in Instructions
  BY DEF Retargeted, Instructions
<1>3. Incoming(i, p, s) \in Instructions
  <2>1. i.from \in Seq(Nat)
    BY DEF Instructions
  <2>2. PICK from : from = [n \in DOMAIN i.from |-> IF i.from[n] = p THEN s ELSE i.from[n]]
    OBVIOUS
  <2>3. from \in Seq(Nat)
    <3>1. \A n \in DOMAIN i.from : from[n] \in Nat
      <4>1. DOMAIN i.from = 1 .. Len(i.from)
        BY <2>1, LenProperties
      <4>2. QED
        BY <4>1, <2>1, <2>2, ElementOfSeq
    <3>2. from = [n \in DOMAIN i.from |-> from[n]]
      BY <2>2
    <3>3. QED
      BY <3>1, <3>2, <2>1, MappedFacts
  <2>4. [i EXCEPT !.from = from] \in Instructions
    BY <2>3 DEF Instructions
  <2>5. QED
    BY <2>2, <2>4 DEF Incoming
<1>4. QED
  BY <1>1, <1>2, <1>3

\* One row of many is changed.
LEMMA RowsFacts ==
  ASSUME NEW S, NEW n \in Nat, NEW rows \in Seq(Seq(S)), Len(rows) = n,
         NEW x \in 1 .. n, NEW l \in Seq(S), NEW changed, changed = [rows EXCEPT ![x] = l]
  PROVE  /\ changed \in Seq(Seq(S)) /\ Len(changed) = n
         /\ \A y \in 1 .. n : changed[y] = IF y = x THEN l ELSE rows[y]
BY ExceptSeq

\* What becomes of the code of n blocks and an empty one.
Recoded(given, n, p, b, code) ==
  /\ code \in Seq(Seq(Instructions)) /\ Len(code) = n + 1 /\ code[n + 1] = <<Branch(b)>>
  /\ \A x \in 1 .. n :
       /\ DOMAIN code[x] = DOMAIN given[x]
       /\ \A k \in DOMAIN given[x] : code[x][k] = Onward(given[x][k], x, p, b, n + 1)

LEMMA CodeFacts ==
  ASSUME NEW n \in Nat, NEW s, s = n + 1, NEW p \in 1 .. n, NEW b \in 1 .. n,
         NEW given \in Seq(Seq(Instructions)), Len(given) = s,
         NEW code, code = Rerouted(given, p, b, s)
  PROVE  Recoded(given, n, p, b, code)
<1>1. /\ s \in Nat /\ s \in 1 .. s /\ s \notin 1 .. n /\ \A x \in 1 .. n : x \in 1 .. s
      /\ p \in Nat /\ b \in Nat
  OBVIOUS
<1>2. \A x \in 1 .. s : given[x] \in Seq(Instructions)
  BY ElementOfSeq
<1>3. \A x \in 1 .. s : \A k \in DOMAIN given[x] : given[x][k] \in Instructions
  BY <1>2, LenProperties, ElementOfSeq
<1>4. PICK l : l = [k \in DOMAIN given[p] |-> Retargeted(given[p][k], b, s)]
  OBVIOUS
<1>5. l \in Seq(Instructions) /\ DOMAIN l = DOMAIN given[p]
  <2>1. given[p] \in Seq(Instructions) /\ \A k \in DOMAIN given[p] : l[k] \in Instructions
    BY <1>1, <1>2, <1>3, <1>4, InstructionFacts
  <2>2. l = [k \in DOMAIN given[p] |-> l[k]]
    BY <1>4
  <2>3. QED
    BY <2>1, <2>2, MappedFacts
<1>6. <<Branch(b)>> \in Seq(Instructions)
  BY <1>1, BranchFacts
<1>7. PICK one : one = [given EXCEPT ![p] = l]
  OBVIOUS
<1>8. /\ one \in Seq(Seq(Instructions)) /\ Len(one) = s
      /\ \A x \in 1 .. s : one[x] = IF x = p THEN l ELSE given[x]
  BY <1>1, <1>5, <1>7, RowsFacts
<1>9. PICK two : two = [one EXCEPT ![s] = <<Branch(b)>>]
  OBVIOUS
<1>10. /\ two \in Seq(Seq(Instructions)) /\ Len(two) = s
       /\ \A x \in 1 .. s : two[x] = IF x = s THEN <<Branch(b)>> ELSE one[x]
  BY <1>1, <1>6, <1>8, <1>9, RowsFacts
<1>11. /\ two[b] \in Seq(Instructions) /\ DOMAIN two[b] = DOMAIN given[b]
       /\ two[b] = IF b = p THEN l ELSE given[b]
       /\ \A k \in DOMAIN two[b] : two[b][k] \in Instructions
  <2>1. two[b] \in Seq(Instructions) /\ two[b] = IF b = p THEN l ELSE given[b]
    BY <1>1, <1>8, <1>10, ElementOfSeq
  <2>2. QED
    BY <2>1, <1>5, LenProperties, ElementOfSeq
<1>12. PICK m : m = [k \in DOMAIN two[b] |-> Incoming(two[b][k], p, s)]
  OBVIOUS
<1>13. m \in Seq(Instructions) /\ DOMAIN m = DOMAIN given[b]
  <2>1. \A k \in DOMAIN two[b] : m[k] \in Instructions
    BY <1>1, <1>11, <1>12, InstructionFacts
  <2>2. m = [k \in DOMAIN two[b] |-> m[k]]
    BY <1>12
  <2>3. QED
    BY <2>1, <2>2, <1>11, MappedFacts
<1>14. PICK three : three = [two EXCEPT ![b] = m]
  OBVIOUS
<1>15. /\ code \in Seq(Seq(Instructions)) /\ Len(code) = s
       /\ \A x \in 1 .. s : code[x] = IF x = b THEN m ELSE two[x]
  <2>1. code = three
    BY <1>4, <1>7, <1>9, <1>12, <1>14 DEF Rerouted
  <2>2. /\ three \in Seq(Seq(Instructions)) /\ Len(three) = s
        /\ \A x \in 1 .. s : three[x] = IF x = b THEN m ELSE two[x]
    BY <1>1, <1>10, <1>13, <1>14, RowsFacts
  <2>3. QED
    BY <2>1, <2>2
<1>16. ASSUME NEW x \in 1 .. n
       PROVE  /\ DOMAIN code[x] = DOMAIN given[x]
              /\ \A k \in DOMAIN given[x] : code[x][k] = Onward(given[x][k], x, p, b, s)
  <2>1. x # s /\ x \in 1 .. s
    BY <1>1
  <2>2. code[x] = IF x = b THEN m ELSE IF x = p THEN l ELSE given[x]
    BY <2>1, <1>8, <1>10, <1>15
  <2>3. CASE x = b
    <3>1. \A k \in DOMAIN given[b] : m[k] = Incoming(two[b][k], p, s)
      BY <1>11, <1>12
    <3>2. \A k \in DOMAIN given[b] : two[b][k] = IF b = p THEN Retargeted(given[b][k], b, s) ELSE given[b][k]
      BY <1>4, <1>11
    <3>3. QED
      BY <3>1, <3>2, <2>2, <2>3, <1>13 DEF Onward
  <2>4. CASE x # b /\ x = p
    BY <2>2, <2>4, <1>4, <1>5 DEF Onward
  <2>5. CASE x # b /\ x # p
    BY <2>2, <2>5 DEF Onward
  <2>6. QED
    BY <2>3, <2>4, <2>5
<1>17. code[s] = <<Branch(b)>>
  BY <1>1, <1>10, <1>15
<1>18. QED
  BY <1>15, <1>16, <1>17 DEF Recoded

LEMMA SplitFacts ==
  ASSUME NEW n, NEW f, n = Len(f.code), Shaped(f), ListsAgree(f),
         NEW p \in Blocks(f), NEW b \in Blocks(f), p \in Predecessors(f, b),
         NEW h, h = SplitEdge(f, <<p, b>>)
  PROVE  IsSplit(f, n, n + 1, p, b, h)
<1>1. Sized(f, n) /\ Listed(f, n)
  BY ShapeFacts DEF Sized
<1>2. /\ n \in Nat /\ p \in 1 .. n /\ b \in 1 .. n
      /\ f.succs[p] \in Seq(Nat) /\ IsInjective(f.succs[p])
      /\ f.preds[b] \in Seq(Nat) /\ IsInjective(f.preds[b])
      /\ b \in ToSet(f.succs[p]) /\ p \in ToSet(f.preds[b])
      /\ n + 1 \notin ToSet(f.succs[p]) /\ n + 1 \notin ToSet(f.preds[b])
  BY <1>1, EdgeFacts
<1>3. PICK s : s = n + 1 /\ s \in 1 .. s /\ s \in Nat /\ p \in 1 .. s /\ b \in 1 .. s /\ p # s /\ b # s
  BY <1>2
<1>4. PICK l \in Seq(Nat) : l = Removed(f.succs[p], b) /\ ToSet(l) = ToSet(f.succs[p]) \ {b}
  BY <1>2, RemovedFacts
<1>5. PICK m \in Seq(Nat) : m = Removed(f.preds[b], p) /\ ToSet(m) = ToSet(f.preds[b]) \ {p}
  BY <1>2, RemovedFacts
<1>6. Append(l, s) \in Seq(Nat) /\ Append(m, s) \in Seq(Nat) /\ <<b>> \in Seq(Nat) /\ <<p>> \in Seq(Nat)
  BY <1>2, <1>3, AppendProperties
<1>7. /\ Append(<<>>, b) = <<b>> /\ Append(<<>>, p) = <<p>> /\ ToSet(<<>>) = {}
  BY DEF ToSet
<1>8. PICK g : g = CreateBlock(f)
  OBVIOUS
<1>9. /\ Listed(g, s) /\ g.layout = Append(f.layout, s) /\ g.code \in Seq(Seq(Instructions)) /\ Len(g.code) = s
      /\ g.succs[s] = <<>> /\ g.preds[s] = <<>>
      /\ \A z \in 1 .. n :
           g.succs[z] = f.succs[z] /\ g.preds[z] = f.preds[z] /\ g.code[z] = f.code[z]
  <2>1. n \in Nat /\ Listed(f, n) /\ f.code \in Seq(Seq(Instructions)) /\ Len(f.code) = n
    BY <1>1, <1>2 DEF Sized
  <2>2. Created(f, n, g)
    BY <2>1, <1>8, CreateBlockFacts
  <2>3. QED
    BY <2>2, <1>3 DEF Created
<1>10. PICK r : r = RemoveSuccessor(g, p, b)
  OBVIOUS
<1>11. Relisted(g, s, r, p, l, b, m)
  BY <1>2, <1>3, <1>4, <1>5, <1>9, <1>10, RemoveSuccessorFacts
<1>12. /\ Listed(r, s) /\ r.layout = g.layout /\ r.code = g.code
       /\ r.succs[p] = l /\ r.preds[s] = <<>>
       /\ \A z \in 1 .. s : /\ r.succs[z] = IF z = p THEN l ELSE g.succs[z]
                            /\ r.preds[z] = IF z = b THEN m ELSE g.preds[z]
  BY <1>3, <1>9, <1>11 DEF Relisted
<1>13. PICK q : q = AddSuccessor(r, p, s)
  OBVIOUS
<1>14. Relisted(r, s, q, p, Append(l, s), s, <<p>>)
  <2>1. s \notin ToSet(r.succs[p]) /\ p \notin ToSet(r.preds[s])
    BY <1>2, <1>3, <1>4, <1>7, <1>12
  <2>2. Append(l, s) = Append(r.succs[p], s) /\ <<p>> = Append(r.preds[s], p)
    BY <1>7, <1>12
  <2>3. QED
    BY <2>1, <2>2, <1>3, <1>6, <1>12, <1>13, AddSuccessorFacts
<1>15. /\ Listed(q, s) /\ q.layout = g.layout /\ q.code = g.code
       /\ q.succs[s] = <<>> /\ q.preds[b] = m
       /\ \A z \in 1 .. s : /\ q.succs[z] = IF z = p THEN Append(l, s) ELSE r.succs[z]
                            /\ q.preds[z] = IF z = s THEN <<p>> ELSE r.preds[z]
  BY <1>3, <1>9, <1>12, <1>14 DEF Relisted
<1>16. PICK t : t = AddSuccessor(q, s, b)
  OBVIOUS
<1>17. Relisted(q, s, t, s, <<b>>, b, Append(m, s))
  <2>1. b \notin ToSet(q.succs[s]) /\ s \notin ToSet(q.preds[b])
    BY <1>2, <1>3, <1>5, <1>7, <1>15
  <2>2. <<b>> = Append(q.succs[s], b) /\ Append(m, s) = Append(q.preds[b], s)
    BY <1>7, <1>15
  <2>3. QED
    BY <2>1, <2>2, <1>3, <1>6, <1>15, <1>16, AddSuccessorFacts
<1>18. /\ Listed(t, s) /\ t.layout = g.layout /\ t.code = g.code
       /\ \A z \in 1 .. s : /\ t.succs[z] = IF z = s THEN <<b>> ELSE q.succs[z]
                            /\ t.preds[z] = IF z = b THEN Append(m, s) ELSE q.preds[z]
  BY <1>15, <1>17 DEF Relisted
<1>19. h = [t EXCEPT !.code = Rerouted(t.code, p, b, s), !.properties = @ \ {"TracksLiveness"}]
  <2>1. NewBlock(CreateBlock(f)) = s
    BY <1>8, <1>9 DEF NewBlock
  <2>2. t = AddSuccessor(AddSuccessor(RemoveSuccessor(CreateBlock(f), p, b), p, s), s, b)
    BY <1>8, <1>10, <1>13, <1>16
  <2>3. QED
    BY <2>1, <2>2 DEF SplitEdge
<1>20. PICK code : code = Rerouted(t.code, p, b, s)
  OBVIOUS
<1>21. /\ Fields \subseteq DOMAIN h /\ h.layout = t.layout /\ h.succs = t.succs /\ h.preds = t.preds
       /\ h.code = code
  BY <1>18, <1>19, <1>20 DEF Listed, Fields
<1>22. Recoded(t.code, n, p, b, code)
  <2>1. t.code \in Seq(Seq(Instructions)) /\ Len(t.code) = s
    BY <1>9, <1>12, <1>15, <1>18
  <2>2. QED
    BY <2>1, <1>2, <1>3, <1>20, CodeFacts
<1>23. \A x \in 1 .. n : t.code[x] = f.code[x]
  BY <1>9, <1>18
<1>24. Listed(h, s)
  BY <1>18, <1>21 DEF Listed
<1>25. \A x \in 1 .. n : h.succs[x] = IF x = p THEN Append(l, s) ELSE f.succs[x]
  <2>1. TAKE x \in 1 .. n
  <2>2. x \in 1 .. s /\ x # s
    BY <1>2, <1>3
  <2>3. h.succs[x] = q.succs[x] /\ g.succs[x] = f.succs[x]
    BY <2>2, <1>9, <1>18, <1>21
  <2>4. q.succs[x] = IF x = p THEN Append(l, s) ELSE g.succs[x]
    BY <2>2, <1>12, <1>15
  <2>5. QED
    BY <2>3, <2>4
<1>26. \A x \in 1 .. n : h.preds[x] = IF x = b THEN Append(m, s) ELSE f.preds[x]
  <2>1. TAKE x \in 1 .. n
  <2>2. x \in 1 .. s /\ x # s
    BY <1>2, <1>3
  <2>3. h.preds[x] = (IF x = b THEN Append(m, s) ELSE q.preds[x]) /\ g.preds[x] = f.preds[x]
    BY <2>2, <1>9, <1>18, <1>21
  <2>4. q.preds[x] = IF x = b THEN m ELSE g.preds[x]
    BY <2>2, <1>12, <1>15
  <2>5. QED
    BY <2>3, <2>4
<1>27. h.succs[s] = <<b>> /\ h.preds[s] = <<p>>
  BY <1>3, <1>15, <1>18, <1>21
<1>28. h.layout = Append(f.layout, s)
  BY <1>9, <1>15, <1>18, <1>21
<1>29. /\ h.code \in Seq(Seq(Instructions)) /\ Len(h.code) = s /\ h.code[s] = <<Branch(b)>>
  BY <1>3, <1>21, <1>22 DEF Recoded
<1>30. ASSUME NEW x \in 1 .. n
       PROVE  /\ DOMAIN h.code[x] = DOMAIN f.code[x]
              /\ \A k \in DOMAIN f.code[x] : h.code[x][k] = Onward(f.code[x][k], x, p, b, s)
  <2>1. /\ DOMAIN code[x] = DOMAIN t.code[x]
        /\ \A k \in DOMAIN t.code[x] : code[x][k] = Onward(t.code[x][k], x, p, b, s)
    BY <1>3, <1>22 DEF Recoded
  <2>2. t.code[x] = f.code[x] /\ h.code[x] = code[x]
    BY <1>21, <1>23
  <2>3. QED
    BY <2>1, <2>2
<1>31. IsSplit(f, n, s, p, b, h)
  BY <1>3, <1>4, <1>5, <1>24, <1>25, <1>26, <1>27, <1>28, <1>29, <1>30 DEF IsSplit
<1>32. QED
  BY <1>3, <1>31

\* The same of the sets of neighbours: what the graph has become.
Grown(f, s, p, b, h) ==
  /\ s \notin Blocks(f) /\ s \in Nat /\ 0 \notin Blocks(h) /\ Blocks(h) = Blocks(f) \cup {s}
  /\ Successors(h, s) = {b} /\ Len(h.succs[s]) = 1
  /\ Predecessors(h, s) = {p}
  /\ \A x \in Blocks(f) :
       /\ Successors(h, x) = IF x = p THEN (Successors(f, p) \ {b}) \cup {s} ELSE Successors(f, x)
       /\ Predecessors(h, x) = IF x = b THEN (Predecessors(f, b) \ {p}) \cup {s} ELSE Predecessors(f, x)
       /\ Len(h.succs[x]) = Len(f.succs[x])
  /\ \A x \in Blocks(h) : IsInjective(h.succs[x]) /\ IsInjective(h.preds[x])

\* The same of the code.
Redirected(f, s, p, b, h) ==
  /\ h.code[s] = <<Branch(b)>>
  /\ \A x \in Blocks(f) :
       /\ f.code[x] \in Seq(Instructions)
       /\ DOMAIN h.code[x] = DOMAIN f.code[x]
       /\ \A k \in DOMAIN f.code[x] :
            /\ f.code[x][k] \in Instructions
            /\ h.code[x][k] = Onward(f.code[x][k], x, p, b, s)

LEMMA OneElement ==
  ASSUME NEW S, NEW x \in S
  PROVE  <<x>> \in Seq(S) /\ ToSet(<<x>>) = {x} /\ Len(<<x>>) = 1 /\ IsInjective(<<x>>) /\ DOMAIN <<x>> = {1}
BY DEF ToSet, IsInjective

LEMMA GrownFacts ==
  ASSUME NEW n, NEW f, n = Len(f.code), Shaped(f), ListsAgree(f),
         NEW p \in Blocks(f), NEW b \in Blocks(f), p \in Predecessors(f, b),
         NEW s, NEW h, IsSplit(f, n, s, p, b, h)
  PROVE  Grown(f, s, p, b, h) /\ Redirected(f, s, p, b, h) /\ Shaped(h)
<1>1. Sized(f, n)
  BY ShapeFacts
<1>2. /\ n \in Nat /\ p \in 1 .. n /\ b \in 1 .. n
      /\ f.succs[p] \in Seq(Nat) /\ IsInjective(f.succs[p])
      /\ f.preds[b] \in Seq(Nat) /\ IsInjective(f.preds[b])
      /\ b \in ToSet(f.succs[p]) /\ p \in ToSet(f.preds[b])
      /\ n + 1 \notin ToSet(f.succs[p]) /\ n + 1 \notin ToSet(f.preds[b])
  BY <1>1, EdgeFacts
<1>3. s = n + 1 /\ s \in Nat /\ s \notin 1 .. n /\ s \in 1 .. s /\ \A x \in 1 .. n : x \in 1 .. s
  <2>1. s = n + 1
    BY DEF IsSplit
  <2>2. QED
    BY <2>1, <1>2
<1>4. Blocks(f) \subseteq 1 .. n /\ s \notin Blocks(f)
  BY <1>1, <1>3 DEF Sized
<1>5. Blocks(h) = Blocks(f) \cup {s} /\ h.layout \in Seq(Nat)
  <2>1. f.layout \in Seq(Nat) /\ h.layout = Append(f.layout, s)
    BY <1>1 DEF Sized, IsSplit
  <2>2. QED
    BY <2>1, <1>3, AppendedFacts DEF Blocks
<1>6. PICK l \in Seq(Nat) :
        /\ l = Append(Removed(f.succs[p], b), s) /\ Len(l) = Len(f.succs[p]) /\ IsInjective(l)
        /\ ToSet(l) = (ToSet(f.succs[p]) \ {b}) \cup {s}
  <2>1. PICK r \in Seq(Nat) : /\ r = Removed(f.succs[p], b) /\ Len(r) = Len(f.succs[p]) - 1
                              /\ IsInjective(r) /\ ToSet(r) = ToSet(f.succs[p]) \ {b}
    BY <1>2, RemovedFacts
  <2>2. s \notin ToSet(r)
    BY <2>1, <1>2, <1>3
  <2>3. /\ Append(r, s) \in Seq(Nat) /\ Len(Append(r, s)) = Len(r) + 1
        /\ ToSet(Append(r, s)) = ToSet(r) \cup {s} /\ IsInjective(Append(r, s))
    BY <2>1, <2>2, <1>3, AppendedFacts
  <2>4. Len(r) + 1 = Len(f.succs[p])
    <3>1. Len(f.succs[p]) \in Nat
      BY <1>2, LenProperties
    <3>2. QED
      BY <3>1, <2>1
  <2>5. QED
    BY <2>1, <2>3, <2>4
<1>7. PICK m \in Seq(Nat) :
        /\ m = Append(Removed(f.preds[b], p), s) /\ IsInjective(m)
        /\ ToSet(m) = (ToSet(f.preds[b]) \ {p}) \cup {s}
  <2>1. PICK r \in Seq(Nat) : /\ r = Removed(f.preds[b], p) /\ IsInjective(r)
                              /\ ToSet(r) = ToSet(f.preds[b]) \ {p}
    BY <1>2, RemovedFacts
  <2>2. s \notin ToSet(r)
    BY <2>1, <1>2, <1>3
  <2>3. /\ Append(r, s) \in Seq(Nat) /\ ToSet(Append(r, s)) = ToSet(r) \cup {s}
        /\ IsInjective(Append(r, s))
    BY <2>1, <2>2, <1>3, AppendedFacts
  <2>4. QED
    BY <2>1, <2>3
<1>8. \A x \in 1 .. n : /\ h.succs[x] = IF x = p THEN l ELSE f.succs[x]
                        /\ h.preds[x] = IF x = b THEN m ELSE f.preds[x]
  BY <1>6, <1>7 DEF IsSplit
<1>9. /\ ToSet(h.succs[s]) = {b} /\ Len(h.succs[s]) = 1 /\ IsInjective(h.succs[s])
      /\ ToSet(h.preds[s]) = {p} /\ IsInjective(h.preds[s])
  <2>1. h.succs[s] = <<b>> /\ h.preds[s] = <<p>>
    BY DEF IsSplit
  <2>2. QED
    BY <2>1, OneElement
<1>10. ASSUME NEW x \in Blocks(f)
       PROVE  /\ ToSet(h.succs[x]) = IF x = p THEN (ToSet(f.succs[p]) \ {b}) \cup {s} ELSE ToSet(f.succs[x])
              /\ ToSet(h.preds[x]) = IF x = b THEN (ToSet(f.preds[b]) \ {p}) \cup {s} ELSE ToSet(f.preds[x])
              /\ Len(h.succs[x]) = Len(f.succs[x])
              /\ IsInjective(h.succs[x]) /\ IsInjective(h.preds[x])
  <2>1. IsInjective(f.succs[x]) /\ IsInjective(f.preds[x])
    BY DEF Shaped
  <2>2. x \in 1 .. n
    BY <1>4
  <2>3. QED
    BY <2>1, <2>2, <1>6, <1>7, <1>8
<1>11. Grown(f, s, p, b, h)
  <2>1. 0 \notin Blocks(h)
    BY <1>2, <1>3, <1>4, <1>5
  <2>2. QED
    BY <2>1, <1>3, <1>4, <1>5, <1>9, <1>10 DEF Grown, Successors, Predecessors
<1>12. Redirected(f, s, p, b, h)
  <2>1. h.code[s] = <<Branch(b)>>
    BY DEF IsSplit
  <2>2. ASSUME NEW x \in Blocks(f)
        PROVE  /\ f.code[x] \in Seq(Instructions)
               /\ DOMAIN h.code[x] = DOMAIN f.code[x]
               /\ \A k \in DOMAIN f.code[x] :
                    /\ f.code[x][k] \in Instructions
                    /\ h.code[x][k] = Onward(f.code[x][k], x, p, b, s)
    <3>1. x \in 1 .. n /\ f.code[x] \in Seq(Instructions)
      BY <1>1, <1>4 DEF Sized
    <3>2. \A k \in DOMAIN f.code[x] : f.code[x][k] \in Instructions
      BY <3>1, LenProperties, ElementOfSeq
    <3>3. QED
      BY <3>1, <3>2 DEF IsSplit
  <2>3. QED
    BY <2>1, <2>2 DEF Redirected
<1>13. Shaped(h)
  <2>1. /\ Listed(h, s) /\ h.code \in Seq(Seq(Instructions)) /\ Len(h.code) = s
    BY DEF IsSplit
  <2>2. /\ Fields \subseteq DOMAIN h /\ h.succs \in Seq(Seq(Nat)) /\ h.preds \in Seq(Seq(Nat))
        /\ Len(h.succs) = Len(h.code) /\ Len(h.preds) = Len(h.code)
    BY <2>1 DEF Listed
  <2>3. DOMAIN h.code = 1 .. s
    BY <2>1, LenProperties
  <2>4. Blocks(h) \subseteq DOMAIN h.code
    BY <2>3, <1>3, <1>4, <1>5
  <2>5. QED
    BY <2>1, <2>2, <2>4, <1>5, <1>11 DEF Shaped, Fields, Grown
<1>14. QED
  BY <1>11, <1>12, <1>13

-----------------------------------------------------------------------------
(* A split leaves a function that can be split again.                      *)

\* What is left in j of instruction i of block x.
Passed(i, x, p, b, s, j) ==
  /\ j.op = i.op
  /\ j.to = IF x = p /\ IsTerminator(i) /\ i.to = b THEN s ELSE i.to
  /\ x = b /\ i.op = "PHI" =>
       /\ DOMAIN j.from = DOMAIN i.from
       /\ \A n \in DOMAIN i.from : j.from[n] = IF i.from[n] = p THEN s ELSE i.from[n]
  /\ ~(x = b /\ i.op = "PHI") => j.from = i.from

LEMMA OnwardFacts ==
  ASSUME NEW i \in Instructions, NEW x, NEW p, NEW b, NEW s, NEW j, j = Onward(i, x, p, b, s)
  PROVE  Passed(i, x, p, b, s, j)
<1>1. PICK r : r = IF x = p THEN Retargeted(i, b, s) ELSE i
  OBVIOUS
<1>2. /\ r.op = i.op /\ r.from = i.from
      /\ r.to = IF x = p /\ IsTerminator(i) /\ i.to = b THEN s ELSE i.to
      /\ {"op", "to", "from"} \subseteq DOMAIN r
  BY <1>1 DEF Retargeted, Instructions
<1>3. j = IF x = b THEN Incoming(r, p, s) ELSE r
  BY <1>1 DEF Onward
<1>4. PICK from : from = [n \in DOMAIN r.from |-> IF r.from[n] = p THEN s ELSE r.from[n]]
  OBVIOUS
<1>5. j = IF x = b /\ r.op = "PHI" THEN [r EXCEPT !.from = from] ELSE r
  BY <1>3, <1>4 DEF Incoming
<1>6. /\ j.op = i.op /\ j.to = r.to
      /\ j.from = IF x = b /\ i.op = "PHI" THEN from ELSE i.from
  BY <1>2, <1>5
<1>7. /\ DOMAIN from = DOMAIN i.from
      /\ \A n \in DOMAIN i.from : from[n] = IF i.from[n] = p THEN s ELSE i.from[n]
  BY <1>2, <1>4
<1>8. QED
  BY <1>2, <1>6, <1>7 DEF Passed

\* The code of a split function, instruction for instruction.
LEMMA PassedFacts ==
  ASSUME NEW f, NEW s, NEW p, NEW b, NEW h, Redirected(f, s, p, b, h),
         NEW x \in Blocks(f), NEW k \in DOMAIN f.code[x]
  PROVE  Passed(f.code[x][k], x, p, b, s, h.code[x][k]) /\ f.code[x][k] \in Instructions
BY OnwardFacts DEF Redirected

LEMMA ListsStayInStep ==
  ASSUME NEW f, NEW s, NEW p \in Blocks(f), NEW b \in Blocks(f), NEW h,
         Grown(f, s, p, b, h), ListsAgree(f), p \in Predecessors(f, b)
  PROVE  ListsAgree(h)
<1>1. ASSUME NEW x \in Blocks(h), NEW y \in Successors(h, x)
      PROVE  y \in Blocks(h) /\ x \in Predecessors(h, y)
  <2>1. CASE x = s
    BY <2>1, <1>1 DEF Grown
  <2>2. CASE x \in Blocks(f) /\ y = s
    BY <2>2, <1>1 DEF Grown, ListsAgree
  <2>3. CASE x \in Blocks(f) /\ y # s
    <3>1. y \in Successors(f, x) /\ ~(x = p /\ y = b)
      BY <2>3, <1>1 DEF Grown
    <3>2. y \in Blocks(f) /\ x \in Predecessors(f, y)
      BY <2>3, <3>1 DEF ListsAgree
    <3>3. QED
      BY <3>1, <3>2 DEF Grown
  <2>4. QED
    BY <2>1, <2>2, <2>3 DEF Grown
<1>2. ASSUME NEW x \in Blocks(h), NEW y \in Predecessors(h, x)
      PROVE  y \in Blocks(h) /\ x \in Successors(h, y)
  <2>1. CASE x = s
    BY <2>1, <1>2 DEF Grown
  <2>2. CASE x \in Blocks(f) /\ y = s
    BY <2>2, <1>2 DEF Grown, ListsAgree
  <2>3. CASE x \in Blocks(f) /\ y # s
    <3>1. y \in Predecessors(f, x) /\ ~(x = b /\ y = p)
      BY <2>3, <1>2 DEF Grown
    <3>2. y \in Blocks(f) /\ x \in Successors(f, y)
      BY <2>3, <3>1 DEF ListsAgree
    <3>3. QED
      BY <3>1, <3>2 DEF Grown
  <2>4. QED
    BY <2>1, <2>2, <2>3 DEF Grown
<1>3. QED
  BY <1>1, <1>2 DEF ListsAgree

LEMMA BranchesStayInStep ==
  ASSUME NEW f, NEW s, NEW p \in Blocks(f), NEW b \in Blocks(f), NEW h, b \in Nat,
         Grown(f, s, p, b, h), Redirected(f, s, p, b, h),
         ListsAgree(f), BranchesAgree(f), Closed(f), p \in Predecessors(f, b)
  PROVE  BranchesAgree(h)
<1>1. s # 0 /\ b # 0
  BY DEF Grown
<1>2. Targets(h, s) = {b}
  <2>1. h.code[s] = <<Branch(b)>> /\ Branch(b).to = b
    BY <1>1, BranchFacts DEF Redirected
  <2>2. ToSet(h.code[s]) = {Branch(b)}
    BY <2>1, OneElement
  <2>3. QED
    BY <2>1, <2>2, <1>1 DEF Targets
<1>3. ASSUME NEW x \in Blocks(f)
      PROVE  Targets(h, x) = IF x = p THEN (Targets(f, p) \ {b}) \cup {s} ELSE Targets(f, x)
  <2>1. DOMAIN h.code[x] = DOMAIN f.code[x]
    BY DEF Redirected
  <2>2. ASSUME NEW k \in DOMAIN f.code[x]
        PROVE  /\ h.code[x][k].to = IF x = p /\ f.code[x][k].to = b THEN s ELSE f.code[x][k].to
               /\ f.code[x][k] \in ToSet(f.code[x]) /\ h.code[x][k] \in ToSet(h.code[x])
    <3>1. f.code[x][k] \in ToSet(f.code[x]) /\ h.code[x][k] \in ToSet(h.code[x])
      BY <2>1 DEF ToSet
    <3>2. f.code[x][k].to # 0 => IsTerminator(f.code[x][k])
      BY <3>1 DEF Closed
    <3>3. h.code[x][k].to = IF x = p /\ IsTerminator(f.code[x][k]) /\ f.code[x][k].to = b
                            THEN s ELSE f.code[x][k].to
      BY PassedFacts DEF Passed
    <3>4. QED
      BY <3>1, <3>2, <3>3, <1>1
  <2>3. Targets(h, x) = {h.code[x][k].to : k \in DOMAIN f.code[x]} \ {0}
    BY <2>1 DEF Targets, ToSet
  <2>4. Targets(f, x) = {f.code[x][k].to : k \in DOMAIN f.code[x]} \ {0}
    BY DEF Targets, ToSet
  <2>5. CASE x # p
    BY <2>2, <2>3, <2>4, <2>5
  <2>6. CASE x = p
    <3>1. b \in Targets(f, p)
      BY DEF ListsAgree, BranchesAgree
    <3>2. Targets(h, x) = {IF f.code[x][k].to = b THEN s ELSE f.code[x][k].to : k \in DOMAIN f.code[x]} \ {0}
      BY <2>2, <2>3, <2>6
    <3>3. QED
      BY <3>1, <3>2, <2>4, <2>6, <1>1
  <2>7. QED
    BY <2>5, <2>6
<1>4. Successors(h, s) = Targets(h, s)
  BY <1>2 DEF Grown
<1>5. ASSUME NEW x \in Blocks(f) PROVE Successors(h, x) = Targets(h, x)
  <2>1. Successors(f, x) = Targets(f, x) /\ Successors(f, p) = Targets(f, p)
    BY DEF BranchesAgree
  <2>2. QED
    BY <2>1, <1>3 DEF Grown
<1>6. Blocks(h) = Blocks(f) \cup {s}
  BY DEF Grown
<1>7. QED
  BY <1>4, <1>5, <1>6 DEF BranchesAgree

\* The places of a function's instructions.
LEMMA PositionFacts ==
  ASSUME NEW f, NEW x, NEW k
  PROVE  /\ <<x, k>> \in Positions(f) <=> x \in Blocks(f) /\ k \in DOMAIN f.code[x]
         /\ At(f, <<x, k>>) = f.code[x][k]
BY DEF Positions, At

\* PhisFirst, for one PHI.
PhiInPlace(f, x, k) ==
  /\ \A l \in 1 .. k : f.code[x][l].op = "PHI"
  /\ IsInjective(f.code[x][k].from)
  /\ ToSet(f.code[x][k].from) = Predecessors(f, x)

LEMMA PhisFirstFacts ==
  ASSUME NEW f
  PROVE  PhisFirst(f) <=> \A x \in Blocks(f) : \A k \in DOMAIN f.code[x] :
                            f.code[x][k].op = "PHI" => PhiInPlace(f, x, k)
<1>1. ASSUME PhisFirst(f), NEW x \in Blocks(f), NEW k \in DOMAIN f.code[x], f.code[x][k].op = "PHI"
      PROVE  PhiInPlace(f, x, k)
  <2>1. <<x, k>> \in Positions(f) /\ At(f, <<x, k>>) = f.code[x][k]
    BY PositionFacts
  <2>2. QED
    BY <1>1, <2>1 DEF PhisFirst, PhiInPlace
<1>2. ASSUME \A x \in Blocks(f) : \A k \in DOMAIN f.code[x] :
               f.code[x][k].op = "PHI" => PhiInPlace(f, x, k),
             NEW q \in Positions(f), At(f, q).op = "PHI"
      PROVE  /\ \A l \in 1 .. q[2] : f.code[q[1]][l].op = "PHI"
             /\ IsInjective(At(f, q).from)
             /\ ToSet(At(f, q).from) = Predecessors(f, q[1])
  <2>1. PICK x \in Blocks(f) : \E k \in DOMAIN f.code[x] : q = <<x, k>>
    BY DEF Positions
  <2>2. PICK k \in DOMAIN f.code[x] : q = <<x, k>>
    BY <2>1
  <2>3. At(f, q) = f.code[x][k] /\ q[1] = x /\ q[2] = k
    BY <2>2, PositionFacts
  <2>4. PhiInPlace(f, x, k)
    BY <1>2, <2>3
  <2>5. QED
    BY <2>3, <2>4 DEF PhiInPlace
<1>3. QED
  BY <1>1, <1>2 DEF PhisFirst

LEMMA PhisStayFirst ==
  ASSUME NEW f, NEW s, NEW p \in Blocks(f), NEW b \in Blocks(f), NEW h, b \in Nat,
         Grown(f, s, p, b, h), Redirected(f, s, p, b, h),
         ListsAgree(f), PhisFirst(f), p \in Predecessors(f, b)
  PROVE  PhisFirst(h)
<1>1. SUFFICES ASSUME NEW x \in Blocks(h), NEW k \in DOMAIN h.code[x], h.code[x][k].op = "PHI"
               PROVE  PhiInPlace(h, x, k)
  BY PhisFirstFacts
<1>2. x # s
  <2>1. b \in Nat /\ h.code[s] = <<Branch(b)>>
    BY DEF Redirected
  <2>2. h.code[s][1].op = "B" /\ DOMAIN h.code[s] = {1}
    BY <2>1, BranchFacts, OneElement
  <2>3. QED
    BY <2>2, <1>1
<1>3. x \in Blocks(f)
  BY <1>2 DEF Grown
<1>4. DOMAIN h.code[x] = DOMAIN f.code[x] /\ f.code[x] \in Seq(Instructions)
  BY <1>3 DEF Redirected
<1>5. \A l \in DOMAIN f.code[x] : Passed(f.code[x][l], x, p, b, s, h.code[x][l])
  BY <1>3, PassedFacts
<1>6. PhiInPlace(f, x, k) /\ f.code[x][k].op = "PHI"
  <2>1. f.code[x][k].op = "PHI"
    BY <1>1, <1>4, <1>5 DEF Passed
  <2>2. QED
    BY <2>1, <1>3, <1>4, PhisFirstFacts
<1>7. \A l \in 1 .. k : h.code[x][l].op = "PHI"
  <2>1. 1 .. k \subseteq DOMAIN f.code[x]
    <3>1. DOMAIN f.code[x] = 1 .. Len(f.code[x]) /\ Len(f.code[x]) \in Nat
      BY <1>4, LenProperties
    <3>2. QED
      BY <3>1, <1>4
  <2>2. QED
    BY <2>1, <1>5, <1>6 DEF Passed, PhiInPlace
<1>8. CASE x # b
  BY <1>3, <1>4, <1>5, <1>6, <1>7, <1>8 DEF Passed, PhiInPlace, Grown
<1>9. CASE x = b
  <2>1. PICK old : old = f.code[x][k].from
    OBVIOUS
  <2>2. PICK new : new = h.code[x][k].from
    OBVIOUS
  <2>3. DOMAIN new = DOMAIN old /\ \A n \in DOMAIN old : new[n] = IF old[n] = p THEN s ELSE old[n]
    BY <2>1, <2>2, <1>4, <1>5, <1>6, <1>9 DEF Passed
  <2>4. IsInjective(old) /\ ToSet(old) = Predecessors(f, b) /\ p \in ToSet(old)
    BY <2>1, <1>6, <1>9 DEF PhiInPlace
  <2>5. s \notin ToSet(old)
    BY <2>4 DEF ListsAgree, Grown
  <2>6. IsInjective(new)
    BY <2>3, <2>4, <2>5 DEF IsInjective, ToSet
  <2>7. ToSet(new) = (ToSet(old) \ {p}) \cup {s}
    BY <2>3, <2>4 DEF ToSet
  <2>8. ToSet(new) = Predecessors(h, b)
    BY <2>4, <2>7 DEF Grown
  <2>9. QED
    BY <2>2, <2>6, <2>8, <1>7, <1>9 DEF PhiInPlace
<1>10. QED
  BY <1>8, <1>9

LEMMA BlocksStayClosed ==
  ASSUME NEW f, NEW s, NEW p \in Blocks(f), NEW b \in Blocks(f), NEW h, b \in Nat,
         Grown(f, s, p, b, h), Redirected(f, s, p, b, h), Closed(f), Shaped(h)
  PROVE  Closed(h)
<1>1. ASSUME NEW x \in Blocks(h), x = s
      PROVE  /\ h.code[x] # <<>> /\ Last(h.code[x]).op \in Unconditional
             /\ \A i \in ToSet(h.code[x]) : i.to # 0 => IsTerminator(i)
  <2>1. /\ h.code[x] = <<Branch(b)>> /\ Branch(b).op = "B" /\ Len(<<Branch(b)>>) = 1
        /\ ToSet(<<Branch(b)>>) = {Branch(b)}
    BY <1>1, BranchFacts, OneElement DEF Redirected
  <2>2. QED
    BY <2>1 DEF Last, Unconditional, IsTerminator, Branches
<1>2. ASSUME NEW x \in Blocks(f)
      PROVE  /\ h.code[x] # <<>> /\ Last(h.code[x]).op \in Unconditional
             /\ \A i \in ToSet(h.code[x]) : i.to # 0 => IsTerminator(i)
  <2>1. DOMAIN h.code[x] = DOMAIN f.code[x] /\ f.code[x] \in Seq(Instructions)
    BY DEF Redirected
  <2>2. h.code[x] \in Seq(Instructions)
    <3>1. x \in DOMAIN h.code /\ h.code \in Seq(Seq(Instructions))
      BY DEF Shaped, Grown
    <3>2. QED
      BY <3>1, LenProperties, ElementOfSeq
  <2>3. /\ Len(f.code[x]) \in Nat /\ DOMAIN f.code[x] = 1 .. Len(f.code[x])
        /\ Len(h.code[x]) \in Nat /\ DOMAIN h.code[x] = 1 .. Len(h.code[x])
    BY <2>1, <2>2, LenProperties
  <2>4. Len(f.code[x]) = Len(h.code[x])
    BY <2>1, <2>3
  <2>5. f.code[x] # <<>> /\ Last(f.code[x]).op \in Unconditional
    BY DEF Closed
  <2>6. Len(f.code[x]) \in DOMAIN f.code[x]
    BY <2>1, <2>3, <2>5, EmptySeq
  <2>7. ASSUME NEW k \in DOMAIN f.code[x]
        PROVE  /\ h.code[x][k].op = f.code[x][k].op
               /\ h.code[x][k].to # 0 => IsTerminator(h.code[x][k])
    <3>1. Passed(f.code[x][k], x, p, b, s, h.code[x][k])
      BY PassedFacts
    <3>2. f.code[x][k].to # 0 => IsTerminator(f.code[x][k])
      BY DEF Closed, ToSet
    <3>3. QED
      BY <3>1, <3>2 DEF Passed, IsTerminator
  <2>8. Last(h.code[x]).op \in Unconditional
    BY <2>4, <2>5, <2>6, <2>7 DEF Last
  <2>9. h.code[x] # <<>>
    BY <2>3, <2>4, <2>6
  <2>10. \A i \in ToSet(h.code[x]) : i.to # 0 => IsTerminator(i)
    BY <2>1, <2>7 DEF ToSet
  <2>11. QED
    BY <2>8, <2>9, <2>10
<1>3. QED
  BY <1>1, <1>2 DEF Closed, Grown

\* What the step needs of one split, in one place.
LEMMA SplitStaysSplittable ==
  ASSUME NEW f, Splittable(f),
         NEW p \in Blocks(f), NEW b \in Blocks(f), p \in Predecessors(f, b),
         NEW h, h = SplitEdge(f, <<p, b>>)
  PROVE  Splittable(h) /\ \E s : Grown(f, s, p, b, h) /\ Redirected(f, s, p, b, h)
<1>1. Shaped(f) /\ ListsAgree(f) /\ PhisFirst(f) /\ BranchesAgree(f) /\ Closed(f)
  BY DEF Splittable
<1>2. PICK n : n = Len(f.code)
  OBVIOUS
<1>3. PICK s : s = n + 1
  OBVIOUS
<1>4. IsSplit(f, n, s, p, b, h)
  BY <1>1, <1>2, <1>3, SplitFacts
<1>5. Grown(f, s, p, b, h) /\ Redirected(f, s, p, b, h) /\ Shaped(h)
  BY <1>1, <1>2, <1>4, GrownFacts
<1>6. b \in Nat
  BY <1>1, <1>2, ShapeFacts DEF Sized
<1>7. ListsAgree(h)
  BY <1>1, <1>5, ListsStayInStep
<1>8. BranchesAgree(h)
  BY <1>1, <1>5, <1>6, BranchesStayInStep
<1>9. PhisFirst(h)
  BY <1>1, <1>5, <1>6, PhisStayFirst
<1>10. Closed(h)
  BY <1>1, <1>5, <1>6, BlocksStayClosed
<1>11. QED
  BY <1>5, <1>7, <1>8, <1>9, <1>10 DEF Splittable

\* A block without a PHI at its start is none a split makes.
LEMMA SameStart ==
  ASSUME NEW f, NEW s, NEW p, NEW b \in Nat, NEW h, Grown(f, s, p, b, h), Redirected(f, s, p, b, h),
         NEW c \in Blocks(h), Shaped(h), StartsWithPhi(h, c)
  PROVE  c \in Blocks(f) /\ StartsWithPhi(f, c)
<1>1. c # s
  <2>1. h.code[s] = <<Branch(b)>>
    BY DEF Redirected
  <2>2. Branch(b).op = "B"
    BY BranchFacts
  <2>3. QED
    BY <2>1, <2>2 DEF StartsWithPhi
<1>2. c \in Blocks(f)
  BY <1>1 DEF Grown
<1>3. DOMAIN h.code[c] = DOMAIN f.code[c] /\ f.code[c] \in Seq(Instructions)
  BY <1>2 DEF Redirected
<1>4. 1 \in DOMAIN h.code[c] /\ h.code[c][1].op = "PHI"
  <2>1. c \in DOMAIN h.code /\ h.code \in Seq(Seq(Instructions))
    BY DEF Shaped
  <2>2. h.code[c] \in Seq(Instructions) /\ h.code[c] # <<>>
    BY <2>1, LenProperties, ElementOfSeq DEF StartsWithPhi
  <2>3. QED
    BY <2>2, EmptySeq, LenProperties DEF StartsWithPhi
<1>5. f.code[c][1].op = "PHI"
  BY <1>2, <1>3, <1>4, PassedFacts DEF Passed
<1>6. f.code[c] # <<>>
  BY <1>3, <1>4
<1>7. QED
  BY <1>2, <1>5, <1>6 DEF StartsWithPhi

\* No split makes an edge that must be split, and the one it splits is none any more.
LEMMA NoNewEdges ==
  ASSUME NEW f, NEW s, NEW p, NEW b \in Nat, NEW h, Grown(f, s, p, b, h), Redirected(f, s, p, b, h),
         Shaped(h), ListsAgree(h), p \in Blocks(f), b \in Blocks(f)
  PROVE  EdgesToSplit(h) \subseteq EdgesToSplit(f) \ {<<p, b>>}
<1>1. SUFFICES ASSUME NEW e \in EdgesToSplit(h)
               PROVE  e \in EdgesToSplit(f) \ {<<p, b>>}
  OBVIOUS
<1>2. PICK q \in Blocks(h), c \in Blocks(h) :
        /\ e = <<q, c>> /\ StartsWithPhi(h, c) /\ q \in Predecessors(h, c)
        /\ Len(h.succs[q]) > 1
  <2>1. /\ e \in Blocks(h) \X Blocks(h)
        /\ StartsWithPhi(h, e[2]) /\ e[1] \in Predecessors(h, e[2]) /\ Len(h.succs[e[1]]) > 1
    BY DEF EdgesToSplit
  <2>2. PICK q \in Blocks(h), c \in Blocks(h) : e = <<q, c>>
    <3>1. e \in Blocks(h) \X Blocks(h)
      BY <2>1
    <3>2. QED
      BY ONLY <3>1
  <2>3. e[1] = q /\ e[2] = c
    BY <2>2
  <2>4. StartsWithPhi(h, c) /\ q \in Predecessors(h, c) /\ Len(h.succs[q]) > 1
    BY ONLY <2>1, <2>3
  <2>5. QED
    BY ONLY <2>2, <2>4
<1>3. c \in Blocks(f) /\ StartsWithPhi(f, c)
  BY <1>2, SameStart
<1>4. q \in Blocks(f)
  <2>1. Len(h.succs[s]) = 1 /\ Blocks(h) = Blocks(f) \cup {s}
    BY DEF Grown
  <2>2. ASSUME q = s PROVE FALSE
    <3>1. Len(h.succs[q]) = 1
      BY <2>1, <2>2
    <3>2. QED
      BY <3>1, <1>2
  <2>3. QED
    BY <2>1, <2>2
<1>5. q \in Predecessors(f, c) /\ ~(q = p /\ c = b) /\ Len(f.succs[q]) > 1
  BY <1>2, <1>3, <1>4 DEF Grown
<1>6. QED
  BY <1>2, <1>3, <1>4, <1>5 DEF EdgesToSplit

-----------------------------------------------------------------------------
(* The invariant.                                                          *)

EdgesOf(f) == {e \in Blocks(f) \X Blocks(f) : e[1] \in Predecessors(f, e[2])}

\* Every other edge survives a split.
LEMMA OtherEdgesStay ==
  ASSUME NEW f, NEW s, NEW p, NEW b, NEW h, Grown(f, s, p, b, h), p \in Blocks(f), b \in Blocks(f)
  PROVE  EdgesOf(f) \ {<<p, b>>} \subseteq EdgesOf(h)
<1>1. SUFFICES ASSUME NEW q \in Blocks(f), NEW c \in Blocks(f), q \in Predecessors(f, c),
                      ~(q = p /\ c = b)
               PROVE  <<q, c>> \in EdgesOf(h)
  BY DEF EdgesOf
<1>2. q \in Predecessors(h, c) /\ q \in Blocks(h) /\ c \in Blocks(h)
  BY <1>1 DEF Grown
<1>3. QED
  BY <1>2 DEF EdgesOf

\* While it splits, the function is one that can be split, what is still to be split
\* are edges of it, and no edge that must be split is forgotten.
Splitting ==
  /\ Splittable(fn)
  /\ edges \subseteq EdgesOf(fn)
  /\ EdgesToSplit(fn) \subseteq edges

SplitInv == phase \in {"outside", "splitting"} /\ (phase = "splitting" => Splitting)

\* An edge of such a function is a branch too.
LEMMA EdgesAreBranches ==
  ASSUME NEW f, Splittable(f), NEW e \in EdgesOf(f)
  PROVE  CanSplit(f, e)
<1>1. PICK p \in Blocks(f), b \in Blocks(f) : e = <<p, b>> /\ p \in Predecessors(f, b)
  BY DEF EdgesOf
<1>2. b \in Successors(f, p)
  BY <1>1 DEF Splittable, ListsAgree
<1>3. PICK i \in ToSet(f.code[p]) : i.to = b /\ b # 0
  BY <1>2 DEF Splittable, BranchesAgree, Targets
<1>4. IsTerminator(i)
  BY <1>3 DEF Splittable, Closed
<1>5. QED
  BY <1>1, <1>2, <1>3, <1>4 DEF CanSplit

LEMMA SplitStep ==
  ASSUME SplitInv, SplitNext
  PROVE  SplitInv'
<1>1. PICK e \in edges : /\ phase = "splitting" /\ edges' = edges \ {e}
                         /\ IF CanSplit(fn, e)
                            THEN fn' = SplitEdge(fn, e) /\ UNCHANGED phase
                            ELSE phase' = "aborted" /\ UNCHANGED fn
  BY DEF SplitNext
<1>2. /\ Splittable(fn) /\ edges \subseteq EdgesOf(fn) /\ EdgesToSplit(fn) \subseteq edges
  BY <1>1 DEF SplitInv, Splitting
<1>3. PICK p \in Blocks(fn), b \in Blocks(fn) : e = <<p, b>> /\ p \in Predecessors(fn, b)
  BY <1>2 DEF EdgesOf
<1>4. fn' = SplitEdge(fn, <<p, b>>) /\ phase' = "splitting"
  BY <1>1, <1>2, <1>3, EdgesAreBranches
<1>5. PICK h : h = fn'
  OBVIOUS
<1>6. PICK s : Splittable(h) /\ Grown(fn, s, p, b, h) /\ Redirected(fn, s, p, b, h)
  BY <1>2, <1>3, <1>4, <1>5, SplitStaysSplittable
<1>7. b \in Nat
  <2>1. PICK n : n = Len(fn.code)
    OBVIOUS
  <2>2. Sized(fn, n)
    BY <2>1, <1>2, ShapeFacts DEF Splittable
  <2>3. Blocks(fn) \subseteq 1 .. n
    BY <2>2 DEF Sized
  <2>4. QED
    BY <2>3, <1>3
<1>8. EdgesToSplit(h) \subseteq EdgesToSplit(fn) \ {<<p, b>>}
  BY <1>3, <1>6, <1>7, NoNewEdges DEF Splittable
<1>9. EdgesOf(fn) \ {<<p, b>>} \subseteq EdgesOf(h)
  BY <1>3, <1>6, OtherEdgesStay
<1>10. edges' = edges \ {<<p, b>>}
  BY <1>1, <1>3
<1>11. Splittable(fn') /\ edges' \subseteq EdgesOf(fn') /\ EdgesToSplit(fn') \subseteq edges'
  BY <1>2, <1>5, <1>6, <1>8, <1>9, <1>10
<1>12. QED
  BY <1>4, <1>11 DEF SplitInv, Splitting

THEOREM PhiSplitting == PhiSpec => []SplitInv
<1>1. PhiInit => SplitInv
  BY DEF PhiInit, SplitInv
<1>2. SplitInv /\ [PhiNext]_phiVars => SplitInv'
  <2> SUFFICES ASSUME SplitInv, [PhiNext]_phiVars PROVE SplitInv'
    OBVIOUS
  <2>1. CASE Splittable(fn) /\ FindEdges
    <3>1. fn' = fn /\ edges' = EdgesToSplit(fn) /\ phase' = "splitting"
      BY <2>1 DEF FindEdges
    <3>2. EdgesToSplit(fn) \subseteq EdgesOf(fn)
      BY DEF EdgesToSplit, EdgesOf
    <3>3. Splittable(fn') /\ edges' \subseteq EdgesOf(fn') /\ EdgesToSplit(fn') \subseteq edges'
      BY <2>1, <3>1, <3>2
    <3>4. QED
      BY <3>1, <3>3 DEF SplitInv, Splitting
  <2>2. CASE SplitNext
    BY <2>2, SplitStep
  <2>3. CASE EraseEach
    BY <2>3 DEF EraseEach, SplitInv
  <2>4. CASE PassesAround
    BY <2>4 DEF PassesAround, SplitInv
  <2>5. CASE UNCHANGED phiVars
    BY <2>5 DEF phiVars, SplitInv, Splitting
  <2>6. QED
    BY <2>1, <2>2, <2>3, <2>4, <2>5 DEF PhiNext
<1>3. QED
  BY <1>1, <1>2, PTL DEF PhiSpec

\* EdgesStay: an edge that was found is still there when its turn comes, whatever
\* other edges were split before (PhiElimination::run, parallel_copy.cpp:29-49), so the
\* pass reaches neither of its two fatal errors.
THEOREM EdgesNeverGo == PhiSpec => []EdgesStay
<1>1. SplitInv => EdgesStay
  BY DEF SplitInv, EdgesStay
<1>2. QED
  BY <1>1, PhiSplitting, PTL

\* GraphStaysWhole: the pass goes on, and between two splits the lists, the branches and
\* what the PHIs name are one graph, for functions of any size (parallel_copy.cpp:29-82).
THEOREM OneGraphRemains == PhiSpec => []GraphStaysWhole
<1>1. SplitInv => GraphStaysWhole
  BY DEF SplitInv, Splitting, Splittable, GraphStaysWhole, EdgesStay
<1>2. QED
  BY <1>1, PhiSplitting, PTL

\* A PHI's value comes from a block with no other successor, when no edge is left to split.
LEMMA SourcesGoNowhereElse ==
  ASSUME NEW f, Splittable(f), EdgesToSplit(f) = {},
         NEW q \in Positions(f), At(f, q).op = "PHI", NEW p \in ToSet(At(f, q).from)
  PROVE  Successors(f, p) = {q[1]}
<1>1. PICK b \in Blocks(f) : \E k \in DOMAIN f.code[b] : q = <<b, k>>
  BY DEF Positions
<1>2. PICK k \in DOMAIN f.code[b] : q = <<b, k>>
  BY <1>1
<1>3. PICK n : n = Len(f.code)
  OBVIOUS
<1>4. Sized(f, n)
  BY <1>3, ShapeFacts DEF Splittable
<1>5. f.code[b] \in Seq(Instructions) /\ k \in Nat /\ k >= 1 /\ f.code[b] # <<>>
  <2>1. f.code[b] \in Seq(Instructions)
    BY <1>4 DEF Sized
  <2>2. DOMAIN f.code[b] = 1 .. Len(f.code[b]) /\ Len(f.code[b]) \in Nat
    BY <2>1, LenProperties
  <2>3. k \in 1 .. Len(f.code[b])
    BY <2>2
  <2>4. f.code[b] # <<>>
    BY <2>2, <2>3, EmptySeq
  <2>5. QED
    BY <2>1, <2>2, <2>3, <2>4
<1>6. q[1] = b /\ q[2] = k
  BY <1>2
<1>7. p \in Predecessors(f, b) /\ f.code[b][1].op = "PHI"
  BY <1>5, <1>6 DEF Splittable, PhisFirst
<1>8. StartsWithPhi(f, b)
  BY <1>5, <1>7 DEF StartsWithPhi
<1>9. p \in Blocks(f) /\ b \in Successors(f, p)
  BY <1>7 DEF Splittable, ListsAgree
<1>10. ~(Len(f.succs[p]) > 1)
  <2>1. <<p, b>> \notin EdgesToSplit(f)
    OBVIOUS
  <2>2. QED
    BY <2>1, <1>7, <1>8, <1>9 DEF EdgesToSplit
<1>11. f.succs[p] \in Seq(Nat)
  BY <1>4, <1>9 DEF Sized
<1>12. Successors(f, p) = {b}
  <2>1. DOMAIN f.succs[p] = 1 .. Len(f.succs[p]) /\ Len(f.succs[p]) \in Nat
    BY <1>11, LenProperties
  <2>2. DOMAIN f.succs[p] \subseteq {1}
    BY <2>1, <1>10
  <2>3. QED
    BY <2>2, <1>9 DEF Successors, ToSet
<1>13. QED
  BY <1>6, <1>12

\* CopiesRunOnTheirEdge: when all edges found at the start are split, every block that
\* a PHI's value comes from leads to the block of that PHI alone (parallel_copy.cpp:18-27),
\* so that the copies at its end are made on that edge and no other.
THEOREM CopiesOnTheirEdge == PhiSpec => []CopiesRunOnTheirEdge
<1>1. ASSUME SplitInv, phase = "splitting", edges = {},
             NEW q \in Positions(fn), At(fn, q).op = "PHI", NEW p \in ToSet(At(fn, q).from)
      PROVE  /\ Successors(fn, p) = {q[1]}
             /\ \A r \in Positions(fn) :
                  At(fn, r).op = "PHI" /\ p \in ToSet(At(fn, r).from) => r[1] = q[1]
  <2>1. Splittable(fn) /\ EdgesToSplit(fn) = {}
    BY <1>1 DEF SplitInv, Splitting
  <2>2. Successors(fn, p) = {q[1]}
    BY <2>1, <1>1, SourcesGoNowhereElse
  <2>3. ASSUME NEW r \in Positions(fn), At(fn, r).op = "PHI", p \in ToSet(At(fn, r).from)
        PROVE  Successors(fn, p) = {r[1]}
    BY <2>1, <2>3, SourcesGoNowhereElse
  <2>4. QED
    BY <2>2, <2>3
<1>2. SplitInv => CopiesRunOnTheirEdge
  BY <1>1 DEF CopiesRunOnTheirEdge
<1>3. QED
  BY <1>2, PhiSplitting, PTL
=============================================================================
