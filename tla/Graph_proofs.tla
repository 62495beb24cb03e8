---------------------------- MODULE Graph_proofs ----------------------------
(***************************************************************************)
(* Theorems about the searches of a stored graph, for every graph.         *)
(*                                                                         *)
(* ImportCycles: in every order, what is reported as a cycle is a simple   *)
(* cycle of imports, and a search that ends below its limit has reported   *)
(* one in every knot of modules that import each other.  When the search   *)
(* leaves a module and no module of its knot is below it on the stack, all *)
(* that it imports, directly or not, was left (PopKeeps): the import that  *)
(* leads back to it was looked at while it stood on the stack.             *)
(*                                                                         *)
(* DeadCode: the rule reports exactly the components that no entry point   *)
(* reaches; its search keeps a set that the entry points reach and that is *)
(* closed but for the queue (SweepIInv), so once the queue is empty it is  *)
(* the least closed set, which is what Alive speaks of.                    *)
(***************************************************************************)
EXTENDS ImportCycles, DeadCode, FiniteSetTheorems, SequenceTheorems, TLAPS

FrameSet == [node : Source, left : SUBSET Source]

(* A stack of frames: a simple path of imports through modules of `seen`,  *)
(* each with imports of its own that are left to look at.                  *)
OnPath(s, seen) ==
    /\ s \in Seq(FrameSet)
    /\ \A i \in 1..Len(s) :
         s[i].node \in seen /\ s[i].left \subseteq Imported(s[i].node)
    /\ \A i, j \in 1..Len(s) : i # j => s[i].node # s[j].node
    /\ \A i \in 1..Len(s) - 1 : <<s[i].node, s[i + 1].node>> \in imports

CyclesIInv ==
    /\ CyclesTypeOK
    /\ search = "idle" => frames = <<>> /\ cycles = <<>>
    /\ OnPath(frames, entered)
    /\ CyclesAreReal

-----------------------------------------------------------------------------
(* Sequences with one element more, less, or other.                         *)
LEMMA Longer ==
    ASSUME NEW T, NEW s \in Seq(T), NEW e \in T
    PROVE  /\ Append(s, e) \in Seq(T)
           /\ Len(Append(s, e)) = Len(s) + 1 /\ Len(s) \in Nat
           /\ \A i \in 1..Len(s) : Append(s, e)[i] = s[i]
           /\ Append(s, e)[Len(s) + 1] = e
  BY AppendProperties, LenProperties

LEMMA Shorter ==
    ASSUME NEW T, NEW s \in Seq(T), s # <<>>
    PROVE  /\ SubSeq(s, 1, Len(s) - 1) \in Seq(T)
           /\ Len(SubSeq(s, 1, Len(s) - 1)) = Len(s) - 1 /\ Len(s) \in Nat \ {0}
           /\ \A i \in 1..Len(s) - 1 : SubSeq(s, 1, Len(s) - 1)[i] = s[i]
  <1>1. Len(s) \in Nat \ {0}
    BY EmptySeq
  <1>2. \A i \in 1..Len(s) - 1 : i \in 1..Len(s)
    BY <1>1
  <1>3. \A i \in 1..Len(s) - 1 : s[i] \in T
    BY <1>2, ElementOfSeq
  <1> DEFINE n == Len(s) - 1
             t == SubSeq(s, 1, n)
  <1>n. n \in Int /\ 1 \in Int /\ \A i \in 1..n : s[i] \in T
    BY <1>1, <1>3
  <1> HIDE DEF n
  <1>4. /\ t \in Seq(T)
        /\ Len(t) = IF 1 <= n THEN n - 1 + 1 ELSE 0
        /\ \A i \in 1..n - 1 + 1 : t[i] = s[1 + i - 1]
    BY <1>n, SubSeqProperties
  <1> HIDE DEF t
  <1>5. Len(t) = Len(s) - 1
    <2>1. n \in Nat /\ n - 1 + 1 = n
      BY <1>1 DEF n
    <2>2. Len(t) = n
      <3>1. CASE n = 0
        BY <3>1, <1>4
      <3>2. CASE 1 <= n
        BY <3>2, <2>1, <1>4
      <3> QED BY <3>1, <3>2, <2>1
    <2> QED BY <2>2 DEF n
  <1>6. \A i \in 1..Len(s) - 1 : t[i] = s[i]
    <2> SUFFICES ASSUME NEW i \in 1..Len(s) - 1 PROVE t[i] = s[i]
      OBVIOUS
    <2>1. i \in 1..n - 1 + 1 /\ 1 + i - 1 = i
      BY <1>1 DEF n
    <2>2. t[i] = s[1 + i - 1]
      BY <1>4, <2>1
    <2> QED BY <2>1, <2>2
  <1> QED BY <1>1, <1>4, <1>5, <1>6 DEF t, n

(* The stack after an import of its top was looked at. *)
LEMMA LookedIs ==
    ASSUME NEW n, OnPath(frames, entered), frames # <<>>
    PROVE  /\ Looked(n) \in Seq(FrameSet)
           /\ Len(Looked(n)) = Len(frames)
           /\ \A i \in 1..Len(frames) :
                /\ Looked(n)[i].node = frames[i].node
                /\ Looked(n)[i].left \subseteq frames[i].left
  <1> DEFINE top == [Top EXCEPT !.left = @ \ {n}]
             t == Append(Below, top)
  <1>1. frames \in Seq(FrameSet)
    BY DEF OnPath
  <1>2. /\ Below \in Seq(FrameSet) /\ Len(Below) = Len(frames) - 1
        /\ Len(frames) \in Nat \ {0}
        /\ \A i \in 1..Len(frames) - 1 : Below[i] = frames[i]
    BY <1>1, Shorter DEF Below
  <1>3. Len(frames) \in 1..Len(frames)
    BY <1>2
  <1>4. Top \in FrameSet
    BY <1>1, <1>3, ElementOfSeq DEF Top
  <1>5. top \in FrameSet /\ top.node = Top.node /\ top.left \subseteq Top.left
    BY <1>4 DEF FrameSet
  <1> HIDE DEF top
  <1>6. /\ t \in Seq(FrameSet)
        /\ Len(t) = Len(Below) + 1
        /\ \A i \in 1..Len(Below) : t[i] = Below[i]
        /\ t[Len(Below) + 1] = top
    BY <1>2, <1>5, Longer
  <1> HIDE DEF t
  <1>7. Len(t) = Len(frames)
    BY <1>2, <1>6
  <1>8. \A i \in 1..Len(frames) :
           t[i].node = frames[i].node /\ t[i].left \subseteq frames[i].left
    <2> SUFFICES ASSUME NEW i \in 1..Len(frames)
                 PROVE  t[i].node = frames[i].node /\ t[i].left \subseteq frames[i].left
      OBVIOUS
    <2>1. CASE i = Len(frames)
      <3>1. t[i] = top /\ frames[i] = Top
        BY <2>1, <1>2, <1>6 DEF Top
      <3> QED BY <3>1, <1>5
    <2>2. CASE i # Len(frames)
      <3>1. i \in 1..Len(frames) - 1 /\ i \in 1..Len(Below)
        BY <2>2, <1>2
      <3>2. t[i] = frames[i]
        BY <3>1, <1>2, <1>6
      <3> QED BY <3>2
    <2> QED BY <2>1, <2>2
  <1>9. Looked(n) = t
    BY DEF Looked, t, top
  <1> QED BY <1>6, <1>7, <1>8, <1>9

LEMMA LookedOnPath ==
    ASSUME NEW n, OnPath(frames, entered), frames # <<>>
    PROVE  OnPath(Looked(n), entered)
  <1> DEFINE t == Looked(n)
  <1>1. /\ t \in Seq(FrameSet) /\ Len(t) = Len(frames)
        /\ \A i \in 1..Len(frames) :
             t[i].node = frames[i].node /\ t[i].left \subseteq frames[i].left
    BY LookedIs
  <1> HIDE DEF t
  <1>2. Len(frames) \in Nat
    BY LenProperties DEF OnPath
  <1>3. \A i \in 1..Len(t) : t[i].node \in entered /\ t[i].left \subseteq Imported(t[i].node)
    BY <1>1 DEF OnPath
  <1>4. \A i, j \in 1..Len(t) : i # j => t[i].node # t[j].node
    BY <1>1 DEF OnPath
  <1>5. \A i \in 1..Len(t) - 1 : <<t[i].node, t[i + 1].node>> \in imports
    <2> SUFFICES ASSUME NEW i \in 1..Len(t) - 1
                 PROVE  <<t[i].node, t[i + 1].node>> \in imports
      OBVIOUS
    <2>1. i \in 1..Len(frames) /\ i + 1 \in 1..Len(frames) /\ i \in 1..Len(frames) - 1
      BY <1>1, <1>2
    <2>2. t[i].node = frames[i].node /\ t[i + 1].node = frames[i + 1].node
      BY <1>1, <2>1
    <2> QED BY <2>1, <2>2 DEF OnPath
  <1>6. OnPath(t, entered)
    BY <1>1, <1>3, <1>4, <1>5 DEF OnPath
  <1> QED BY <1>6 DEF t

(* A module that is entered from the top of the stack extends the path.     *)
LEMMA PushedOnPath ==
    ASSUME NEW s, NEW seen, OnPath(s, seen), s # <<>>,
           NEW n \in Source \ seen, <<s[Len(s)].node, n>> \in imports
    PROVE  OnPath(Append(s, Frame(n)), seen \cup {n})
  <1> DEFINE t == Append(s, Frame(n))
  <1>1. Frame(n) \in FrameSet /\ Frame(n).node = n /\ Frame(n).left = Imported(n)
    BY DEF Frame, FrameSet, Imported
  <1>2. s \in Seq(FrameSet) /\ Len(s) \in Nat \ {0}
    BY EmptySeq DEF OnPath
  <1>3. /\ t \in Seq(FrameSet) /\ Len(t) = Len(s) + 1
        /\ \A i \in 1..Len(s) : t[i] = s[i]
        /\ t[Len(s) + 1] = Frame(n)
    BY <1>1, <1>2, Longer
  <1> HIDE DEF t
  <1>4. \A i \in 1..Len(s) :
           /\ t[i].node \in seen /\ t[i].node # n
           /\ t[i].left \subseteq Imported(t[i].node)
    BY <1>3 DEF OnPath
  <1>5. t[Len(s) + 1].node = n /\ t[Len(s) + 1].left = Imported(n)
    BY <1>1, <1>3
  <1>6. \A i \in 1..Len(t) : i \in 1..Len(s) \/ i = Len(s) + 1
    BY <1>2, <1>3
  <1>7. \A i \in 1..Len(t) :
           t[i].node \in seen \cup {n} /\ t[i].left \subseteq Imported(t[i].node)
    BY <1>4, <1>5, <1>6
  <1>8. \A i, j \in 1..Len(t) : i # j => t[i].node # t[j].node
    <2> SUFFICES ASSUME NEW i \in 1..Len(t), NEW j \in 1..Len(t), i # j
                 PROVE  t[i].node # t[j].node
      OBVIOUS
    <2>1. CASE i \in 1..Len(s) /\ j \in 1..Len(s)
      BY <2>1, <1>3 DEF OnPath
    <2>2. CASE i = Len(s) + 1 \/ j = Len(s) + 1
      BY <2>2, <1>4, <1>5, <1>6
    <2> QED BY <2>1, <2>2, <1>6
  <1>9. \A i \in 1..Len(t) - 1 : <<t[i].node, t[i + 1].node>> \in imports
    <2> SUFFICES ASSUME NEW i \in 1..Len(t) - 1
                 PROVE  <<t[i].node, t[i + 1].node>> \in imports
      OBVIOUS
    <2>1. CASE i = Len(s)
      <3>1. t[i] = s[Len(s)] /\ t[i + 1].node = n
        BY <2>1, <1>2, <1>3, <1>5
      <3> QED BY <3>1
    <2>2. CASE i # Len(s)
      <3>1. i \in 1..Len(s) - 1 /\ i \in 1..Len(s) /\ i + 1 \in 1..Len(s)
        BY <2>2, <1>2, <1>3
      <3>2. t[i] = s[i] /\ t[i + 1] = s[i + 1]
        BY <3>1, <1>3
      <3> QED BY <3>1, <3>2 DEF OnPath
    <2> QED BY <2>1, <2>2
  <1>10. OnPath(t, seen \cup {n})
    BY <1>3, <1>7, <1>8, <1>9 DEF OnPath
  <1> QED BY <1>10 DEF t

LEMMA PoppedOnPath ==
    ASSUME OnPath(frames, entered), frames # <<>>
    PROVE  OnPath(Below, entered)
  <1>1. /\ Below \in Seq(FrameSet) /\ Len(Below) = Len(frames) - 1
        /\ Len(frames) \in Nat \ {0}
        /\ \A i \in 1..Len(frames) - 1 : Below[i] = frames[i]
    BY Shorter DEF OnPath, Below
  <1>2. \A i \in 1..Len(Below) : i \in 1..Len(frames) /\ i \in 1..Len(frames) - 1
    BY <1>1
  <1>3. \A i \in 1..Len(Below) - 1 :
           i \in 1..Len(Below) /\ i + 1 \in 1..Len(Below) /\ i \in 1..Len(frames) - 1
    BY <1>1
  <1>4. \A i \in 1..Len(Below) :
           Below[i].node \in entered /\ Below[i].left \subseteq Imported(Below[i].node)
    BY <1>1, <1>2 DEF OnPath
  <1>5. \A i, j \in 1..Len(Below) : i # j => Below[i].node # Below[j].node
    BY <1>1, <1>2 DEF OnPath
  <1>6. \A i \in 1..Len(Below) - 1 : <<Below[i].node, Below[i + 1].node>> \in imports
    BY <1>1, <1>2, <1>3 DEF OnPath
  <1> QED BY <1>1, <1>4, <1>5, <1>6 DEF OnPath

(* The path from a module on the stack to the top, which imports it, is a   *)
(* simple cycle.                                                            *)
LEMMA BackEdgeCloses ==
    ASSUME OnPath(frames, entered), frames # <<>>,
           NEW i \in 1..Len(frames), frames[i].node \in Top.left
    PROVE  CycleAt(i) \in Seq(Source) /\ IsCycle(CycleAt(i))
  <1> DEFINE k == Len(frames) - i + 1
             c == CycleAt(i)
  <1>1. frames \in Seq(FrameSet) /\ Len(frames) \in Nat \ {0}
    BY EmptySeq DEF OnPath
  <1>2. k \in Nat \ {0}
    BY <1>1
  <1>3. \A j \in 1..k : i + j - 1 \in 1..Len(frames)
    BY <1>1
  <1>4. \A j \in 1..k : frames[i + j - 1].node \in Source
    <2>1. \A j \in 1..k : frames[i + j - 1] \in FrameSet
      BY <1>1, <1>3, ElementOfSeq
    <2> QED BY <2>1 DEF FrameSet
  <1>5. c \in [1..k -> Source] /\ \A j \in 1..k : c[j] = frames[i + j - 1].node
    BY <1>4 DEF CycleAt
  <1>6. c \in Seq(Source) /\ Len(c) = k
    <2> HIDE DEF c, k
    <2>1. c \in Seq(Source)
      BY <1>2, <1>5, SeqDef
    <2>2. DOMAIN c = 1..k /\ DOMAIN c = 1..Len(c) /\ Len(c) \in Nat
      BY <1>5, <2>1, LenProperties
    <2>3. k \in 1..k /\ 1..k = 1..Len(c)
      BY <1>2, <2>2
    <2>4. k \in 1..Len(c)
      BY ONLY <2>3
    <2>5. Len(c) \in 1..Len(c)
      BY <2>4, <2>2
    <2>6. Len(c) \in 1..k
      BY ONLY <2>3, <2>5
    <2>7. k \in Nat /\ Len(c) \in Nat
      BY <1>2, <2>2
    <2>8. Len(c) = k
      BY ONLY <2>4, <2>6, <2>7
    <2> QED BY <2>1, <2>8
  <1>7. c[1] = frames[i].node /\ c[Len(c)] = Top.node
    <2>1. 1 \in 1..k /\ k \in 1..k
      <3> HIDE DEF c, k
      <3> QED BY <1>2
    <2>2. i \in Int /\ i + 1 - 1 = i /\ i + k - 1 = Len(frames)
      BY <1>1
    <2> HIDE DEF c, k
    <2> QED BY <2>1, <2>2, <1>5, <1>6 DEF Top
  <1>8. \A j, l \in 1..Len(c) : j # l => c[j] # c[l]
    <2> SUFFICES ASSUME NEW j \in 1..k, NEW l \in 1..k, j # l
                 PROVE  c[j] # c[l]
      BY <1>6
    <2>1. i + j - 1 # i + l - 1
      BY <1>1
    <2> HIDE DEF c, k
    <2> QED BY <2>1, <1>3, <1>5 DEF OnPath
  <1>9. \A j \in 1..Len(c) - 1 : <<c[j], c[j + 1]>> \in imports
    <2> SUFFICES ASSUME NEW j \in 1..k - 1
                 PROVE  <<c[j], c[j + 1]>> \in imports
      BY <1>6
    <2>1. /\ j \in 1..k /\ j + 1 \in 1..k
          /\ i + j - 1 \in 1..Len(frames) - 1
          /\ i + (j + 1) - 1 = (i + j - 1) + 1
      BY <1>1, <1>2
    <2>2. c[j] = frames[i + j - 1].node /\ c[j + 1] = frames[(i + j - 1) + 1].node
      <3> HIDE DEF c, k
      <3> QED BY <2>1, <1>5
    <2> HIDE DEF c, k
    <2> QED BY <2>1, <2>2 DEF OnPath
  <1>10. <<c[Len(c)], c[1]>> \in imports
    <2>1. Len(frames) \in 1..Len(frames)
      BY <1>1
    <2>2. frames[i].node \in Imported(Top.node)
      BY <2>1 DEF OnPath, Top
    <2> HIDE DEF c, k
    <2> QED BY <2>2, <1>7 DEF Imported
  <1>11. c # <<>>
    <2> HIDE DEF c, k
    <2> QED BY <1>2, <1>6, EmptySeq
  <1>12. c \in Seq(Source) /\ IsCycle(c)
    <2> HIDE DEF c, k
    <2> QED BY <1>6, <1>8, <1>9, <1>10, <1>11 DEF IsCycle
  <1> QED BY <1>12 DEF c

LEMMA OneCycleMore ==
    ASSUME cycles \in Seq(Seq(Source)), CyclesAreReal,
           NEW c \in Seq(Source), IsCycle(c)
    PROVE  \A k \in 1..Len(Append(cycles, c)) : IsCycle(Append(cycles, c)[k])
  <1> DEFINE t == Append(cycles, c)
  <1>1. /\ Len(t) = Len(cycles) + 1 /\ Len(cycles) \in Nat
        /\ \A k \in 1..Len(cycles) : t[k] = cycles[k]
        /\ t[Len(cycles) + 1] = c
    BY Longer
  <1> HIDE DEF t
  <1>2. \A k \in 1..Len(t) : k \in 1..Len(cycles) \/ k = Len(cycles) + 1
    BY <1>1
  <1>3. \A k \in 1..Len(t) : IsCycle(t[k])
    BY <1>1, <1>2 DEF CyclesAreReal
  <1> QED BY <1>3 DEF t

-----------------------------------------------------------------------------
LEMMA SearchBegins == CyclesInit => CyclesIInv
  <1> SUFFICES ASSUME CyclesInit PROVE CyclesIInv
    OBVIOUS
  <1> USE DEF CyclesInit
  <1>1. <<>> \in Seq(FrameSet) /\ <<>> \in Seq(Seq(Source)) /\ Len(<<>>) = 0
    BY EmptySeq
  <1>2. Len(frames) = 0 /\ Len(cycles) = 0 /\ 1..0 = {} /\ 1..0 - 1 = {}
    BY <1>1
  <1>3. CyclesTypeOK
    BY <1>1 DEF CyclesTypeOK, FrameSet
  <1>4. OnPath(frames, entered)
    BY <1>1, <1>2 DEF OnPath
  <1>5. CyclesAreReal
    BY <1>2 DEF CyclesAreReal
  <1> QED BY <1>3, <1>4, <1>5 DEF CyclesIInv

(* A step that leaves the graph alone.                                      *)
LEMMA SameGraph ==
    ASSUME UNCHANGED imports, OnPath(frames', entered')
    PROVE  OnPath(frames, entered)'
  BY DEF OnPath, Imported

LEMMA SearchGoesOn == CyclesIInv /\ [CyclesNext]_cycleVars => CyclesIInv'
  <1> SUFFICES ASSUME CyclesIInv, [CyclesNext]_cycleVars PROVE CyclesIInv'
    OBVIOUS
  <1> USE DEF CyclesIInv
  <1>a. CyclesTypeOK /\ OnPath(frames, entered) /\ CyclesAreReal
    OBVIOUS
  <1>1. CASE DetectCycles
    <2>1. /\ frames = <<>> /\ cycles = <<>>
          /\ UNCHANGED <<frames, entered, cycles>> /\ search' = "on"
          /\ imports' \subseteq Source \X Source /\ name' \in Namings
      BY <1>1 DEF DetectCycles
    <2>2. CyclesTypeOK'
      BY <1>a, <2>1 DEF CyclesTypeOK
    <2>0. <<>> \in Seq(FrameSet) /\ Len(<<>>) = 0
      BY EmptySeq
    <2>3. Len(frames') = 0 /\ Len(cycles') = 0 /\ 1..0 = {} /\ 1..0 - 1 = {}
      BY <2>0, <2>1
    <2>4. OnPath(frames, entered)'
      BY <2>0, <2>1, <2>3 DEF OnPath
    <2>5. CyclesAreReal'
      BY <2>3 DEF CyclesAreReal
    <2> QED BY <2>1, <2>2, <2>4, <2>5
  <1>2. ASSUME NEW m \in Source, Start(m) PROVE CyclesIInv'
    <2>1. /\ frames' = <<Frame(m)>> /\ entered' = entered \cup {m}
          /\ UNCHANGED <<imports, name, search, cycles>> /\ search = "on"
      BY <1>2 DEF Start
    <2>2. Frame(m) \in FrameSet /\ Frame(m).node = m /\ Frame(m).left = Imported(m)
      BY DEF Frame, FrameSet, Imported
    <2>3. /\ <<Frame(m)>> \in Seq(FrameSet) /\ Len(<<Frame(m)>>) = 1
          /\ <<Frame(m)>>[1] = Frame(m)
      BY <2>2
    <2>4. OnPath(frames', entered')
      <3> DEFINE t == frames'
      <3>1. /\ t \in Seq(FrameSet) /\ Len(t) = 1
            /\ t[1].node = m /\ t[1].left = Imported(m)
        BY <2>1, <2>2, <2>3
      <3> HIDE DEF t
      <3>2. \A i \in 1..Len(t) : i = 1
        BY <3>1
      <3>3. 1..Len(t) - 1 = {}
        BY <3>1
      <3>4. OnPath(t, entered')
        BY <3>1, <3>2, <3>3, <2>1 DEF OnPath
      <3> QED BY <3>4 DEF t
    <2>5. OnPath(frames, entered)'
      BY <2>1, <2>4, SameGraph
    <2>6. CyclesTypeOK'
      BY <1>a, <2>1, <2>3 DEF CyclesTypeOK, FrameSet
    <2>7. CyclesAreReal'
      BY <1>a, <2>1 DEF CyclesAreReal, IsCycle
    <2> QED BY <2>1, <2>5, <2>6, <2>7
  <1>3. ASSUME NEW n \in Source, Descend(n) PROVE CyclesIInv'
    <2>1. /\ frames # <<>> /\ n \in Top.left /\ n \notin entered
          /\ frames' = Append(Looked(n), Frame(n)) /\ entered' = entered \cup {n}
          /\ UNCHANGED <<imports, name, search, cycles>> /\ search = "on"
      BY <1>3 DEF Descend
    <2>2. /\ OnPath(Looked(n), entered) /\ Len(Looked(n)) = Len(frames)
          /\ Looked(n)[Len(frames)].node = Top.node
          /\ Len(frames) \in Nat \ {0}
      <3>1. Len(frames) \in Nat \ {0}
        BY <1>a, <2>1, EmptySeq DEF OnPath
      <3>2. Len(frames) \in 1..Len(frames)
        BY <3>1
      <3> QED BY <1>a, <2>1, <3>1, <3>2, LookedOnPath, LookedIs DEF Top
    <2>3. <<Top.node, n>> \in imports
      <3>1. Len(frames) \in 1..Len(frames)
        BY <2>2
      <3>2. n \in Imported(Top.node)
        BY <1>a, <2>1, <3>1 DEF OnPath, Top
      <3> QED BY <3>2 DEF Imported
    <2>4. Looked(n) # <<>>
      BY <2>2, EmptySeq DEF OnPath
    <2>5. OnPath(frames', entered')
      <3>1. OnPath(Append(Looked(n), Frame(n)), entered \cup {n})
        BY <2>1, <2>2, <2>3, <2>4, PushedOnPath
      <3> QED BY <2>1, <3>1
    <2>6. OnPath(frames, entered)'
      BY <2>1, <2>5, SameGraph
    <2>7. CyclesTypeOK'
      BY <1>a, <2>1, <2>5 DEF CyclesTypeOK, OnPath, FrameSet
    <2>8. CyclesAreReal'
      BY <1>a, <2>1 DEF CyclesAreReal, IsCycle
    <2> QED BY <2>1, <2>6, <2>7, <2>8
  <1>4. ASSUME NEW n \in Source, Close(n) PROVE CyclesIInv'
    <2>1. /\ frames # <<>> /\ n \in Top.left
          /\ frames' = Looked(n) /\ UNCHANGED <<imports, name, entered>>
          /\ search = "on" /\ search' \in {"on", "done"}
      BY <1>4 DEF Close
    <2> PICK i \in 1..Len(frames) :
          /\ frames[i].node = n
          /\ cycles' = IF Reported(CycleAt(i)) THEN cycles ELSE Append(cycles, CycleAt(i))
      BY <1>4 DEF Close
    <2>2. CycleAt(i) \in Seq(Source) /\ IsCycle(CycleAt(i))
      BY <1>a, <2>1, BackEdgeCloses
    <2>3. cycles \in Seq(Seq(Source))
      BY <1>a DEF CyclesTypeOK
    <2>4. cycles' \in Seq(Seq(Source))
      BY <2>2, <2>3, Longer
    <2>5. \A k \in 1..Len(cycles') : IsCycle(cycles'[k])
      <3>1. CASE cycles' = cycles
        BY <3>1, <1>a DEF CyclesAreReal
      <3>2. CASE cycles' = Append(cycles, CycleAt(i))
        <4>1. \A k \in 1..Len(Append(cycles, CycleAt(i))) :
                 IsCycle(Append(cycles, CycleAt(i))[k])
          BY <1>a, <2>2, <2>3, OneCycleMore
        <4> QED BY <3>2, <4>1
      <3> QED BY <3>1, <3>2
    <2>6. CyclesAreReal'
      BY <2>1, <2>5 DEF CyclesAreReal, IsCycle
    <2>7. OnPath(frames', entered')
      BY <1>a, <2>1, LookedOnPath
    <2>8. OnPath(frames, entered)'
      BY <2>1, <2>7, SameGraph
    <2>9. CyclesTypeOK'
      BY <1>a, <2>1, <2>4, <2>7 DEF CyclesTypeOK, OnPath, FrameSet
    <2> QED BY <2>1, <2>6, <2>8, <2>9
  <1>5. ASSUME NEW n \in Source, Skip(n) PROVE CyclesIInv'
    <2>1. /\ frames # <<>> /\ frames' = Looked(n) /\ search = "on"
          /\ UNCHANGED <<imports, name, search, entered, cycles>>
      BY <1>5 DEF Skip
    <2>2. OnPath(frames', entered')
      BY <1>a, <2>1, LookedOnPath
    <2>3. OnPath(frames, entered)'
      BY <2>1, <2>2, SameGraph
    <2>4. CyclesTypeOK'
      BY <1>a, <2>1, <2>2 DEF CyclesTypeOK, OnPath, FrameSet
    <2>5. CyclesAreReal'
      BY <1>a, <2>1 DEF CyclesAreReal, IsCycle
    <2> QED BY <2>1, <2>3, <2>4, <2>5
  <1>6. CASE Return
    <2>1. /\ frames # <<>> /\ frames' = Below /\ search = "on"
          /\ UNCHANGED <<imports, name, search, entered, cycles>>
      BY <1>6 DEF Return
    <2>2. OnPath(frames', entered')
      BY <1>a, <2>1, PoppedOnPath
    <2>3. OnPath(frames, entered)'
      BY <2>1, <2>2, SameGraph
    <2>4. CyclesTypeOK'
      BY <1>a, <2>1, <2>2 DEF CyclesTypeOK, OnPath, FrameSet
    <2>5. CyclesAreReal'
      BY <1>a, <2>1 DEF CyclesAreReal, IsCycle
    <2> QED BY <2>1, <2>3, <2>4, <2>5
  <1>7. CASE EndSearch
    <2>1. search' = "done" /\ UNCHANGED <<imports, name, frames, entered, cycles>>
          /\ search = "on"
      BY <1>7 DEF EndSearch
    <2>2. CyclesTypeOK' /\ OnPath(frames, entered)' /\ CyclesAreReal'
      BY <1>a, <2>1 DEF CyclesTypeOK, OnPath, Imported, CyclesAreReal, IsCycle
    <2> QED BY <2>1, <2>2
  <1>8. CASE UNCHANGED cycleVars
    BY <1>8, <1>a
       DEF cycleVars, CyclesTypeOK, OnPath, Imported, CyclesAreReal, IsCycle
  <1> QED BY <1>1, <1>2, <1>3, <1>4, <1>5, <1>6, <1>7, <1>8 DEF CyclesNext

LEMMA CyclesInvariant == CyclesSpec => []CyclesIInv
  BY SearchBegins, SearchGoesOn, PTL DEF CyclesSpec

(* Every reachable state of the search has its types.                       *)
THEOREM CyclesTypeCorrect == CyclesSpec => []CyclesTypeOK
  <1>1. CyclesIInv => CyclesTypeOK
    BY DEF CyclesIInv
  <1> QED BY <1>1, CyclesInvariant, PTL

(* What detectImportCycles reports is a cycle of the graph, on every graph. *)
THEOREM ReportsAreCycles == CyclesSpec => []CyclesAreReal
  <1>1. CyclesIInv => CyclesAreReal
    BY DEF CyclesIInv
  <1> QED BY <1>1, CyclesInvariant, PTL

-----------------------------------------------------------------------------
(* The rule for dead code. *)

LEMMA DeadTypeInit == DeadInit => DeadTypeOK
BY DEF DeadInit, DeadTypeOK

LEMMA DeadTypeStep == DeadTypeOK /\ [DeadNext]_deadVars => DeadTypeOK'
<1> SUFFICES ASSUME DeadTypeOK, [DeadNext]_deadVars PROVE DeadTypeOK'
  OBVIOUS
<1> USE DEF DeadTypeOK
<1>1. CASE JudgeGraph
  BY <1>1 DEF JudgeGraph, PartId
<1>2. ASSUME NEW c \in PartId, Sweep(c) PROVE DeadTypeOK'
  BY <1>2 DEF Sweep, Found, Uses
<1>3. CASE EndSweep
  BY <1>3 DEF EndSweep
<1>4. CASE Verdict
  BY <1>4 DEF Verdict
<1>5. CASE UNCHANGED deadVars
  BY <1>5 DEF deadVars
<1> QED
  BY <1>1, <1>2, <1>3, <1>4, <1>5 DEF DeadNext

(* The variables of the rule keep their types. *)
THEOREM DeadTypeCorrect == DeadSpec => []DeadTypeOK
<1>1. DeadInit => DeadTypeOK
  BY DeadTypeInit
<1>2. DeadTypeOK /\ [DeadNext]_deadVars => DeadTypeOK'
  BY DeadTypeStep
<1> QED
  BY <1>1, <1>2, PTL DEF DeadSpec

-----------------------------------------------------------------------------
(* A set that has the entry points and whatever its members use.            *)
Closed(S) == entries \subseteq S /\ \A c \in S : Uses(c) \subseteq S

(* What was reached is alive; it has the entry points, and what its members *)
(* use unless they still wait; nothing waits once the sweep is over.        *)
SweepIInv ==
    /\ sweep # "idle" =>
         /\ entries \subseteq reached /\ waiting \subseteq reached
         /\ \A c \in reached \ waiting : Uses(c) \subseteq reached
         /\ \A S \in SUBSET PartId : Closed(S) => reached \subseteq S
    /\ sweep \in {"on", "judge"} => entries # {}
    /\ sweep = "judge" => waiting = {}
    /\ sweep = "idle" => dead = {}
    /\ DeadIsUnreachable

(* When nothing waits, the reached components are those that are alive.     *)
LEMMA ReachedIsAlive ==
    ASSUME DeadTypeOK, SweepIInv, sweep # "idle", waiting = {}, NEW n \in PartId
    PROVE  n \in reached <=> Alive(n)
<1>1. Closed(reached)
  BY DEF SweepIInv, Closed
<1>2. reached \in SUBSET PartId
  BY DEF DeadTypeOK
<1>3. ASSUME Alive(n) PROVE n \in reached
  BY <1>1, <1>2, <1>3 DEF Alive, Closed
<1>4. ASSUME n \in reached PROVE Alive(n)
  BY <1>4 DEF Alive, Closed, SweepIInv
<1> QED
  BY <1>3, <1>4

LEMMA SweepIInvInit == DeadInit => SweepIInv
BY DEF DeadInit, SweepIInv, DeadIsUnreachable

LEMMA SweepIInvStep ==
    DeadTypeOK /\ SweepIInv /\ [DeadNext]_deadVars => SweepIInv'
<1> SUFFICES ASSUME DeadTypeOK, SweepIInv, [DeadNext]_deadVars PROVE SweepIInv'
  OBVIOUS
<1> USE DEF PartId
<1>0. DeadTypeOK'
  BY DeadTypeStep
<1>1. CASE JudgeGraph
  <2>1. sweep' = "done" => entries' = {} /\ dead' = {}
    BY <1>1 DEF JudgeGraph, SweepIInv
  <2>2. /\ sweep' \in {"on", "done"}
        /\ sweep' = "on" => entries' # {}
    BY <1>1 DEF JudgeGraph
  <2>3. reached' = entries' /\ waiting' = entries'
    BY <1>1 DEF JudgeGraph
  <2> QED
    BY <2>1, <2>2, <2>3 DEF SweepIInv, DeadIsUnreachable, Closed
<1>2. ASSUME NEW c \in PartId, Sweep(c) PROVE SweepIInv'
  <2>1. /\ sweep' = "on" /\ sweep = "on" /\ c \in waiting
        /\ uses' = uses /\ entries' = entries
        /\ reached' = reached \cup Uses(c)
        /\ waiting' = (waiting \ {c}) \cup (Uses(c) \ reached)
    BY <1>2 DEF Sweep, Found
  <2>2. \A x : Uses(x)' = Uses(x)
    BY <2>1 DEF Uses
  <2>3. waiting' \subseteq reached' /\ entries' \subseteq reached'
    BY <2>1 DEF SweepIInv
  <2>4. ASSUME NEW x \in reached' \ waiting' PROVE Uses(x)' \subseteq reached'
    BY <2>1, <2>2, <2>4 DEF SweepIInv
  <2>5. ASSUME NEW S \in SUBSET PartId, Closed(S)' PROVE reached' \subseteq S
    <3>1. Closed(S)
      BY <2>1, <2>2, <2>5 DEF Closed
    <3>2. reached \subseteq S /\ c \in reached
      BY <3>1, <2>1 DEF SweepIInv
    <3> QED
      BY <3>1, <3>2, <2>1 DEF Closed
  <2> QED
    BY <2>1, <2>3, <2>4, <2>5 DEF SweepIInv, DeadIsUnreachable
<1>3. CASE EndSweep
  <2>1. /\ sweep = "on" /\ sweep' = "judge" /\ waiting = {}
        /\ UNCHANGED <<uses, entries, exempt, reached, waiting, dead>>
    BY <1>3 DEF EndSweep
  <2>2. entries # {}
    BY <2>1 DEF SweepIInv
  <2> QED
    BY <2>1, <2>2 DEF SweepIInv, DeadIsUnreachable, Closed, Uses
<1>4. CASE Verdict
  <2>1. /\ sweep = "judge" /\ sweep' = "done" /\ waiting = {} /\ entries # {}
        /\ UNCHANGED <<uses, entries, exempt, reached, waiting>>
        /\ dead' = {c \in Part \ (reached \cup exempt) : c \in Linked}
    BY <1>4 DEF Verdict, SweepIInv
  <2>2. ASSUME NEW n \in PartId PROVE n \in reached <=> Alive(n)
    BY <2>1, ReachedIsAlive
  <2>3. dead' = {c \in Part : /\ entries # {} /\ c \notin exempt /\ c \in Linked
                             /\ ~Alive(c)}
    BY <2>1, <2>2
  <2>4. DeadIsUnreachable'
    BY <2>1, <2>3 DEF DeadIsUnreachable, Alive, Linked, Uses
  <2> QED
    BY <2>1, <2>4 DEF SweepIInv, Closed, Uses
<1>5. CASE UNCHANGED deadVars
  BY <1>5 DEF deadVars, SweepIInv, DeadIsUnreachable, Closed, Uses, Alive, Linked
<1> QED
  BY <1>1, <1>2, <1>3, <1>4, <1>5 DEF DeadNext

(* The rule reports what is judged, connected and unreachable, nothing less  *)
(* and nothing more (analyzeTransitiveDeadCode).                             *)
THEOREM VerdictsAreRight == DeadSpec => []DeadIsUnreachable
<1>1. DeadInit => DeadTypeOK /\ SweepIInv
  BY DeadTypeInit, SweepIInvInit
<1>2. DeadTypeOK /\ SweepIInv /\ [DeadNext]_deadVars => (DeadTypeOK /\ SweepIInv)'
  BY DeadTypeStep, SweepIInvStep
<1>3. SweepIInv => DeadIsUnreachable
  BY DEF SweepIInv
<1> QED
  BY <1>1, <1>2, <1>3, PTL DEF DeadSpec

-----------------------------------------------------------------------------
(* The knots of imports.                                                      *)

(* Modules that import each other, directly or through others.               *)
Mutual(m, n) == n \in Chain(m) /\ m \in Chain(n)

(* A cycle of cs is in the knot of m.                                         *)
Covered(m, cs) == \E k \in 1..Len(cs) : Mutual(cs[k][1], m)

Stacked(s) == {s[i].node : i \in 1..Len(s)}
Distinct == \A m, n \in Source : m # n => name[m] # name[n]

(* With a stack s, modules `done` that were left, and modules `seen`: each    *)
(* module of the stack imports those above it;                               *)
Upward(s) == \A i, j \in 1..Len(s) : i < j => s[j].node \in Chain(s[i].node)

(* the modules of a reported cycle import each other;                        *)
Knots(cs) ==
    \A k \in 1..Len(cs) : \A a, b \in 1..Len(cs[k]) : cs[k][a] \in Chain(cs[k][b])

(* what was looked at was seen;                                              *)
Looks(s, done, seen) ==
    /\ \A m \in done : Imported(m) \subseteq seen
    /\ \A i \in 1..Len(s) : Imported(s[i].node) \ s[i].left \subseteq seen

(* an import that leads back to the stack, and was looked at, was told of;    *)
Backs(s, done, cs) ==
    /\ \A m \in done : \A n \in Imported(m) \cap Stacked(s) : Covered(n, cs)
    /\ \A i, j \in 1..Len(s) :
         j <= i /\ s[j].node \in Imported(s[i].node) \ s[i].left
         => Covered(s[j].node, cs)

(* and so was the knot of each module that was left, unless some of it is     *)
(* still on the stack.                                                       *)
Told(s, done, cs) ==
    \A m \in done : m \in Chain(m) =>
        Covered(m, cs) \/ \E n \in Stacked(s) : Mutual(n, m)

SearchKeeps(s, done, seen, cs) ==
    /\ Upward(s) /\ Knots(cs) /\ Looks(s, done, seen)
    /\ Distinct => Backs(s, done, cs) /\ Told(s, done, cs)

KnotIInv ==
    /\ CyclesIInv
    /\ search = "idle" => entered = {}
    /\ SearchKeeps(frames, entered \ Stacked(frames), entered, cycles)
    /\ search = "done" /\ Len(cycles) < CycleLimit
         => frames = <<>> /\ Importers \subseteq entered

-----------------------------------------------------------------------------
(* What is imported, directly or not, is closed. *)
LEMMA ChainIsClosed ==
    /\ \A m : Imported(m) \subseteq Chain(m)
    /\ \A m : \A n \in Chain(m) : Imported(n) \subseteq Chain(m)
<1>1. ASSUME NEW m, NEW n \in Imported(m) PROVE n \in Chain(m)
  BY <1>1 DEF Chain, Imported
<1>2. ASSUME NEW m, NEW n \in Chain(m), NEW l \in Imported(n)
      PROVE  l \in Chain(m)
  <2>1. l \in Source
    BY <1>2 DEF Imported
  <2>2. ASSUME NEW S \in SUBSET Source, Imported(m) \subseteq S,
               \A x \in S : Imported(x) \subseteq S
        PROVE  l \in S
    <3>1. n \in S
      BY <2>2, <1>2 DEF Chain
    <3> QED BY <3>1, <2>2, <1>2
  <2> QED BY <2>1, <2>2 DEF Chain
<1> QED BY <1>1, <1>2

(* It is the least such set. *)
LEMMA ChainIsLeast ==
    ASSUME NEW m, NEW S, Imported(m) \subseteq S,
           \A x \in S : Imported(x) \subseteq S
    PROVE  Chain(m) \subseteq S
<1>1. S \cap Source \in SUBSET Source
  OBVIOUS
<1>2. \A x : Imported(x) \subseteq Source
  BY DEF Imported
<1>3. Imported(m) \subseteq S \cap Source
  BY <1>2
<1>4. \A x \in S \cap Source : Imported(x) \subseteq S \cap Source
  BY <1>2
<1>5. \A n \in Chain(m) : n \in S \cap Source
  BY <1>1, <1>3, <1>4 DEF Chain
<1> QED BY <1>5

LEMMA ChainGoesOn ==
    ASSUME NEW m, NEW n \in Chain(m) PROVE Chain(n) \subseteq Chain(m)
<1>1. Imported(n) \subseteq Chain(m) /\ \A x \in Chain(m) : Imported(x) \subseteq Chain(m)
  BY ChainIsClosed
<1> QED BY <1>1, ChainIsLeast

LEMMA MutualIsTransitive ==
    ASSUME NEW l, NEW m, NEW n, Mutual(l, m), Mutual(m, n) PROVE Mutual(l, n)
<1>1. Chain(m) \subseteq Chain(l) /\ Chain(m) \subseteq Chain(n)
  BY ChainGoesOn DEF Mutual
<1> QED BY <1>1 DEF Mutual

LEMMA MutualIsSymmetric ==
    ASSUME NEW m, NEW n, Mutual(m, n) PROVE Mutual(n, m)
BY DEF Mutual

LEMMA CoversItsKnot ==
    ASSUME NEW cs, NEW m, NEW n, Covered(m, cs), Mutual(m, n) PROVE Covered(n, cs)
<1>1. PICK k \in 1..Len(cs) : Mutual(cs[k][1], m)
  BY DEF Covered
<1>2. Mutual(cs[k][1], n)
  BY <1>1, MutualIsTransitive
<1> QED BY <1>2 DEF Covered

(* Whoever is in its own chain is imported by itself or by one of the chain. *)
LEMMA ImportedBack ==
    ASSUME NEW m, m \in Chain(m)
    PROVE  \E x \in Chain(m) \cup {m} : m \in Imported(x)
<1> SUFFICES ASSUME \A x \in Chain(m) \cup {m} : m \notin Imported(x) PROVE FALSE
  OBVIOUS
<1> DEFINE S == Chain(m) \ {m}
<1>1. Imported(m) \subseteq S
  BY ChainIsClosed
<1>2. \A x \in S : Imported(x) \subseteq S
  BY ChainIsClosed
<1>3. Chain(m) \subseteq S
  BY <1>1, <1>2, ChainIsLeast
<1> QED BY <1>3

LEMMA ChainNeedsImport ==
    ASSUME NEW m, Imported(m) = {} PROVE Chain(m) = {}
<1>1. Chain(m) \subseteq {}
  BY ChainIsLeast
<1> QED BY <1>1

-----------------------------------------------------------------------------
(* One cycle more. *)
LEMMA MoreKeeps ==
    ASSUME cycles \in Seq(Seq(Source)), NEW s, NEW done, NEW seen,
           SearchKeeps(s, done, seen, cycles), NEW c \in Seq(Source),
           \A a, b \in 1..Len(c) : c[a] \in Chain(c[b])
    PROVE  /\ SearchKeeps(s, done, seen, Append(cycles, c))
           /\ 1 \in 1..Len(c) => Covered(c[1], Append(cycles, c))
<1> DEFINE t == Append(cycles, c)
<1>1. /\ Len(t) = Len(cycles) + 1 /\ Len(cycles) \in Nat
      /\ \A k \in 1..Len(cycles) : t[k] = cycles[k]
      /\ t[Len(cycles) + 1] = c
  BY Longer
<1> HIDE DEF t
<1>2. \A k \in 1..Len(t) : k \in 1..Len(cycles) \/ k = Len(cycles) + 1
  BY <1>1
<1>3. 1..Len(cycles) \subseteq 1..Len(t) /\ Len(cycles) + 1 \in 1..Len(t)
  BY <1>1
<1>4. ASSUME NEW m, Covered(m, cycles) PROVE Covered(m, t)
  <2>1. PICK k \in 1..Len(cycles) : Mutual(cycles[k][1], m)
    BY <1>4 DEF Covered
  <2>2. k \in 1..Len(t) /\ t[k] = cycles[k]
    BY <1>1, <1>3
  <2> QED BY <2>1, <2>2 DEF Covered
<1>5. Knots(t)
  <2> SUFFICES ASSUME NEW k \in 1..Len(t)
               PROVE  \A a, b \in 1..Len(t[k]) : t[k][a] \in Chain(t[k][b])
    BY DEF Knots
  <2>1. CASE k \in 1..Len(cycles)
    BY <2>1, <1>1 DEF SearchKeeps, Knots
  <2>2. CASE k = Len(cycles) + 1
    BY <2>2, <1>1
  <2> QED BY <2>1, <2>2, <1>2
<1>6. Distinct => Backs(s, done, t) /\ Told(s, done, t)
  <2> SUFFICES ASSUME Distinct PROVE Backs(s, done, t) /\ Told(s, done, t)
    OBVIOUS
  <2>1. Backs(s, done, cycles) /\ Told(s, done, cycles)
    BY DEF SearchKeeps
  <2>2. Backs(s, done, t)
    BY <2>1, <1>4 DEF Backs
  <2>3. Told(s, done, t)
    BY <2>1, <1>4 DEF Told
  <2> QED BY <2>2, <2>3
<1>7. SearchKeeps(s, done, seen, t)
  BY <1>5, <1>6 DEF SearchKeeps
<1>8. 1 \in 1..Len(c) => Covered(c[1], t)
  <2> SUFFICES ASSUME 1 \in 1..Len(c) PROVE Covered(c[1], t)
    OBVIOUS
  <2>1. Mutual(c[1], c[1])
    BY DEF Mutual
  <2> QED BY <2>1, <1>1, <1>3 DEF Covered
<1> QED BY <1>7, <1>8 DEF t

(* The import of the top that is looked at leaves the top. *)
LEMMA LookedLeaves ==
    ASSUME NEW n, OnPath(frames, entered), frames # <<>>
    PROVE  \A i \in 1..Len(frames) :
             Looked(n)[i].left =
                IF i = Len(frames) THEN frames[i].left \ {n} ELSE frames[i].left
<1> DEFINE top == [Top EXCEPT !.left = @ \ {n}]
           t == Append(Below, top)
<1>1. frames \in Seq(FrameSet)
  BY DEF OnPath
<1>2. /\ Below \in Seq(FrameSet) /\ Len(Below) = Len(frames) - 1
      /\ Len(frames) \in Nat \ {0}
      /\ \A i \in 1..Len(frames) - 1 : Below[i] = frames[i]
  BY <1>1, Shorter DEF Below
<1>3. Len(frames) \in 1..Len(frames)
  BY <1>2
<1>4. Top \in FrameSet
  BY <1>1, <1>3, ElementOfSeq DEF Top
<1>5. top \in FrameSet /\ top.left = Top.left \ {n}
  BY <1>4 DEF FrameSet
<1> HIDE DEF top
<1>6. /\ \A i \in 1..Len(Below) : t[i] = Below[i]
      /\ t[Len(Below) + 1] = top
  BY <1>2, <1>5, Longer
<1> HIDE DEF t
<1> SUFFICES ASSUME NEW i \in 1..Len(frames)
             PROVE  t[i].left = IF i = Len(frames) THEN frames[i].left \ {n}
                                ELSE frames[i].left
  BY DEF Looked, t, top
<1>7. CASE i = Len(frames)
  <2>1. t[i] = top /\ frames[i] = Top
    BY <1>7, <1>2, <1>6 DEF Top
  <2> QED BY <2>1, <1>5, <1>7
<1>8. CASE i # Len(frames)
  <2>1. i \in 1..Len(frames) - 1 /\ i \in 1..Len(Below)
    BY <1>8, <1>2
  <2>2. t[i] = frames[i]
    BY <2>1, <1>2, <1>6
  <2> QED BY <2>2, <1>8
<1> QED BY <1>7, <1>8

LEMMA LookKeeps ==
    ASSUME OnPath(frames, entered), frames # <<>>, NEW done, NEW seen, NEW cs,
           SearchKeeps(frames, done, entered, cs), entered \subseteq seen,
           NEW n \in seen, Distinct /\ n \in Stacked(frames) => Covered(n, cs)
    PROVE  /\ SearchKeeps(Looked(n), done, seen, cs)
           /\ Stacked(Looked(n)) = Stacked(frames)
<1> DEFINE t == Looked(n)
<1>1. /\ t \in Seq(FrameSet) /\ Len(t) = Len(frames)
      /\ \A i \in 1..Len(frames) : t[i].node = frames[i].node
  BY LookedIs
<1>2. \A i \in 1..Len(frames) :
         t[i].left = IF i = Len(frames) THEN frames[i].left \ {n} ELSE frames[i].left
  BY LookedLeaves
<1> HIDE DEF t
<1>3. \A i \in 1..Len(frames) : frames[i].left \subseteq t[i].left \cup {n}
  BY <1>2
<1>4. Stacked(t) = Stacked(frames)
  BY <1>1 DEF Stacked
<1>5. Upward(t)
  BY <1>1 DEF SearchKeeps, Upward
<1>6. Looks(t, done, seen)
  <2>1. Looks(frames, done, entered)
    BY DEF SearchKeeps
  <2>2. \A m \in done : Imported(m) \subseteq seen
    BY <2>1 DEF Looks
  <2>3. ASSUME NEW i \in 1..Len(t) PROVE Imported(t[i].node) \ t[i].left \subseteq seen
    <3>1. i \in 1..Len(frames) /\ t[i].node = frames[i].node
          /\ frames[i].left \subseteq t[i].left \cup {n}
      BY <1>1, <1>3
    <3>2. Imported(frames[i].node) \ frames[i].left \subseteq entered
      BY <2>1, <3>1 DEF Looks
    <3> QED BY <3>1, <3>2
  <2> QED BY <2>2, <2>3 DEF Looks
<1>7. Distinct => Backs(t, done, cs) /\ Told(t, done, cs)
  <2> SUFFICES ASSUME Distinct PROVE Backs(t, done, cs) /\ Told(t, done, cs)
    OBVIOUS
  <2>1. Backs(frames, done, cs) /\ Told(frames, done, cs)
    BY DEF SearchKeeps
  <2>2. Told(t, done, cs)
    BY <2>1, <1>4 DEF Told
  <2>3. \A m \in done : \A l \in Imported(m) \cap Stacked(t) : Covered(l, cs)
    BY <2>1, <1>4 DEF Backs
  <2>4. ASSUME NEW i \in 1..Len(t), NEW j \in 1..Len(t), j <= i,
               t[j].node \in Imported(t[i].node) \ t[i].left
        PROVE  Covered(t[j].node, cs)
    <3>1. /\ i \in 1..Len(frames) /\ j \in 1..Len(frames)
          /\ t[i].node = frames[i].node /\ t[j].node = frames[j].node
          /\ frames[i].left \subseteq t[i].left \cup {n}
      BY <1>1, <1>3
    <3>2. CASE frames[j].node = n
      <4>1. n \in Stacked(frames)
        BY <3>1, <3>2 DEF Stacked
      <4> QED BY <4>1, <3>1, <3>2
    <3>3. CASE frames[j].node # n
      <4>1. frames[j].node \in Imported(frames[i].node) \ frames[i].left
        BY <3>1, <3>3, <2>4
      <4> QED BY <4>1, <3>1, <2>1, <2>4 DEF Backs
    <3> QED BY <3>2, <3>3
  <2>5. Backs(t, done, cs)
    BY <2>3, <2>4 DEF Backs
  <2> QED BY <2>2, <2>5
<1>8. SearchKeeps(t, done, seen, cs)
  BY <1>5, <1>6, <1>7 DEF SearchKeeps
<1> QED BY <1>8, <1>4 DEF t

(* A module that is entered: what is done imports nothing that was not seen. *)
LEMMA PushKeeps ==
    ASSUME NEW s \in Seq(FrameSet), NEW done, NEW seen, NEW cs,
           SearchKeeps(s, done, seen, cs), NEW n \in Source, n \notin Stacked(s),
           \A m \in done : n \notin Imported(m),
           \A i \in 1..Len(s) : n \in Chain(s[i].node)
    PROVE  /\ SearchKeeps(Append(s, Frame(n)), done, seen, cs)
           /\ Stacked(Append(s, Frame(n))) = Stacked(s) \cup {n}
<1> DEFINE t == Append(s, Frame(n))
<1>1. Frame(n) \in FrameSet /\ Frame(n).node = n /\ Frame(n).left = Imported(n)
  BY DEF Frame, FrameSet, Imported
<1>2. /\ Len(t) = Len(s) + 1 /\ Len(s) \in Nat
      /\ \A i \in 1..Len(s) : t[i] = s[i]
      /\ t[Len(s) + 1] = Frame(n)
  BY <1>1, Longer
<1> HIDE DEF t
<1>3. \A i \in 1..Len(t) : i \in 1..Len(s) \/ i = Len(s) + 1
  BY <1>2
<1>4. 1..Len(s) \subseteq 1..Len(t) /\ Len(s) + 1 \in 1..Len(t)
  BY <1>2
<1>5. t[Len(s) + 1].node = n /\ t[Len(s) + 1].left = Imported(n)
  BY <1>1, <1>2
<1>6. Stacked(t) = Stacked(s) \cup {n}
  <2>1. Stacked(t) \subseteq Stacked(s) \cup {n}
    BY <1>2, <1>3, <1>5 DEF Stacked
  <2>2. Stacked(s) \cup {n} \subseteq Stacked(t)
    BY <1>2, <1>4, <1>5 DEF Stacked
  <2> QED BY <2>1, <2>2
<1>7. Upward(t)
  <2> SUFFICES ASSUME NEW i \in 1..Len(t), NEW j \in 1..Len(t), i < j
               PROVE  t[j].node \in Chain(t[i].node)
    BY DEF Upward
  <2>1. i \in 1..Len(s)
    BY <1>2, <1>3
  <2>2. CASE j \in 1..Len(s)
    BY <2>1, <2>2, <1>2 DEF SearchKeeps, Upward
  <2>3. CASE j = Len(s) + 1
    BY <2>1, <2>3, <1>2, <1>5
  <2> QED BY <2>2, <2>3, <1>3
<1>8. Looks(t, done, seen)
  <2>1. Looks(s, done, seen)
    BY DEF SearchKeeps
  <2>2. ASSUME NEW i \in 1..Len(t) PROVE Imported(t[i].node) \ t[i].left \subseteq seen
    <3>1. CASE i \in 1..Len(s)
      BY <3>1, <2>1, <1>2 DEF Looks
    <3>2. CASE i = Len(s) + 1
      BY <3>2, <1>5
    <3> QED BY <3>1, <3>2, <1>3
  <2> QED BY <2>1, <2>2 DEF Looks
<1>9. Distinct => Backs(t, done, cs) /\ Told(t, done, cs)
  <2> SUFFICES ASSUME Distinct PROVE Backs(t, done, cs) /\ Told(t, done, cs)
    OBVIOUS
  <2>1. Backs(s, done, cs) /\ Told(s, done, cs)
    BY DEF SearchKeeps
  <2>2. Told(t, done, cs)
    BY <2>1, <1>6 DEF Told
  <2>3. \A m \in done : \A l \in Imported(m) \cap Stacked(t) : Covered(l, cs)
    <3> SUFFICES ASSUME NEW m \in done, NEW l \in Imported(m) \cap Stacked(t)
                 PROVE  Covered(l, cs)
      OBVIOUS
    <3>1. l \in Imported(m) \cap Stacked(s)
      BY <1>6
    <3> QED BY <3>1, <2>1 DEF Backs
  <2>4. ASSUME NEW i \in 1..Len(t), NEW j \in 1..Len(t), j <= i,
               t[j].node \in Imported(t[i].node) \ t[i].left
        PROVE  Covered(t[j].node, cs)
    <3>1. i # Len(s) + 1
      BY <2>4, <1>5
    <3>2. i \in 1..Len(s)
      BY <3>1, <1>3
    <3>3. j \in 1..Len(s)
      BY <3>2, <2>4, <1>2
    <3> QED BY <3>2, <3>3, <2>1, <2>4, <1>2 DEF Backs
  <2> QED BY <2>2, <2>3, <2>4 DEF Backs
<1>10. SearchKeeps(t, done, seen, cs)
  BY <1>7, <1>8, <1>9 DEF SearchKeeps
<1> QED BY <1>10, <1>6 DEF t

(* A module that is left: if no module below it is in its knot, all of its  *)
(* chain is done, and the import that closes the knot was told of.          *)
LEMMA PopKeeps ==
    ASSUME OnPath(frames, entered), frames # <<>>, Top.left = {}, NEW cs,
           SearchKeeps(frames, entered \ Stacked(frames), entered, cs)
    PROVE  SearchKeeps(Below, entered \ Stacked(Below), entered, cs)
<1> DEFINE t == Below
           L == Len(frames)
           s == Top.node
           done == entered \ Stacked(frames)
           more == entered \ Stacked(t)
<1>1. frames \in Seq(FrameSet)
  BY DEF OnPath
<1>2. /\ t \in Seq(FrameSet) /\ Len(t) = L - 1 /\ L \in Nat \ {0}
      /\ \A i \in 1..L - 1 : t[i] = frames[i]
  BY <1>1, Shorter DEF Below
<1> HIDE DEF t
<1>3. L \in 1..L /\ 1..Len(t) = 1..L - 1 /\ 1..L - 1 \subseteq 1..L
  BY <1>2
<1>4. \A i \in 1..L : i \in 1..L - 1 \/ i = L
  BY <1>2
<1>5. s = frames[L].node /\ frames[L].left = {}
  BY DEF Top
<1>6. Stacked(frames) = Stacked(t) \cup {s}
  <2>1. Stacked(frames) \subseteq Stacked(t) \cup {s}
    BY <1>2, <1>3, <1>4, <1>5 DEF Stacked
  <2>2. Stacked(t) \cup {s} \subseteq Stacked(frames)
    BY <1>2, <1>3, <1>5 DEF Stacked
  <2> QED BY <2>1, <2>2
<1>7. s \in entered /\ s \notin Stacked(t)
  <2>1. s \in entered
    BY <1>3, <1>5 DEF OnPath
  <2>2. ASSUME NEW i \in 1..L - 1 PROVE frames[i].node # frames[L].node
    <3>1. i \in 1..L /\ i # L
      BY <1>2
    <3> QED BY <3>1, <1>3 DEF OnPath
  <2>3. s \notin Stacked(t)
    BY <2>2, <1>2, <1>3, <1>5 DEF Stacked
  <2> QED BY <2>1, <2>3
<1>8. more = done \cup {s}
  BY <1>6, <1>7
<1>k. /\ Upward(frames) /\ Knots(cs) /\ Looks(frames, done, entered)
      /\ Distinct => Backs(frames, done, cs) /\ Told(frames, done, cs)
  BY DEF SearchKeeps
<1> HIDE DEF done, more, s, L
<1>9. Imported(s) \subseteq entered
  BY <1>k, <1>3, <1>5 DEF Looks, L
<1>10. Upward(t)
  BY <1>k, <1>2, <1>3 DEF Upward, L
<1>11. Looks(t, more, entered)
  <2>1. \A m \in more : Imported(m) \subseteq entered
    BY <1>k, <1>8, <1>9 DEF Looks
  <2>2. \A i \in 1..Len(t) : Imported(t[i].node) \ t[i].left \subseteq entered
    BY <1>k, <1>2, <1>3 DEF Looks, L
  <2> QED BY <2>1, <2>2 DEF Looks
<1>12. Distinct => Backs(t, more, cs) /\ Told(t, more, cs)
  <2> SUFFICES ASSUME Distinct PROVE Backs(t, more, cs) /\ Told(t, more, cs)
    OBVIOUS
  <2>1. Backs(frames, done, cs) /\ Told(frames, done, cs)
    BY <1>k
  <2>2. \A i, j \in 1..Len(t) :
          j <= i /\ t[j].node \in Imported(t[i].node) \ t[i].left
          => Covered(t[j].node, cs)
    BY <2>1, <1>2, <1>3 DEF Backs, L
  <2>3. ASSUME NEW n \in Imported(s) \cap Stacked(frames) PROVE Covered(n, cs)
    <3>1. PICK j \in 1..L : frames[j].node = n
      BY DEF Stacked, L
    <3>2. j <= L /\ n \in Imported(frames[L].node) \ frames[L].left
      BY <1>2, <1>5, <2>3
    <3> QED BY <3>1, <3>2, <2>1, <1>3 DEF Backs, L
  <2>4. \A m \in more : \A n \in Imported(m) \cap Stacked(frames) : Covered(n, cs)
    BY <2>1, <2>3, <1>8 DEF Backs
  <2>5. Backs(t, more, cs)
    BY <2>2, <2>4, <1>6 DEF Backs
  <2>6. ASSUME s \in Chain(s), \A n \in Stacked(t) : ~Mutual(n, s)
        PROVE  Covered(s, cs)
    <3> DEFINE S == Chain(s) \cap more
    <3>1. ASSUME NEW n \in Stacked(t) PROVE s \in Chain(n)
      <4>1. PICK i \in 1..L - 1 : frames[i].node = n
        BY <1>2, <1>3 DEF Stacked
      <4>2. i \in 1..L /\ i < L
        BY <1>2
      <4> QED BY <4>1, <4>2, <1>k, <1>3, <1>5 DEF Upward, L
    <3>2. ASSUME NEW n \in Chain(s), n \in entered PROVE n \in more
      <4>1. n \notin Stacked(t)
        BY <2>6, <3>1 DEF Mutual
      <4> QED BY <4>1, <3>2 DEF more
    <3>3. Imported(s) \subseteq S
      BY <3>2, <1>9, ChainIsClosed
    <3>4. ASSUME NEW m \in S PROVE Imported(m) \subseteq S
      <4>1. Imported(m) \subseteq Chain(s)
        BY ChainIsClosed
      <4>2. Imported(m) \subseteq entered
        BY <1>11 DEF Looks
      <4> QED BY <4>1, <4>2, <3>2
    <3>5. Chain(s) \subseteq S
      BY <3>3, <3>4, ChainIsLeast
    <3>6. PICK m \in Chain(s) \cup {s} : s \in Imported(m)
      BY <2>6, ImportedBack
    <3>7. m \in more
      BY <3>5, <2>6
    <3> QED BY <3>6, <3>7, <2>4, <1>6
  <2>7. ASSUME NEW m \in more, m \in Chain(m), Mutual(s, m)
        PROVE  Covered(m, cs) \/ \E n \in Stacked(t) : Mutual(n, m)
    <3>1. CASE \E n \in Stacked(t) : Mutual(n, s)
      BY <3>1, <2>7, MutualIsTransitive
    <3>2. CASE \A n \in Stacked(t) : ~Mutual(n, s)
      <4>1. s \in Chain(s)
        BY <2>7, ChainGoesOn DEF Mutual
      <4> QED BY <4>1, <3>2, <2>6, <2>7, CoversItsKnot
    <3> QED BY <3>1, <3>2
  <2>8. Told(t, more, cs)
    <3> SUFFICES ASSUME NEW m \in more, m \in Chain(m)
                 PROVE  Covered(m, cs) \/ \E n \in Stacked(t) : Mutual(n, m)
      BY DEF Told
    <3>1. CASE m = s
      <4>1. Mutual(s, m)
        BY <3>1 DEF Mutual
      <4> QED BY <4>1, <2>7
    <3>2. CASE m # s
      <4>1. m \in done
        BY <3>2, <1>8
      <4>2. Covered(m, cs) \/ \E n \in Stacked(frames) : Mutual(n, m)
        BY <4>1, <2>1 DEF Told
      <4>3. ASSUME Mutual(s, m)
            PROVE  Covered(m, cs) \/ \E n \in Stacked(t) : Mutual(n, m)
        BY <4>3, <2>7
      <4> QED BY <4>2, <4>3, <1>6
    <3> QED BY <3>1, <3>2
  <2> QED BY <2>5, <2>8
<1>13. SearchKeeps(t, more, entered, cs)
  BY <1>k, <1>10, <1>11, <1>12 DEF SearchKeeps
<1> QED BY <1>13 DEF t, more

(* The modules of a cycle are in each other's chains. *)
LEMMA BackEdgeKnots ==
    ASSUME OnPath(frames, entered), frames # <<>>, Upward(frames),
           NEW i \in 1..Len(frames), frames[i].node \in Top.left
    PROVE  /\ \A a, b \in 1..Len(CycleAt(i)) : CycleAt(i)[a] \in Chain(CycleAt(i)[b])
           /\ 1 \in 1..Len(CycleAt(i)) /\ CycleAt(i)[1] = frames[i].node
<1> DEFINE L == Len(frames)
           c == CycleAt(i)
           n == frames[i].node
<1>1. L \in Nat \ {0} /\ L \in 1..L
  BY EmptySeq DEF OnPath
<1>2. c \in Seq(Source) /\ c # <<>>
  BY BackEdgeCloses DEF IsCycle
<1>3. c \in [1..L - i + 1 -> {frames[j].node : j \in 1..L}]
      /\ \A a \in 1..L - i + 1 : i + a - 1 \in i..L /\ c[a] = frames[i + a - 1].node
  BY <1>1 DEF CycleAt
<1>4. DOMAIN c = 1..Len(c) /\ DOMAIN c = 1..L - i + 1 /\ Len(c) \in Nat \ {0}
  <2>1. DOMAIN c = 1..L - i + 1
    BY <1>3
  <2> HIDE DEF c
  <2> QED BY <2>1, <1>2, EmptySeq, LenProperties
<1>5. n \in Imported(frames[L].node)
  BY <1>1 DEF OnPath, Top
<1>6. ASSUME NEW j \in i..L PROVE frames[j].node \in Chain(n) \cup {n}
  <2>1. j \in 1..L /\ (j = i \/ i < j)
    BY <1>1
  <2> QED BY <2>1 DEF Upward
<1>7. ASSUME NEW j \in i..L PROVE n \in Chain(frames[j].node)
  <2>1. j \in 1..L /\ (j = L \/ j < L)
    BY <1>1
  <2>2. n \in Chain(frames[L].node)
    BY <1>5, ChainIsClosed
  <2>3. CASE j = L
    BY <2>2, <2>3
  <2>4. CASE j < L
    <3>1. frames[L].node \in Chain(frames[j].node)
      BY <2>1, <2>4, <1>1 DEF Upward
    <3> QED BY <3>1, <2>2, ChainGoesOn
  <2> QED BY <2>1, <2>3, <2>4
<1> HIDE DEF c, n, L
<1>8. \A a \in 1..Len(c) : i + a - 1 \in i..L /\ c[a] = frames[i + a - 1].node
  BY <1>3, <1>4
<1>9. ASSUME NEW a \in 1..Len(c), NEW b \in 1..Len(c) PROVE c[a] \in Chain(c[b])
  <2>1. n \in Chain(c[b])
    BY <1>7, <1>8
  <2>2. c[a] \in Chain(n) \cup {n}
    BY <1>6, <1>8
  <2>3. Chain(n) \subseteq Chain(c[b])
    BY <2>1, ChainGoesOn
  <2> QED BY <2>1, <2>2, <2>3
<1>10. 1 \in 1..Len(c) /\ c[1] = n
  <2>1. 1 \in 1..Len(c)
    BY <1>4
  <2>2. i + 1 - 1 = i
    BY <1>1
  <2> QED BY <2>1, <2>2, <1>8 DEF n
<1> QED BY <1>9, <1>10 DEF c, n

(* What passes for reported, by the names, is: a module that is named as    *)
(* often in both cycles is in both.                                         *)
LEMMA ReportedCovers ==
    ASSUME Distinct, cycles \in Seq(Seq(Source)), Knots(cycles),
           NEW c \in Seq(Source), 1 \in 1..Len(c), Reported(c)
    PROVE  Covered(c[1], cycles)
<1> DEFINE n == c[1]
           In(d) == {j \in 1..Len(d) : name[d[j]] = name[n]}
<1>1. n \in Source
  BY ElementOfSeq
<1>2. PICK k \in 1..Len(cycles) : Canonical(cycles[k]) = Canonical(c)
  BY DEF Reported
<1> DEFINE d == cycles[k]
<1>3. d \in Seq(Source)
  BY ElementOfSeq
<1>4. Cardinality(In(d)) = Cardinality(In(c))
  <2>1. Canonical(d)[n] = Cardinality(In(d)) /\ Canonical(c)[n] = Cardinality(In(c))
    BY <1>1 DEF Canonical
  <2> QED BY <2>1, <1>2
<1>5. Cardinality(In(c)) # 0
  <2>1. Len(c) \in Nat
    BY LenProperties
  <2>2. IsFiniteSet(1..Len(c))
    BY <2>1, FS_Interval
  <2>3. IsFiniteSet(In(c))
    BY <2>2, FS_Subset
  <2>4. 1 \in In(c)
    OBVIOUS
  <2> QED BY <2>3, <2>4, FS_EmptySet
<1>6. In(d) # {}
  BY <1>4, <1>5, FS_EmptySet
<1>7. PICK j \in 1..Len(d) : name[d[j]] = name[n]
  BY <1>6
<1>8. d[j] = n
  <2>1. d[j] \in Source
    BY <1>3, ElementOfSeq
  <2> QED BY <2>1, <1>1, <1>7 DEF Distinct
<1>9. 1 \in 1..Len(d)
  <2>1. Len(d) \in Nat
    BY <1>3, LenProperties
  <2> QED BY <2>1, <1>7
<1>10. Mutual(d[1], n)
  BY <1>8, <1>9 DEF Mutual, Knots
<1> QED BY <1>10 DEF Covered

-----------------------------------------------------------------------------
LEMMA KnotInit == CyclesInit => KnotIInv
<1> SUFFICES ASSUME CyclesInit PROVE KnotIInv
  OBVIOUS
<1>1. CyclesIInv
  BY SearchBegins
<1>2. frames = <<>> /\ cycles = <<>> /\ entered = {} /\ search = "idle"
  BY DEF CyclesInit
<1>3. Len(<<>>) = 0 /\ 1..0 = {}
  BY EmptySeq
<1>4. SearchKeeps(<<>>, {}, {}, <<>>)
  BY <1>3 DEF SearchKeeps, Upward, Knots, Looks, Backs, Told
<1>5. entered \ Stacked(frames) = {}
  BY <1>2
<1> QED BY <1>1, <1>2, <1>4, <1>5 DEF KnotIInv

LEMMA SameKnots ==
    ASSUME imports' = imports, name' = name,
           SearchKeeps(frames', entered' \ Stacked(frames'), entered', cycles')
    PROVE  SearchKeeps(frames, entered \ Stacked(frames), entered, cycles)'
<1>1. /\ Upward(frames') /\ Knots(cycles')
      /\ Looks(frames', entered' \ Stacked(frames'), entered')
      /\ Distinct => /\ Backs(frames', entered' \ Stacked(frames'), cycles')
                     /\ Told(frames', entered' \ Stacked(frames'), cycles')
  BY DEF SearchKeeps
<1>2. Upward(frames)'
  BY <1>1 DEF Upward, Chain, Imported
<1>3. Knots(cycles)'
  BY <1>1 DEF Knots, Chain, Imported
<1>4. Looks(frames, entered \ Stacked(frames), entered)'
  BY <1>1 DEF Looks, Imported, Stacked
<1>5. Distinct' => Distinct
  BY DEF Distinct
<1>c. ASSUME NEW m, Covered(m, cycles') PROVE Covered(m, cycles)'
  BY <1>c DEF Covered, Mutual, Chain, Imported
<1>6. ASSUME Backs(frames', entered' \ Stacked(frames'), cycles')
      PROVE  Backs(frames, entered \ Stacked(frames), cycles)'
  <2>1. \A m \in entered' \ Stacked(frames)' :
          \A n \in Imported(m)' \cap Stacked(frames)' : Covered(n, cycles)'
    <3> SUFFICES ASSUME NEW m \in entered' \ Stacked(frames)',
                        NEW n \in Imported(m)' \cap Stacked(frames)'
                 PROVE  Covered(n, cycles)'
      OBVIOUS
    <3>1. Imported(m)' = Imported(m) /\ Stacked(frames)' = Stacked(frames')
      BY DEF Imported, Stacked
    <3>2. Covered(n, cycles')
      BY <1>6, <3>1 DEF Backs
    <3> QED BY <3>2, <1>c
  <2>2. ASSUME NEW i \in 1..Len(frames'), NEW j \in 1..Len(frames'), j <= i,
               NEW m, m = frames'[j].node,
               m \in {n \in Source : <<frames'[i].node, n>> \in imports'} \ frames'[i].left
        PROVE  Covered(m, cycles)'
    <3>1. Covered(m, cycles')
      BY <1>6, <2>2 DEF Backs, Imported
    <3> QED BY <3>1, <1>c
  <2> QED BY <2>1, <2>2 DEF Backs, Imported
<1>7. ASSUME Told(frames', entered' \ Stacked(frames'), cycles')
      PROVE  Told(frames, entered \ Stacked(frames), cycles)'
  <2>0. Stacked(frames)' = Stacked(frames')
    BY DEF Stacked
  <2>1. ASSUME NEW m, NEW n, Mutual(n, m) PROVE Mutual(n, m)'
    BY <2>1 DEF Mutual, Chain, Imported
  <2>2. ASSUME NEW m, m \in Chain(m)' PROVE m \in Chain(m)
    BY <2>2 DEF Chain, Imported
  <2>3. ASSUME NEW m \in entered' \ Stacked(frames)', m \in Chain(m)'
        PROVE  Covered(m, cycles)' \/ \E n \in Stacked(frames)' : Mutual(n, m)'
    <3>1. \/ Covered(m, cycles')
          \/ \E n \in Stacked(frames') : Mutual(n, m)
      BY <1>7, <2>0, <2>2, <2>3 DEF Told
    <3> QED BY <3>1, <2>0, <2>1, <1>c
  <2> QED BY <2>3 DEF Told
<1> QED
  BY <1>1, <1>2, <1>3, <1>4, <1>5, <1>6, <1>7 DEF SearchKeeps

LEMMA SeenGrows ==
    ASSUME NEW s, NEW done, NEW seen, NEW more, NEW cs,
           SearchKeeps(s, done, seen, cs), seen \subseteq more
    PROVE  SearchKeeps(s, done, more, cs)
BY DEF SearchKeeps, Looks

LEMMA KnotStart ==
    ASSUME KnotIInv, NEW m \in Source, Start(m)
    PROVE  SearchKeeps(frames', entered' \ Stacked(frames'), entered', cycles')
<1>1. /\ frames = <<>> /\ m \notin entered /\ entered' = entered \cup {m}
      /\ frames' = <<Frame(m)>> /\ cycles' = cycles
  BY DEF Start
<1>2. <<>> \in Seq(FrameSet) /\ Len(<<>>) = 0 /\ <<Frame(m)>> = Append(<<>>, Frame(m))
  BY EmptySeq
<1>3. Stacked(<<>>) = {} /\ 1..Len(<<>>) = {}
  BY <1>2 DEF Stacked
<1>4. SearchKeeps(<<>>, entered, entered, cycles)
  <2>1. entered \ Stacked(frames) = entered
    BY <1>1, <1>3
  <2> QED BY <2>1, <1>1 DEF KnotIInv
<1>5. \A x \in entered : m \notin Imported(x)
  BY <1>1, <1>4 DEF SearchKeeps, Looks
<1>6. /\ SearchKeeps(frames', entered, entered, cycles)
      /\ Stacked(frames') = Stacked(<<>>) \cup {m}
  <2> DEFINE none == <<>>
  <2>1. none \in Seq(FrameSet) /\ none = <<>>
    BY <1>2
  <2> HIDE DEF none
  <2>2. \A i \in 1..Len(none) : m \in Chain(none[i].node)
    BY <2>1, <1>3
  <2>3. SearchKeeps(none, entered, entered, cycles) /\ m \notin Stacked(none)
    BY <2>1, <1>3, <1>4
  <2>4. /\ SearchKeeps(Append(none, Frame(m)), entered, entered, cycles)
        /\ Stacked(Append(none, Frame(m))) = Stacked(none) \cup {m}
    BY <2>1, <2>2, <2>3, <1>5, PushKeeps
  <2>5. frames' = Append(none, Frame(m))
    BY <1>1, <1>2, <2>1
  <2> QED BY <2>1, <2>4, <2>5
<1>7. entered' \ Stacked(frames') = entered
  BY <1>1, <1>3, <1>6
<1> QED BY <1>1, <1>6, <1>7, SeenGrows

LEMMA KnotDescend ==
    ASSUME KnotIInv, NEW n \in Source, Descend(n)
    PROVE  SearchKeeps(frames', entered' \ Stacked(frames'), entered', cycles')
<1> DEFINE done == entered \ Stacked(frames)
           t == Looked(n)
<1>1. /\ frames # <<>> /\ n \in Top.left /\ n \notin entered
      /\ frames' = Append(t, Frame(n)) /\ entered' = entered \cup {n}
      /\ cycles' = cycles
  BY DEF Descend
<1>2. OnPath(frames, entered) /\ SearchKeeps(frames, done, entered, cycles)
  BY DEF KnotIInv, CyclesIInv
<1>3. Stacked(frames) \subseteq entered
  BY <1>2 DEF OnPath, Stacked
<1>4. /\ SearchKeeps(t, done, entered', cycles)
      /\ Stacked(t) = Stacked(frames)
  <2>1. n \in entered' /\ n \notin Stacked(frames) /\ entered \subseteq entered'
    BY <1>1, <1>3
  <2> HIDE DEF done, t
  <2> QED BY <2>1, <1>1, <1>2, LookKeeps DEF t
<1>5. /\ t \in Seq(FrameSet) /\ Len(t) = Len(frames)
      /\ \A i \in 1..Len(frames) : t[i].node = frames[i].node
  BY <1>1, <1>2, LookedIs
<1> HIDE DEF t
<1>6. \A m \in done : n \notin Imported(m)
  BY <1>1, <1>2 DEF SearchKeeps, Looks
<1>7. ASSUME NEW i \in 1..Len(t) PROVE n \in Chain(t[i].node)
  <2>1. Len(frames) \in Nat \ {0} /\ Len(frames) \in 1..Len(frames)
    BY <1>1, <1>2, EmptySeq DEF OnPath
  <2>2. n \in Imported(frames[Len(frames)].node)
    BY <2>1, <1>1, <1>2 DEF OnPath, Top
  <2>3. n \in Chain(frames[Len(frames)].node)
    BY <2>2, ChainIsClosed
  <2>4. CASE i = Len(frames)
    BY <2>1, <2>3, <2>4, <1>5
  <2>5. CASE i # Len(frames)
    <3>1. i \in 1..Len(frames) /\ i < Len(frames)
      BY <2>1, <2>5, <1>5
    <3>2. frames[Len(frames)].node \in Chain(frames[i].node)
      BY <3>1, <2>1, <1>2 DEF SearchKeeps, Upward
    <3> QED BY <3>1, <3>2, <2>3, <1>5, ChainGoesOn
  <2> QED BY <2>4, <2>5
<1>8. n \notin Stacked(t)
  BY <1>1, <1>3, <1>4
<1> HIDE DEF done
<1>9. /\ SearchKeeps(frames', done, entered', cycles)
      /\ Stacked(frames') = Stacked(t) \cup {n}
  BY <1>1, <1>4, <1>5, <1>6, <1>7, <1>8, PushKeeps
<1>10. entered' \ Stacked(frames') = done
  BY <1>1, <1>3, <1>4, <1>9 DEF done
<1> QED BY <1>1, <1>9, <1>10

LEMMA KnotClose ==
    ASSUME KnotIInv, NEW n \in Source, Close(n)
    PROVE  SearchKeeps(frames', entered' \ Stacked(frames'), entered', cycles')
<1> DEFINE done == entered \ Stacked(frames)
<1>1. /\ frames # <<>> /\ n \in Top.left
      /\ frames' = Looked(n) /\ entered' = entered
  BY DEF Close
<1>2. PICK i \in 1..Len(frames) :
         /\ frames[i].node = n
         /\ cycles' = IF Reported(CycleAt(i)) THEN cycles
                      ELSE Append(cycles, CycleAt(i))
  BY DEF Close
<1> DEFINE c == CycleAt(i)
<1>3. /\ OnPath(frames, entered) /\ SearchKeeps(frames, done, entered, cycles)
      /\ cycles \in Seq(Seq(Source))
  BY DEF KnotIInv, CyclesIInv, CyclesTypeOK
<1>4. Upward(frames) /\ Knots(cycles)
  BY <1>3 DEF SearchKeeps
<1>5. c \in Seq(Source)
  BY <1>1, <1>2, <1>3, BackEdgeCloses
<1>6. /\ \A a, b \in 1..Len(c) : c[a] \in Chain(c[b])
      /\ 1 \in 1..Len(c) /\ c[1] = n
  BY <1>1, <1>2, <1>3, <1>4, BackEdgeKnots
<1> HIDE DEF done, c
<1>7. SearchKeeps(frames, done, entered, cycles') /\ (Distinct => Covered(n, cycles'))
  <2>1. CASE Reported(c)
    <3>1. cycles' = cycles
      BY <2>1, <1>2 DEF c
    <3>2. Distinct => Covered(n, cycles)
      BY <2>1, <1>3, <1>4, <1>5, <1>6, ReportedCovers
    <3> QED BY <3>1, <3>2, <1>3
  <2>2. CASE ~Reported(c)
    <3>1. cycles' = Append(cycles, c)
      BY <2>2, <1>2 DEF c
    <3>2. /\ SearchKeeps(frames, done, entered, Append(cycles, c))
          /\ Covered(c[1], Append(cycles, c))
      BY <1>3, <1>5, <1>6, MoreKeeps
    <3> QED BY <3>1, <3>2, <1>6
  <2> QED BY <2>1, <2>2
<1>8. n \in entered
  BY <1>2, <1>3 DEF OnPath
<1>9. /\ SearchKeeps(Looked(n), done, entered, cycles')
      /\ Stacked(Looked(n)) = Stacked(frames)
  <2> DEFINE cs == cycles'
  <2>1. /\ SearchKeeps(frames, done, entered, cs)
        /\ Distinct /\ n \in Stacked(frames) => Covered(n, cs)
        /\ OnPath(frames, entered) /\ frames # <<>>
    BY <1>1, <1>3, <1>7
  <2> HIDE DEF cs
  <2>2. /\ SearchKeeps(Looked(n), done, entered, cs)
        /\ Stacked(Looked(n)) = Stacked(frames)
    BY <2>1, <1>8, LookKeeps
  <2> QED BY <2>2 DEF cs
<1> QED BY <1>1, <1>9 DEF done

LEMMA KnotSkip ==
    ASSUME KnotIInv, NEW n \in Source, Skip(n)
    PROVE  SearchKeeps(frames', entered' \ Stacked(frames'), entered', cycles')
<1> DEFINE done == entered \ Stacked(frames)
<1>1. /\ frames # <<>> /\ n \in entered /\ frames' = Looked(n)
      /\ entered' = entered /\ cycles' = cycles
      /\ \A i \in 1..Len(frames) : frames[i].node # n
  BY DEF Skip
<1>2. n \notin Stacked(frames)
  BY <1>1 DEF Stacked
<1>3. OnPath(frames, entered) /\ SearchKeeps(frames, done, entered, cycles)
  BY DEF KnotIInv, CyclesIInv
<1> HIDE DEF done
<1>4. /\ SearchKeeps(Looked(n), done, entered, cycles)
      /\ Stacked(Looked(n)) = Stacked(frames)
  BY <1>1, <1>2, <1>3, LookKeeps
<1> QED BY <1>1, <1>4 DEF done

LEMMA KnotStep == KnotIInv /\ [CyclesNext]_cycleVars => KnotIInv'
<1> SUFFICES ASSUME KnotIInv, [CyclesNext]_cycleVars PROVE KnotIInv'
  OBVIOUS
<1>1. CyclesIInv'
  BY SearchGoesOn DEF KnotIInv
<1>k. /\ search = "idle" => entered = {}
      /\ SearchKeeps(frames, entered \ Stacked(frames), entered, cycles)
      /\ search = "done" /\ Len(cycles) < CycleLimit
           => frames = <<>> /\ Importers \subseteq entered
      /\ CyclesIInv
  BY DEF KnotIInv
<1> DEFINE Ended == search = "done" /\ Len(cycles) < CycleLimit
                      => frames = <<>> /\ Importers \subseteq entered
           Kept == SearchKeeps(frames', entered' \ Stacked(frames'), entered', cycles')
<1>2. ASSUME search' = "on", imports' = imports, name' = name, Kept PROVE KnotIInv'
  <2>1. SearchKeeps(frames, entered \ Stacked(frames), entered, cycles)'
    BY <1>2, SameKnots
  <2> QED BY <2>1, <1>1, <1>2 DEF KnotIInv
<1>3. CASE DetectCycles
  <2>1. /\ frames' = <<>> /\ cycles' = <<>> /\ entered' = {} /\ search' = "on"
    BY <1>3, <1>k DEF DetectCycles, CyclesIInv
  <2>2. Len(<<>>) = 0 /\ 1..0 = {}
    BY EmptySeq
  <2>3. SearchKeeps(frames, entered \ Stacked(frames), entered, cycles)'
    BY <2>1, <2>2 DEF SearchKeeps, Upward, Knots, Looks, Backs, Told
  <2> QED BY <2>1, <2>3, <1>1 DEF KnotIInv
<1>4. ASSUME NEW m \in Source, Start(m) PROVE KnotIInv'
  BY <1>2, <1>4, KnotStart DEF Start
<1>5. ASSUME NEW n \in Source, Descend(n) PROVE KnotIInv'
  BY <1>2, <1>5, KnotDescend DEF Descend
<1>6. ASSUME NEW n \in Source, Close(n) PROVE KnotIInv'
  <2>1. imports' = imports /\ name' = name
        /\ search' = IF Len(cycles') >= CycleLimit THEN "done" ELSE "on"
    BY <1>6 DEF Close
  <2>2. SearchKeeps(frames, entered \ Stacked(frames), entered, cycles)'
    BY <2>1, <1>6, KnotClose, SameKnots
  <2>3. Len(cycles') \in Nat
    BY <1>1, LenProperties DEF CyclesIInv, CyclesTypeOK
  <2>4. Ended'
    BY <2>1, <2>3, CycleAssumption
  <2>5. search' # "idle"
    BY <2>1
  <2> QED BY <2>2, <2>4, <2>5, <1>1 DEF KnotIInv
<1>7. ASSUME NEW n \in Source, Skip(n) PROVE KnotIInv'
  BY <1>2, <1>7, KnotSkip DEF Skip
<1>8. CASE Return
  <2>1. /\ frames # <<>> /\ Top.left = {} /\ frames' = Below /\ search' = "on"
        /\ UNCHANGED <<imports, name, entered, cycles>>
    BY <1>8 DEF Return
  <2>2. OnPath(frames, entered)
    BY <1>k DEF CyclesIInv
  <2>3. Kept
    BY <2>1, <2>2, <1>k, PopKeeps
  <2> QED BY <2>1, <2>3, <1>2
<1>9. CASE EndSearch
  <2>1. /\ frames = <<>> /\ Importers \subseteq entered /\ search' = "done"
        /\ UNCHANGED <<imports, name, frames, entered, cycles>>
    BY <1>9 DEF EndSearch
  <2>2. SearchKeeps(frames, entered \ Stacked(frames), entered, cycles)'
    BY <2>1, <1>k, SameKnots
  <2>3. Ended'
    BY <2>1 DEF Importers
  <2> QED BY <2>1, <2>2, <2>3, <1>1 DEF KnotIInv
<1>10. CASE UNCHANGED cycleVars
  <2>1. UNCHANGED <<imports, name, search, frames, entered, cycles>>
    BY <1>10 DEF cycleVars
  <2>2. SearchKeeps(frames, entered \ Stacked(frames), entered, cycles)'
    BY <2>1, <1>k, SameKnots
  <2>3. Ended'
    BY <2>1, <1>k DEF Importers
  <2> QED BY <2>1, <2>2, <2>3, <1>1, <1>k DEF KnotIInv
<1> QED
  BY <1>3, <1>4, <1>5, <1>6, <1>7, <1>8, <1>9, <1>10 DEF CyclesNext

LEMMA KnotsAreTold == KnotIInv => NoKnotMissed
<1> SUFFICES ASSUME KnotIInv, search = "done", Len(cycles) < CycleLimit, Distinct,
                    NEW m \in Source, m \in Chain(m)
             PROVE  \E k \in 1..Len(cycles) :
                       cycles[k][1] \in Chain(m) /\ m \in Chain(cycles[k][1])
  BY DEF NoKnotMissed, Distinct
<1>1. frames = <<>> /\ Importers \subseteq entered
  BY DEF KnotIInv
<1>2. Stacked(frames) = {}
  <2>1. 1..Len(<<>>) = {}
    BY EmptySeq
  <2> QED BY <2>1, <1>1 DEF Stacked
<1>3. m \in entered
  <2>1. PICK n : n \in Imported(m)
    BY ChainNeedsImport
  <2>2. <<m, n>> \in imports /\ <<m, n>>[1] = m
    BY <2>1 DEF Imported
  <2>3. m \in Importers
    BY <2>2 DEF Importers
  <2> QED BY <2>3, <1>1
<1>4. Told(frames, entered \ Stacked(frames), cycles)
  BY DEF KnotIInv, SearchKeeps
<1>5. Covered(m, cycles)
  BY <1>2, <1>3, <1>4 DEF Told
<1> QED BY <1>5 DEF Covered, Mutual

(* A search that ends below its limit has reported a cycle within every knot *)
(* of imports, whatever the order in which it looked at them                 *)
(* (detectImportCycles).                                                     *)
THEOREM EveryKnotReported == CyclesSpec => []NoKnotMissed
<1>1. CyclesSpec => []KnotIInv
  BY KnotInit, KnotStep, PTL DEF CyclesSpec
<1> QED BY <1>1, KnotsAreTold, PTL
=============================================================================
