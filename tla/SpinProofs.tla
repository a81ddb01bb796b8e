----------------------------- MODULE SpinProofs -----------------------------
(***************************************************************************)
(* Proofs about Spinlock, for any number of CPUs and threads.              *)
(*                                                                         *)
(* What a context has left to do is a sequence of steps.  The invariant    *)
(* says, of every such sequence, that it can be annotated: before each     *)
(* step stands what the step may rely on (how deep push_off() is nested,   *)
(* which locks the CPU has, whether interrupts will be on again), the      *)
(* first annotation is what the CPU that executes the context is really    *)
(* in, and the last one is what a system call must end in.                 *)
(***************************************************************************)
EXTENDS Spinlock, TLAPS

---------------------------------------------------------------------------
(* Annotations.                                                            *)

\* What a context finds on its CPU: noff, the locks taken, those of them that
\* record the CPU, and the values that intena, or the interrupt bit when noff
\* is 0, may have.
shape(n, h, w, i) == [n |-> n, h |-> h, w |-> w, i |-> i]

Shape ==
  {s \in [n : 0..3, h : SUBSET Lock, w : SUBSET Lock, i : SUBSET {0, 1}] :
     s.w \subseteq s.h /\ (s.n = 0 => s.h = {})}

\* Outside of all locks with interrupts on, off, or either; a CPU handed over
\* with p->lock of t held, as swtch() does in both directions.
On == shape(0, {}, {}, {1})
Off == shape(0, {}, {}, {0})
Either == shape(0, {}, {}, {0, 1})
Handed(t) == shape(1, {t}, {t}, {0, 1})

OpName == {"intr_get", "count", "swap", "setcpu", "clearcpu", "unlock", "pop_off", "sched", "resume", "swtch",
           "wakeup", "intr_on", "intr_off", "sret"}
Step == [op : OpName, arg : Lock \cup {None, 0, 1} \cup SUBSET Threads]

\* What a step needs and what it leaves.
Does(x, o, s, t) ==
  \/ o.op = "intr_get" /\ t = shape(s.n + 1, s.h, s.w, s.i)
  \/ o.op = "count" /\ o.arg = 1 /\ s.n = 0 /\ 1 \in s.i /\ t = shape(1, s.h, s.w, s.i)
  \/ o.op = "swap" /\ o.arg \in Lock \ s.h /\ t = shape(s.n, s.h \cup {o.arg}, s.w, s.i)
  \/ o.op = "setcpu" /\ o.arg \in s.h \ s.w /\ t = shape(s.n, s.h, s.w \cup {o.arg}, s.i)
  \/ o.op = "clearcpu" /\ o.arg \in s.w /\ t = shape(s.n, s.h, s.w \ {o.arg}, s.i)
  \/ o.op = "unlock" /\ o.arg \in s.h \ s.w /\ t = shape(s.n, s.h \ {o.arg}, s.w, s.i)
  \/ o.op = "pop_off" /\ s.n > 0 /\ t = shape(s.n - 1, s.h, s.w, s.i)
  \/ o.op = "sched" /\ o.arg = x /\ x \in Threads /\ s = shape(1, {x}, {x}, s.i) /\ t = s
  \/ o.op = "resume" /\ o.arg \in t.i /\ s = shape(1, {x}, {x}, s.i) /\ t = shape(1, {x}, {x}, t.i)
  \/ o.op = "swtch" /\ x \in CPU /\ o.arg \in Threads
       /\ s = shape(1, {o.arg}, {o.arg}, s.i) /\ t = Handed(o.arg)
  \/ o.op = "wakeup" /\ o.arg \in SUBSET Threads /\ s.n \in 1..2 /\ s.h \cap o.arg = {} /\ t = s
  \/ o.op = "intr_on" /\ s.n = 0 /\ t = On
  \/ o.op = "intr_off" /\ s.n = 0 /\ t = Off
  \/ o.op = "sret" /\ s.n = 0 /\ 1 \in t.i /\ t = shape(0, {}, {}, t.i)

\* The steps q of context x lead from s to e.
Leads(x, q, s, e) ==
  /\ q \in Seq(Step)
  /\ \E f \in [1..(Len(q) + 1) -> Shape] :
       /\ f[1] = s /\ f[Len(q) + 1] = e
       /\ \A k \in 1..Len(q) : Does(x, q[k], f[k], f[k + 1])

\* No step leads nowhere.
LEMMA LeadsNowhere == ASSUME NEW x, NEW s \in Shape PROVE Leads(x, <<>>, s, s)
<1> DEFINE f == [k \in 1..1 |-> s]
<1>1. f \in [1..(Len(<<>>) + 1) -> Shape] /\ f[1] = s /\ f[Len(<<>>) + 1] = s
  OBVIOUS
<1>2. <<>> \in Seq(Step) /\ 1..Len(<<>>) = {}
  OBVIOUS
<1> HIDE DEF f
<1>3. QED
  BY <1>1, <1>2, Zenon DEF Leads

\* A single step.
LEMMA LeadsOne ==
  ASSUME NEW x, NEW o \in Step, NEW s \in Shape, NEW t \in Shape, Does(x, o, s, t)
  PROVE  Leads(x, <<o>>, s, t)
<1> DEFINE f == [k \in 1..2 |-> IF k = 1 THEN s ELSE t]
<1>1. <<o>> \in Seq(Step) /\ Len(<<o>>) = 1 /\ <<o>>[1] = o /\ 1 + 1 = 2 /\ 1..1 = {1}
  OBVIOUS
<1>2. f \in [1..2 -> Shape] /\ f[1] = s /\ f[2] = t
  OBVIOUS
<1> HIDE DEF f
<1>3. \A k \in {1} : Does(x, <<o>>[k], f[k], f[k + 1])
  BY <1>1, <1>2, Zenon
<1>4. QED
  BY <1>1, <1>2, <1>3, Zenon DEF Leads

\* The first step and the others.
LEMMA LeadsFirst ==
  ASSUME NEW x, NEW q, NEW s, NEW e, Leads(x, q, s, e), q # <<>>
  PROVE  /\ s \in Shape /\ q \in Seq(Step) /\ Head(q) \in Step
         /\ \E m \in Shape : Does(x, Head(q), s, m) /\ Leads(x, Tail(q), m, e)
<1>1. q \in Seq(Step)
  BY Zenon DEF Leads
<1>2. PICK f \in [1..(Len(q) + 1) -> Shape] :
        /\ f[1] = s /\ f[Len(q) + 1] = e
        /\ \A k \in 1..Len(q) : Does(x, q[k], f[k], f[k + 1])
  BY Zenon DEF Leads
<1> DEFINE L == Len(q)
           g == [k \in 1..L |-> f[k + 1]]
<1>3. /\ L \in Nat /\ L > 0 /\ Head(q) = q[1] /\ Head(q) \in Step
      /\ Tail(q) \in Seq(Step) /\ Len(Tail(q)) = L - 1 /\ \A k \in 1..(L - 1) : Tail(q)[k] = q[k + 1]
  BY <1>1
<1> HIDE DEF L
<1>4. /\ 1 \in 1..L /\ 1 \in 1..(L + 1) /\ 2 \in 1..(L + 1) /\ 1 + 1 = 2 /\ (L - 1) + 1 = L /\ L \in 1..L
      /\ \A k \in 1..(L - 1) : k \in 1..L /\ k + 1 \in 1..L
      /\ \A k \in 1..L : k + 1 \in 1..(L + 1)
  BY <1>3
<1>5. s \in Shape /\ f[2] \in Shape /\ Does(x, Head(q), s, f[2])
  BY <1>2, <1>3, <1>4, Zenon DEF L
<1>6. g \in [1..((L - 1) + 1) -> Shape] /\ g[1] = f[2] /\ g[(L - 1) + 1] = e
  BY <1>2, <1>4, Zenon DEF L
<1>7. ASSUME NEW k \in 1..(L - 1) PROVE Does(x, Tail(q)[k], g[k], g[k + 1])
  <2>1. Does(x, q[k + 1], f[k + 1], f[(k + 1) + 1])
    BY <1>2, <1>4, Zenon DEF L
  <2>2. g[k] = f[k + 1] /\ g[k + 1] = f[(k + 1) + 1] /\ Tail(q)[k] = q[k + 1]
    BY <1>3, <1>4, Zenon
  <2>3. QED
    BY <2>1, <2>2, Zenon
<1> HIDE DEF g
<1>8. Leads(x, Tail(q), f[2], e)
  BY <1>3, <1>6, <1>7, Zenon DEF Leads
<1>9. QED
  BY <1>1, <1>3, <1>5, <1>8, Zenon

\* One function after another.
LEMMA LeadsOn ==
  ASSUME NEW x, NEW p, NEW q, NEW s, NEW m, NEW e, Leads(x, p, s, m), Leads(x, q, m, e)
  PROVE  Leads(x, p \o q, s, e)
<1>1. p \in Seq(Step) /\ q \in Seq(Step)
  BY Zenon DEF Leads
<1>2. PICK f \in [1..(Len(p) + 1) -> Shape] :
        /\ f[1] = s /\ f[Len(p) + 1] = m
        /\ \A k \in 1..Len(p) : Does(x, p[k], f[k], f[k + 1])
  BY Zenon DEF Leads
<1>3. PICK g \in [1..(Len(q) + 1) -> Shape] :
        /\ g[1] = m /\ g[Len(q) + 1] = e
        /\ \A k \in 1..Len(q) : Does(x, q[k], g[k], g[k + 1])
  BY Zenon DEF Leads
<1> DEFINE A == Len(p)
           B == Len(q)
           h == [k \in 1..(A + B + 1) |-> IF k <= A THEN f[k] ELSE g[k - A]]
<1>4. /\ A \in Nat /\ B \in Nat /\ p \o q \in Seq(Step) /\ Len(p \o q) = A + B
      /\ \A k \in 1..A : (p \o q)[k] = p[k]
  BY <1>1
<1>5. \A k \in (A + 1)..(A + B) : (p \o q)[k] = q[k - A]
  BY <1>1
<1> HIDE DEF A, B
<1>6. h \in [1..(A + B + 1) -> Shape]
  <2>1. \A k \in 1..(A + B + 1) : (k <= A => k \in 1..(A + 1)) /\ (~ (k <= A) => k - A \in 1..(B + 1))
    BY <1>4
  <2>2. QED
    BY <1>2, <1>3, <2>1, Zenon DEF A, B
<1>7. h[1] = s /\ h[A + B + 1] = e
  <2>1. /\ 1 \in 1..(A + B + 1) /\ A + B + 1 \in 1..(A + B + 1) /\ ~ (A + B + 1 <= A)
        /\ (A + B + 1) - A = B + 1 /\ (~ (1 <= A) => A + 1 = 1 /\ 1 - A = 1)
    BY <1>4
  <2>2. QED
    BY <1>2, <1>3, <2>1, Zenon DEF A, B
<1>8. ASSUME NEW k \in 1..(A + B) PROVE Does(x, (p \o q)[k], h[k], h[k + 1])
  <2>1. k \in 1..(A + B + 1) /\ k + 1 \in 1..(A + B + 1)
    BY <1>4
  <2>2. h[k] = (IF k <= A THEN f[k] ELSE g[k - A]) /\ h[k + 1] = (IF k + 1 <= A THEN f[k + 1] ELSE g[(k + 1) - A])
    BY <2>1, Zenon
  <2> HIDE DEF h
  <2>3. CASE k <= A
    <3>1. k \in 1..A /\ (~ (k + 1 <= A) => k + 1 = A + 1 /\ (k + 1) - A = 1)
      BY <1>4, <2>3
    <3>2. h[k + 1] = f[k + 1]
      BY <1>2, <1>3, <2>2, <3>1, Zenon DEF A
    <3>3. QED
      BY <1>2, <1>4, <2>2, <2>3, <3>1, <3>2, Zenon DEF A
  <2>4. CASE ~ (k <= A)
    <3>1. k \in (A + 1)..(A + B) /\ k - A \in 1..B /\ (k + 1) - A = (k - A) + 1 /\ ~ (k + 1 <= A)
      BY <1>4, <2>4
    <3>2. QED
      BY <1>3, <1>5, <2>2, <2>4, <3>1, Zenon DEF B
  <2>5. QED
    BY <2>3, <2>4, Zenon
<1> HIDE DEF h
<1>9. QED
  BY <1>4, <1>6, <1>7, <1>8, Zenon DEF Leads

---------------------------------------------------------------------------
(* The functions, as steps that lead from one shape to another.            *)

\* The parts of a shape.
LEMMA ShapeParts ==
  ASSUME NEW n, NEW h, NEW w, NEW i
  PROVE  /\ shape(n, h, w, i).n = n /\ shape(n, h, w, i).h = h /\ shape(n, h, w, i).w = w /\ shape(n, h, w, i).i = i
         /\ n \in 0..3 /\ h \in SUBSET Lock /\ w \in SUBSET h /\ i \in SUBSET {0, 1} /\ (n = 0 => h = {})
              => shape(n, h, w, i) \in Shape
  BY DEF shape, Shape

\* A shape and its parts.
LEMMA ShapeIs ==
  ASSUME NEW s \in Shape
  PROVE  /\ s = shape(s.n, s.h, s.w, s.i)
         /\ s.n \in 0..3 /\ s.h \in SUBSET Lock /\ s.w \in SUBSET s.h /\ s.i \in SUBSET {0, 1}
         /\ (s.n = 0 => s.h = {} /\ s.w = {})
  BY DEF shape, Shape

\* Reading the parts of a shape that is given.
LEMMA PartsOf ==
  ASSUME NEW n, NEW h, NEW w, NEW i, NEW s, s = shape(n, h, w, i)
  PROVE  s.n = n /\ s.h = h /\ s.w = w /\ s.i = i
  BY DEF shape

\* One step of a function.
LEMMA LeadsOp ==
  ASSUME NEW x, NEW name \in OpName, NEW a \in Lock \cup {None, 0, 1} \cup SUBSET Threads,
         NEW s \in Shape, NEW t \in Shape, Does(x, [op |-> name, arg |-> a], s, t)
  PROVE  Leads(x, op(name, a), s, t)
<1>1. [op |-> name, arg |-> a] \in Step
  BY Zenon DEF Step
<1>2. QED
  BY <1>1, LeadsOne, Zenon DEF op

\* The fields of a step.
LEMMA OpParts == ASSUME NEW name, NEW a PROVE [op |-> name, arg |-> a].op = name /\ [op |-> name, arg |-> a].arg = a
  OBVIOUS

\* What the steps of acquire() and release() do.
LEMMA DoesLock ==
  ASSUME NEW x, NEW n, NEW h, NEW w, NEW i, NEW l
  PROVE  /\ Does(x, [op |-> "intr_get", arg |-> None], shape(n, h, w, i), shape(n + 1, h, w, i))
         /\ l \in Lock \ h => Does(x, [op |-> "swap", arg |-> l], shape(n, h, w, i), shape(n, h \cup {l}, w, i))
         /\ l \in h \ w => Does(x, [op |-> "setcpu", arg |-> l], shape(n, h, w, i), shape(n, h, w \cup {l}, i))
         /\ l \in w => Does(x, [op |-> "clearcpu", arg |-> l], shape(n, h, w, i), shape(n, h, w \ {l}, i))
         /\ l \in h \ w => Does(x, [op |-> "unlock", arg |-> l], shape(n, h, w, i), shape(n, h \ {l}, w, i))
         /\ n > 0 => Does(x, [op |-> "pop_off", arg |-> None], shape(n, h, w, i), shape(n - 1, h, w, i))
<1> DEFINE s == shape(n, h, w, i)
<1>1. s.n = n /\ s.h = h /\ s.w = w /\ s.i = i
  BY DEF shape
<1> HIDE DEF s
<1>2. Does(x, [op |-> "intr_get", arg |-> None], s, shape(n + 1, h, w, i))
  BY <1>1, OpParts, Zenon DEF Does
<1>3. l \in Lock \ h => Does(x, [op |-> "swap", arg |-> l], s, shape(n, h \cup {l}, w, i))
  BY <1>1, OpParts, Zenon DEF Does
<1>4. l \in h \ w => Does(x, [op |-> "setcpu", arg |-> l], s, shape(n, h, w \cup {l}, i))
  BY <1>1, OpParts, Zenon DEF Does
<1>5. l \in w => Does(x, [op |-> "clearcpu", arg |-> l], s, shape(n, h, w \ {l}, i))
  BY <1>1, OpParts, Zenon DEF Does
<1>6. l \in h \ w => Does(x, [op |-> "unlock", arg |-> l], s, shape(n, h \ {l}, w, i))
  BY <1>1, OpParts, Zenon DEF Does
<1>7. n > 0 => Does(x, [op |-> "pop_off", arg |-> None], s, shape(n - 1, h, w, i))
  BY <1>1, OpParts, Zenon DEF Does
<1>8. QED
  BY <1>2, <1>3, <1>4, <1>5, <1>6, <1>7, Zenon DEF s

\* acquire(): one level of push_off() and one lock more.
LEMMA LeadsAcquire ==
  ASSUME NEW x, NEW n \in 0..2, NEW h \in SUBSET Lock, NEW w \in SUBSET h, NEW i \in SUBSET {0, 1},
         n = 0 => h = {}, NEW l \in Lock \ h
  PROVE  Leads(x, acquire(l), shape(n, h, w, i), shape(n + 1, h \cup {l}, w \cup {l}, i))
<1> DEFINE s0 == shape(n, h, w, i)
           s1 == shape(n + 1, h, w, i)
           s2 == shape(n + 1, h \cup {l}, w, i)
           s3 == shape(n + 1, h \cup {l}, w \cup {l}, i)
<1>1. n \in 0..3 /\ n + 1 \in 0..3 /\ n + 1 # 0
  OBVIOUS
<1>2. /\ h \cup {l} \in SUBSET Lock /\ w \in SUBSET (h \cup {l}) /\ w \cup {l} \in SUBSET (h \cup {l})
      /\ l \in Lock \cup {None, 0, 1} \cup SUBSET Threads /\ None \in Lock \cup {None, 0, 1} \cup SUBSET Threads
      /\ l \notin w
  BY Zenon
<1>3. s0 \in Shape /\ s1 \in Shape /\ s2 \in Shape /\ s3 \in Shape
  BY <1>1, <1>2, ShapeParts, Zenon
<1>4. Does(x, [op |-> "intr_get", arg |-> None], s0, s1)
  BY DoesLock, Zenon
<1>5. Does(x, [op |-> "swap", arg |-> l], s1, s2)
  BY DoesLock, Zenon
<1>6. Does(x, [op |-> "setcpu", arg |-> l], s2, s3)
  BY <1>2, DoesLock, Zenon
<1> HIDE DEF s0, s1, s2, s3
<1>7. Leads(x, op("intr_get", None), s0, s1) /\ Leads(x, op("swap", l), s1, s2) /\ Leads(x, op("setcpu", l), s2, s3)
  <2>1. "intr_get" \in OpName /\ "swap" \in OpName /\ "setcpu" \in OpName
    BY Zenon DEF OpName
  <2>2. QED
    BY <1>2, <1>3, <1>4, <1>5, <1>6, <2>1, LeadsOp, Zenon
<1>8. QED
  BY <1>7, LeadsOn, Zenon DEF acquire, push_off, s0, s3

\* release(): the reverse.
LEMMA LeadsRelease ==
  ASSUME NEW x, NEW n \in 1..3, NEW h \in SUBSET Lock, NEW w \in SUBSET h, NEW i \in SUBSET {0, 1},
         NEW l \in w, n = 1 => h = {l}
  PROVE  Leads(x, release(l), shape(n, h, w, i), shape(n - 1, h \ {l}, w \ {l}, i))
<1> DEFINE s0 == shape(n, h, w, i)
           s1 == shape(n, h, w \ {l}, i)
           s2 == shape(n, h \ {l}, w \ {l}, i)
           s3 == shape(n - 1, h \ {l}, w \ {l}, i)
<1>1. n \in 0..3 /\ n - 1 \in 0..3 /\ n # 0 /\ n > 0 /\ (n - 1 = 0 => n = 1)
  OBVIOUS
<1>2. /\ h \ {l} \in SUBSET Lock /\ w \ {l} \in SUBSET h /\ w \ {l} \in SUBSET (h \ {l}) /\ (n = 1 => h \ {l} = {})
      /\ l \in Lock \cup {None, 0, 1} \cup SUBSET Threads /\ None \in Lock \cup {None, 0, 1} \cup SUBSET Threads
      /\ l \in h /\ l \notin w \ {l}
  BY Zenon
<1>3. s0 \in Shape /\ s1 \in Shape /\ s2 \in Shape /\ s3 \in Shape
  BY <1>1, <1>2, ShapeParts, Zenon
<1>4. Does(x, [op |-> "clearcpu", arg |-> l], s0, s1)
  BY DoesLock, Zenon
<1>5. Does(x, [op |-> "unlock", arg |-> l], s1, s2)
  BY <1>2, DoesLock, Zenon
<1>6. Does(x, [op |-> "pop_off", arg |-> None], s2, s3)
  BY <1>1, DoesLock, Zenon
<1> HIDE DEF s0, s1, s2, s3
<1>7. Leads(x, op("clearcpu", l), s0, s1) /\ Leads(x, op("unlock", l), s1, s2) /\ Leads(x, op("pop_off", None), s2, s3)
  <2>1. "clearcpu" \in OpName /\ "unlock" \in OpName /\ "pop_off" \in OpName
    BY Zenon DEF OpName
  <2>2. QED
    BY <1>2, <1>3, <1>4, <1>5, <1>6, <2>1, LeadsOp, Zenon
<1>8. QED
  BY <1>7, LeadsOn, Zenon DEF release, s0, s3

\* The four shapes between which the functions move; l and m are locks.
out(i) == shape(0, {}, {}, i)
with(l, i) == shape(1, {l}, {l}, i)
both(l, m, i) == shape(2, {l, m}, {l, m}, i)

\* Those shapes are shapes.
LEMMA ShapesIn ==
  ASSUME NEW i \in SUBSET {0, 1}, NEW l \in Lock, NEW m \in Lock
  PROVE  out(i) \in Shape /\ with(l, i) \in Shape /\ both(l, m, i) \in Shape
<1>1. 0 \in 0..3 /\ 1 \in 0..3 /\ 2 \in 0..3 /\ 1 # 0 /\ 2 # 0
  OBVIOUS
<1>2. {} \in SUBSET Lock /\ {} \in SUBSET {} /\ {l} \in SUBSET Lock /\ {l} \in SUBSET {l}
  BY Zenon
<1>3. {l, m} \in SUBSET Lock /\ {l, m} \in SUBSET {l, m}
  BY Zenon
<1>4. out(i) \in Shape
  BY <1>1, <1>2, ShapeParts, Zenon DEF out
<1>5. with(l, i) \in Shape
  BY <1>1, <1>2, ShapeParts, Zenon DEF with
<1>6. both(l, m, i) \in Shape
  BY <1>1, <1>3, ShapeParts, Zenon DEF both
<1>7. QED
  BY <1>4, <1>5, <1>6, Zenon

\* acquire() and release() of a first lock.
LEMMA LeadsTake ==
  ASSUME NEW x, NEW i \in SUBSET {0, 1}, NEW l \in Lock
  PROVE  Leads(x, acquire(l), out(i), with(l, i)) /\ Leads(x, release(l), with(l, i), out(i))
<1>1. 0 \in 0..2 /\ 1 \in 1..3 /\ 0 + 1 = 1 /\ 1 - 1 = 0
  OBVIOUS
<1>2. /\ {} \in SUBSET Lock /\ {} \in SUBSET {} /\ l \in Lock \ {} /\ {} \cup {l} = {l}
      /\ {l} \in SUBSET Lock /\ {l} \in SUBSET {l} /\ l \in {l} /\ {l} \ {l} = {}
  BY Zenon
<1>3. Leads(x, acquire(l), shape(0, {}, {}, i), shape(0 + 1, {} \cup {l}, {} \cup {l}, i))
  BY <1>1, <1>2, LeadsAcquire, Zenon
<1>4. Leads(x, release(l), shape(1, {l}, {l}, i), shape(1 - 1, {l} \ {l}, {l} \ {l}, i))
  BY <1>1, <1>2, LeadsRelease, Zenon
<1>5. QED
  BY <1>1, <1>2, <1>3, <1>4, Zenon DEF out, with

\* A second lock, and the two orders of giving both back.
LEMMA LeadsTakeSecond ==
  ASSUME NEW x, NEW i \in SUBSET {0, 1}, NEW l \in Lock, NEW m \in Lock, l # m
  PROVE  /\ Leads(x, acquire(m), with(l, i), both(l, m, i))
         /\ Leads(x, release(m), both(l, m, i), with(l, i))
         /\ Leads(x, release(l), both(l, m, i), with(m, i))
<1>1. 1 \in 0..2 /\ 2 \in 1..3 /\ 1 + 1 = 2 /\ 2 - 1 = 1 /\ 1 # 0 /\ 2 # 1
  OBVIOUS
<1>2. /\ {l} \in SUBSET Lock /\ {l} \in SUBSET {l} /\ m \in Lock \ {l} /\ {l} \cup {m} = {l, m}
  BY Zenon
<1>3. /\ {l, m} \in SUBSET Lock /\ {l, m} \in SUBSET {l, m} /\ m \in {l, m} /\ l \in {l, m}
      /\ {l, m} \ {m} = {l} /\ {l, m} \ {l} = {m}
  OBVIOUS
<1>4. Leads(x, acquire(m), shape(1, {l}, {l}, i), shape(1 + 1, {l} \cup {m}, {l} \cup {m}, i))
  BY <1>1, <1>2, LeadsAcquire, Zenon
<1>5. Leads(x, release(m), shape(2, {l, m}, {l, m}, i), shape(2 - 1, {l, m} \ {m}, {l, m} \ {m}, i))
  BY <1>1, <1>3, LeadsRelease, Zenon
<1>6. Leads(x, release(l), shape(2, {l, m}, {l, m}, i), shape(2 - 1, {l, m} \ {l}, {l, m} \ {l}, i))
  BY <1>1, <1>3, LeadsRelease, Zenon
<1>7. QED
  BY <1>1, <1>2, <1>3, <1>4, <1>5, <1>6, Zenon DEF with, both

\* What the other steps do.
LEMMA LeadsOthers ==
  ASSUME NEW x, NEW i \in SUBSET {0, 1}
  PROVE  /\ x \in Threads => Leads(x, op("sched", x), with(x, i), with(x, i))
         /\ \A t \in Threads : x \in CPU => Leads(x, op("swtch", t), with(t, i), Handed(t))
         /\ \A S \in SUBSET Threads : Leads(x, wakeup(S), with("tickslock", i), with("tickslock", i))
         /\ Leads(x, op("intr_on", None), out(i), On) /\ Leads(x, op("intr_off", None), out(i), Off)
         /\ \A j \in SUBSET {0, 1} : 1 \in j => Leads(x, op("sret", None), out(i), out(j))
<1> DEFINE Arg == Lock \cup {None, 0, 1} \cup SUBSET Threads
<1>1. /\ "tickslock" \in Lock /\ None \in Arg /\ \A t \in Threads : t \in Lock /\ t \in Arg
      /\ \A S \in SUBSET Threads : S \in Arg
  BY Zenon DEF Lock
<1>2. "sched" \in OpName /\ "swtch" \in OpName /\ "wakeup" \in OpName /\ "intr_on" \in OpName /\ "intr_off" \in OpName
      /\ "sret" \in OpName
  BY Zenon DEF OpName
<1> HIDE DEF Arg
<1>3. /\ {0, 1} \in SUBSET {0, 1} /\ {0} \in SUBSET {0, 1} /\ {1} \in SUBSET {0, 1} /\ 1 \in 1..2
  OBVIOUS
<1>4. \A j : /\ out(j).n = 0 /\ out(j).i = j
             /\ \A l : with(l, j).n = 1 /\ with(l, j).h = {l} /\ with(l, j).w = {l} /\ with(l, j).i = j
  BY DEF out, with, shape
<1>5. ASSUME x \in Threads PROVE Leads(x, op("sched", x), with(x, i), with(x, i))
  <2>1. Does(x, [op |-> "sched", arg |-> x], with(x, i), with(x, i))
    BY <1>4, <1>5, OpParts, Zenon DEF Does, with
  <2>2. QED
    BY <1>1, <1>2, <1>5, <2>1, LeadsOp, ShapesIn, Zenon DEF Arg
<1>6. ASSUME NEW t \in Threads, x \in CPU PROVE Leads(x, op("swtch", t), with(t, i), Handed(t))
  <2>1. Does(x, [op |-> "swtch", arg |-> t], with(t, i), Handed(t))
    BY <1>4, <1>6, OpParts, Zenon DEF Does, with
  <2>2. with(t, i) \in Shape /\ Handed(t) \in Shape
    BY <1>1, <1>3, ShapesIn, Zenon DEF Handed, with
  <2>3. QED
    BY <1>1, <1>2, <2>1, <2>2, LeadsOp, Zenon DEF Arg
<1>7. ASSUME NEW S \in SUBSET Threads PROVE Leads(x, wakeup(S), with("tickslock", i), with("tickslock", i))
  <2>1. {"tickslock"} \cap S = {}
    BY SpinAssumption, Zenon
  <2>2. Does(x, [op |-> "wakeup", arg |-> S], with("tickslock", i), with("tickslock", i))
    BY <1>3, <1>4, <2>1, OpParts, Zenon DEF Does
  <2>3. QED
    BY <1>1, <1>2, <2>2, LeadsOp, ShapesIn, Zenon DEF Arg, wakeup
<1>8. On \in Shape /\ Off \in Shape
  BY <1>1, <1>3, ShapesIn, Zenon DEF On, Off, out
<1>9. Leads(x, op("intr_on", None), out(i), On) /\ Leads(x, op("intr_off", None), out(i), Off)
  <2>1. Does(x, [op |-> "intr_on", arg |-> None], out(i), On)
    BY <1>4, OpParts, Zenon DEF Does
  <2>2. Does(x, [op |-> "intr_off", arg |-> None], out(i), Off)
    BY <1>4, OpParts, Zenon DEF Does
  <2>3. QED
    BY <1>1, <1>2, <1>8, <2>1, <2>2, LeadsOp, ShapesIn, Zenon DEF Arg
<1>10. ASSUME NEW j \in SUBSET {0, 1}, 1 \in j PROVE Leads(x, op("sret", None), out(i), out(j))
  <2>1. Does(x, [op |-> "sret", arg |-> None], out(i), out(j))
    BY <1>4, <1>10, OpParts, Zenon DEF Does, out
  <2>2. QED
    BY <1>1, <1>2, <2>1, LeadsOp, ShapesIn, Zenon DEF Arg
<1>11. QED
  BY <1>5, <1>6, <1>7, <1>9, <1>10, Zenon

\* yield() and clockintr() leave the CPU as they found it; killed() and sleep() of a
\* thread that holds tickslock do.
LEMMA LeadsCalls ==
  ASSUME NEW x, NEW i \in SUBSET {0, 1}
  PROVE  /\ x \in Threads => Leads(x, yield(x), out(i), out(i))
         /\ Leads(x, clockintr(x), out(i), out(i))
         /\ x \in Threads => /\ Leads(x, killed(x), with("tickslock", i), with("tickslock", i))
                             /\ Leads(x, sleep(x, "tickslock"), with("tickslock", i), with("tickslock", i))
<1>1. "tickslock" \in Lock /\ (x \in Threads => x \in Lock /\ x # "tickslock") /\ Threads \ {x} \in SUBSET Threads
  BY SpinAssumption, Zenon DEF Lock
<1>2. x \in Threads => Leads(x, yield(x), out(i), out(i))
  BY <1>1, LeadsTake, LeadsOthers, LeadsOn, Zenon DEF yield
<1>3. Leads(x, clockintr(x), out(i), out(i))
  BY <1>1, LeadsTake, LeadsOthers, LeadsOn, Zenon DEF clockintr
<1>4. x \in Threads => Leads(x, killed(x), with("tickslock", i), with("tickslock", i))
  BY <1>1, LeadsTakeSecond, LeadsOn, Zenon DEF killed
<1>5. ASSUME x \in Threads PROVE Leads(x, sleep(x, "tickslock"), with("tickslock", i), with("tickslock", i))
  <2>1. Leads(x, acquire(x) \o release("tickslock"), with("tickslock", i), with(x, i))
    BY <1>1, <1>5, LeadsTakeSecond, LeadsOn, Zenon
  <2>2. Leads(x, acquire(x) \o release("tickslock") \o op("sched", x), with("tickslock", i), with(x, i))
    BY <1>5, <2>1, LeadsOthers, LeadsOn, Zenon
  <2>3. Leads(x, acquire(x) \o release("tickslock") \o op("sched", x) \o release(x), with("tickslock", i), out(i))
    BY <1>1, <1>5, <2>2, LeadsTake, LeadsOn, Zenon
  <2>4. QED
    BY <1>1, <1>5, <2>3, LeadsTake, LeadsOn, Zenon DEF sleep
<1>6. QED
  BY <1>2, <1>3, <1>4, <1>5, Zenon

\* kerneltrap() starts with interrupts off and turns them on at its end.
LEMMA LeadsTrap ==
  ASSUME NEW c, NEW x, NEW j \in SUBSET {0, 1}, 1 \in j
  PROVE  Leads(x, kerneltrap(c, x), Off, out(j))
<1> DEFINE first == IF c = Cpu0 THEN clockintr(x) ELSE <<>>
           second == IF x \in Threads THEN yield(x) ELSE <<>>
<1>1. {0} \in SUBSET {0, 1} /\ "tickslock" \in Lock
  BY Zenon DEF Lock
<1>2. Off = out({0}) /\ Off \in Shape
  BY <1>1, ShapesIn, Zenon DEF Off, out
<1>3. Leads(x, first, Off, Off)
  BY <1>1, <1>2, LeadsCalls, LeadsNowhere, Zenon
<1>4. Leads(x, second, Off, Off)
  BY <1>1, <1>2, LeadsCalls, LeadsNowhere, Zenon
<1> HIDE DEF first, second
<1>5. Leads(x, first \o second, Off, Off)
  BY <1>3, <1>4, LeadsOn, Zenon
<1>6. Leads(x, op("sret", None), Off, out(j))
  BY <1>1, <1>2, LeadsOthers, Zenon
<1>7. QED
  BY <1>5, <1>6, LeadsOn, Zenon DEF kerneltrap, first, second

\* What a context ends its calls in: a thread with interrupts on, scheduler() with
\* whatever the thread left that ran last.
End(x) == IF x \in Threads THEN On ELSE Either

\* A thread's call and its first steps, and a round of scheduler().
LEMMA LeadsRounds ==
  ASSUME NEW t \in Threads, NEW c \in CPU
  PROVE  Leads(t, pause(t), On, On) /\ Leads(t, forkret(t), Handed(t), On) /\ Leads(c, round(t), Either, Either)
<1> DEFINE T == "tickslock"
<1>1. {0} \in SUBSET {0, 1} /\ {1} \in SUBSET {0, 1} /\ {0, 1} \in SUBSET {0, 1} /\ T \in Lock /\ t \in Lock
  BY Zenon DEF Lock
<1>2. On = out({1}) /\ Off = out({0}) /\ Either = out({0, 1}) /\ Handed(t) = with(t, {0, 1})
  BY Zenon DEF On, Off, Either, Handed, out, with
<1>3. Leads(t, pause(t), On, On)
  <2>1. Leads(t, acquire(T) \o killed(t), On, with(T, {1}))
    BY <1>1, <1>2, LeadsTake, LeadsCalls, LeadsOn, Zenon
  <2>2. Leads(t, acquire(T) \o killed(t) \o sleep(t, T), On, with(T, {1}))
    BY <1>1, <2>1, LeadsCalls, LeadsOn, Zenon
  <2>3. QED
    BY <1>1, <1>2, <2>2, LeadsTake, LeadsOn, Zenon DEF pause
<1>4. Leads(t, forkret(t), Handed(t), On)
  BY <1>1, <1>2, LeadsTake, LeadsOthers, LeadsOn, Zenon DEF forkret
<1>5. Leads(c, round(t), Either, Either)
  <2>1. Leads(c, op("intr_on", None) \o op("intr_off", None), Either, Off)
    BY <1>1, <1>2, LeadsOthers, LeadsOn, Zenon
  <2>2. Leads(c, op("intr_on", None) \o op("intr_off", None) \o acquire(t), Either, with(t, {0}))
    BY <1>1, <1>2, <2>1, LeadsTake, LeadsOn, Zenon
  <2>3. Leads(c, op("intr_on", None) \o op("intr_off", None) \o acquire(t) \o op("swtch", t), Either, Handed(t))
    BY <1>1, <2>2, LeadsOthers, LeadsOn, Zenon
  <2>4. QED
    BY <1>1, <1>2, <2>3, LeadsTake, LeadsOn, Zenon DEF round
<1>6. QED
  BY <1>3, <1>4, <1>5, Zenon

---------------------------------------------------------------------------
(* The invariant.                                                          *)

\* The annotation s is what CPU c is in.
Now(c, s) ==
  /\ s \in Shape
  /\ s.n = noff[c] /\ s.h = held[c] /\ s.w = {l \in Lock : owner[l] = c}
  /\ noff[c] = 0 => sie[c] \in s.i
  /\ noff[c] # 0 => intena[c] \in s.i

Types ==
  /\ locked \in [Lock -> {0, 1}]
  /\ owner \in [Lock -> CPU \cup {None}]
  /\ cur \in [CPU -> CPU \cup Threads] /\ \A c \in CPU : cur[c] \in Threads \cup {c}
  /\ sie \in [CPU -> {0, 1}] /\ intena \in [CPU -> {0, 1}]
  /\ noff \in [CPU -> Int]
  /\ todo \in [CPU \cup Threads -> Seq(Step)]
  /\ runnable \in [Threads -> BOOLEAN]
  /\ held \in [CPU -> SUBSET Lock]
  /\ panicked = FALSE

\* A lock is taken when one CPU has it, interrupts are off below push_off(), and a
\* lock records only a CPU that has it.
LocksOK ==
  /\ \A c, d \in CPU : c # d => held[c] \cap held[d] = {}
  /\ \A l \in Lock : locked[l] = 1 <=> \E c \in CPU : l \in held[c]
  /\ \A c \in CPU : sie[c] = 1 => noff[c] = 0

\* The context of each CPU goes on from where the CPU is.
Running == \A c \in CPU : \E s \in Shape : Now(c, s) /\ Leads(cur[c], todo[cur[c]], s, End(cur[c]))

\* The scheduler() of a CPU that executes a thread, and a thread no CPU executes,
\* go on from a CPU that is handed to them.
Parked == \A c \in CPU : cur[c] \in Threads => Leads(c, todo[c], Handed(cur[c]), End(c))
Waiting == \A t \in Threads : runnable[t] => Leads(t, todo[t], Handed(t), End(t))

\* A thread is executed by one CPU, and then it is not RUNNABLE.
OnePlace ==
  \A c \in CPU : cur[c] \in Threads => ~ runnable[cur[c]] /\ \A d \in CPU : d # c => cur[d] # cur[c]

SpinInv == Types /\ LocksOK /\ Running /\ Parked /\ Waiting /\ OnePlace

\* The invariant holds when the CPUs start.
LEMMA SpinInvInit == Init => SpinInv
<1> SUFFICES ASSUME Init PROVE SpinInv
  OBVIOUS
<1>1. {0, 1} \in SUBSET {0, 1} /\ 0 \in {0, 1} /\ "tickslock" \in Lock
  BY Zenon DEF Lock
<1>2. Either \in Shape /\ Either.n = 0 /\ Either.h = {} /\ Either.w = {} /\ Either.i = {0, 1}
  BY <1>1, ShapesIn, ShapeParts DEF Either, out, shape
<1>3. \A c \in CPU : c \notin Threads /\ c # None
  BY SpinAssumption, Zenon
<1>4. /\ \A c \in CPU : cur[c] = c /\ todo[c] = <<>> /\ sie[c] = 0 /\ noff[c] = 0 /\ held[c] = {}
      /\ \A l \in Lock : owner[l] = None /\ locked[l] = 0
      /\ \A t \in Threads : todo[t] = forkret(t)
  BY <1>3, Zenon DEF Init
<1>5. \A t \in Threads : Leads(t, forkret(t), Handed(t), On)
  BY SpinAssumption, LeadsRounds, Zenon
<1>6. Running
  <2> SUFFICES ASSUME NEW c \in CPU
               PROVE  \E s \in Shape : Now(c, s) /\ Leads(cur[c], todo[cur[c]], s, End(cur[c]))
    BY Zenon DEF Running
  <2>1. {l \in Lock : owner[l] = c} = {}
    BY <1>3, <1>4
  <2>2. Now(c, Either)
    BY <1>1, <1>2, <1>4, <2>1, Zenon DEF Now
  <2>3. Leads(c, <<>>, Either, Either) /\ End(c) = Either
    BY <1>2, <1>3, LeadsNowhere, Zenon DEF End
  <2>4. cur[c] = c /\ todo[c] = <<>>
    BY <1>4, Zenon
  <2>5. QED
    BY <1>2, <2>2, <2>3, <2>4
<1>7. Parked /\ OnePlace
  <2>1. \A c \in CPU : cur[c] \notin Threads
    BY <1>3, <1>4, Zenon
  <2>2. QED
    BY <2>1, Zenon DEF Parked, OnePlace
<1>8. Waiting
  BY <1>4, <1>5, Zenon DEF Waiting, End
<1>9. LocksOK
  <2>1. 0 # 1
    OBVIOUS
  <2>2. QED
    BY <1>4, <2>1, Zenon DEF LocksOK
<1>10. Types
  <2>1. <<>> \in Seq(Step) /\ \A t \in Threads : forkret(t) \in Seq(Step)
    <3>1. <<>> \in Seq(Step)
      OBVIOUS
    <3>2. QED
      BY <1>5, <3>1, Zenon DEF Leads
  <2>2. todo \in [CPU \cup Threads -> Seq(Step)]
    BY <2>1, Zenon DEF Init
  <2>3. /\ locked \in [Lock -> {0, 1}] /\ owner \in [Lock -> CPU \cup {None}]
        /\ sie \in [CPU -> {0, 1}] /\ intena \in [CPU -> {0, 1}] /\ noff \in [CPU -> Int]
    BY DEF Init
  <2>4. /\ cur \in [CPU -> CPU \cup Threads] /\ runnable \in [Threads -> BOOLEAN]
        /\ held \in [CPU -> SUBSET Lock] /\ panicked = FALSE
    BY Zenon DEF Init
  <2>5. QED
    BY <1>4, <2>2, <2>3, <2>4, Zenon DEF Types
<1>11. QED
  BY <1>6, <1>7, <1>8, <1>9, <1>10, Zenon DEF SpinInv

---------------------------------------------------------------------------
(* Steps.                                                                  *)

\* The other CPUs are not touched.
Others(c) ==
  \A d \in CPU :
    d # c => /\ noff'[d] = noff[d] /\ held'[d] = held[d] /\ sie'[d] = sie[d] /\ intena'[d] = intena[d]
             /\ \A l \in Lock : owner'[l] = d <=> owner[l] = d

Contexts == Running /\ Parked /\ Waiting /\ OnePlace

\* What another CPU is in stays what it is in.
LEMMA NowOther ==
  ASSUME NEW c \in CPU, Others(c), NEW d \in CPU, d # c, NEW s, Now(d, s)
  PROVE  Now(d, s)'
<1>1. {l \in Lock : owner'[l] = d} = {l \in Lock : owner[l] = d}
  BY Zenon DEF Others
<1>2. QED
  BY <1>1, Zenon DEF Now, Others

\* A step of the context x of CPU c that leads on from what it makes of the CPU.
LEMMA LocalStep ==
  ASSUME SpinInv, NEW c \in CPU, Others(c), cur' = cur, runnable' = runnable,
         NEW q, NEW m, todo' = [todo EXCEPT ![cur[c]] = q],
         Leads(cur[c], q, m, End(cur[c])), Now(c, m)'
  PROVE  Contexts' /\ todo' \in [CPU \cup Threads -> Seq(Step)]
<1>1. /\ \A d \in CPU : cur[d] \in Threads \cup {d} /\ d \notin Threads
      /\ todo \in [CPU \cup Threads -> Seq(Step)] /\ cur[c] \in CPU \cup Threads
  BY SpinAssumption, Zenon DEF SpinInv, Types
<1>2. /\ todo'[cur[c]] = q /\ todo' \in [CPU \cup Threads -> Seq(Step)]
      /\ \A x \in CPU \cup Threads : x # cur[c] => todo'[x] = todo[x]
  BY <1>1, Zenon DEF Leads
<1>3. \A d \in CPU : d # c => cur[d] # cur[c]
  BY <1>1, Zenon DEF SpinInv, OnePlace
<1>4. m \in Shape
  BY Zenon DEF Now
<1>5. Running'
  <2> SUFFICES ASSUME NEW d \in CPU
               PROVE  \E s \in Shape : Now(d, s)' /\ Leads(cur[d], todo'[cur[d]], s, End(cur[d]))
    BY Zenon DEF Running
  <2>1. CASE d = c
    BY <1>2, <1>4, <2>1, Zenon
  <2>2. CASE d # c
    <3>1. PICK s \in Shape : Now(d, s) /\ Leads(cur[d], todo[cur[d]], s, End(cur[d]))
      BY Zenon DEF SpinInv, Running
    <3>2. Now(d, s)'
      BY <2>2, <3>1, NowOther, Zenon
    <3>3. todo'[cur[d]] = todo[cur[d]]
      BY <1>1, <1>2, <1>3, <2>2, Zenon
    <3>4. QED
      BY <3>1, <3>2, <3>3, Zenon
  <2>3. QED
    BY <2>1, <2>2, Zenon
<1>6. Parked'
  <2> SUFFICES ASSUME NEW d \in CPU, cur[d] \in Threads PROVE Leads(d, todo'[d], Handed(cur[d]), End(d))
    BY Zenon DEF Parked
  <2>1. d # cur[c]
    BY <1>1, Zenon
  <2>2. QED
    BY <1>2, <2>1, Zenon DEF SpinInv, Parked
<1>7. Waiting'
  <2> SUFFICES ASSUME NEW t \in Threads, runnable[t] PROVE Leads(t, todo'[t], Handed(t), End(t))
    BY Zenon DEF Waiting
  <2>1. t # cur[c]
    BY Zenon DEF SpinInv, OnePlace
  <2>2. QED
    BY <1>2, <2>1, Zenon DEF SpinInv, Waiting
<1>8. OnePlace'
  BY Zenon DEF SpinInv, OnePlace
<1>9. QED
  BY <1>2, <1>5, <1>6, <1>7, <1>8, Zenon DEF Contexts

\* The next step of the context on CPU c, with its annotations.
LEMMA AtStep ==
  ASSUME SpinInv, NEW c \in CPU, NEW name, at(c, name)
  PROVE  \E o \in Step, s \in Shape, m \in Shape :
           /\ o = Head(todo[cur[c]]) /\ o.op = name /\ o.arg = arg(c)
           /\ Now(c, s) /\ Does(cur[c], o, s, m) /\ Leads(cur[c], Tail(todo[cur[c]]), m, End(cur[c]))
<1>1. todo[cur[c]] # <<>> /\ Head(todo[cur[c]]).op = name /\ Head(todo[cur[c]]).arg = arg(c)
  BY Zenon DEF at, arg, running
<1>2. PICK s \in Shape : Now(c, s) /\ Leads(cur[c], todo[cur[c]], s, End(cur[c]))
  BY Zenon DEF SpinInv, Running
<1>3. /\ Head(todo[cur[c]]) \in Step
      /\ \E m \in Shape : Does(cur[c], Head(todo[cur[c]]), s, m) /\ Leads(cur[c], Tail(todo[cur[c]]), m, End(cur[c]))
  BY <1>1, <1>2, LeadsFirst, Zenon
<1>4. QED
  BY <1>1, <1>2, <1>3, Zenon

\* What is needed of a CPU besides its contexts.
LEMMA Parts ==
  ASSUME SpinInv
  PROVE  /\ Types /\ LocksOK /\ Contexts
         /\ \A c \in CPU : /\ noff[c] \in 0..3 /\ held[c] \in SUBSET Lock
                           /\ sie[c] \in {0, 1} /\ intena[c] \in {0, 1} /\ (sie[c] = 1 => noff[c] = 0)
                           /\ (noff[c] = 0 => held[c] = {}) /\ \A l \in Lock : owner[l] = c => l \in held[c]
<1>1. Types /\ LocksOK /\ Contexts
  BY Zenon DEF SpinInv, Contexts
<1>2. ASSUME NEW c \in CPU
      PROVE  /\ noff[c] \in 0..3 /\ (noff[c] = 0 => held[c] = {}) /\ \A l \in Lock : owner[l] = c => l \in held[c]
  <2>1. PICK s \in Shape : Now(c, s)
    BY <1>1, Zenon DEF Contexts, Running
  <2>2. noff[c] \in 0..3 /\ (noff[c] = 0 => held[c] = {}) /\ {l \in Lock : owner[l] = c} \in SUBSET held[c]
    BY <2>1, ShapeIs, Zenon DEF Now
  <2>3. QED
    BY <2>2, Zenon
<1>3. \A c \in CPU : held[c] \in SUBSET Lock /\ sie[c] \in {0, 1} /\ intena[c] \in {0, 1} /\ (sie[c] = 1 => noff[c] = 0)
  BY <1>1, Zenon DEF Types, LocksOK
<1>4. QED
  BY <1>1, <1>2, <1>3, Zenon

\* A lock that is held by one CPU is neither held nor recorded by another.
LEMMA Exclusive ==
  ASSUME SpinInv, NEW c \in CPU, NEW d \in CPU, d # c, NEW l \in held[c]
  PROVE  l \in Lock /\ l \notin held[d] /\ owner[l] # d
<1>1. l \in Lock /\ l \notin held[d]
  BY Parts, Zenon DEF LocksOK
<1>2. owner[l] = d => l \in held[d]
  BY <1>1, Parts, ZenonT(30)
<1>3. QED
  BY <1>1, <1>2, Zenon

\* The parts of LocksOK that a step has to show.
LEMMA CalmStep ==
  ASSUME SpinInv, NEW c \in CPU, Others(c), sie'[c] = 1 => noff'[c] = 0
  PROVE  \A d \in CPU : sie'[d] = 1 => noff'[d] = 0
<1> SUFFICES ASSUME NEW d \in CPU, sie'[d] = 1 PROVE noff'[d] = 0
  OBVIOUS
<1>1. CASE d # c
  <2>1. sie'[d] = sie[d] /\ noff'[d] = noff[d]
    BY <1>1, Zenon DEF Others
  <2>2. sie[d] = 1 => noff[d] = 0
    BY Parts, Zenon
  <2>3. QED
    BY <2>1, <2>2, Zenon
<1>2. QED
  BY <1>1, Zenon

\* A step that touches neither the locks nor the interrupts.
LEMMA SameLocks ==
  ASSUME SpinInv, locked' = locked, held' = held, sie' = sie, noff' = noff
  PROVE  LocksOK'
<1>1. LocksOK
  BY Zenon DEF SpinInv
<1>2. QED
  BY <1>1, Zenon DEF LocksOK

\* A CPU without a lock and outside push_off().
LEMMA OutParts ==
  ASSUME NEW j, NEW s, s = shape(0, {}, {}, j)
  PROVE  s.i = j /\ s = shape(0, {}, {}, s.i)
  BY DEF shape

\* intr_get() with interrupts on.
LEMMA InvIntrGet == ASSUME SpinInv, NEW c \in CPU, IntrGet(c) PROVE SpinInv'
<1>1. PICK o \in Step, s \in Shape, m \in Shape :
        /\ o = Head(todo[cur[c]]) /\ o.op = "intr_get" /\ o.arg = arg(c)
        /\ Now(c, s) /\ Does(cur[c], o, s, m) /\ Leads(cur[c], Tail(todo[cur[c]]), m, End(cur[c]))
  BY AtStep, Zenon DEF IntrGet
<1>2. m = shape(s.n + 1, s.h, s.w, s.i)
  BY <1>1, Zenon DEF Does
<1>3. sie[c] = 1 /\ noff[c] = 0 /\ s.n = 0 /\ 1 \in s.i
  BY <1>1, Parts, Zenon DEF IntrGet, Now
<1>4. m = shape(1, s.h, s.w, s.i)
  <2>1. s.n + 1 = 1
    BY <1>3
  <2>2. QED
    BY <1>2, <2>1, Zenon
<1>5. Leads(cur[c], op("count", 1), s, m)
  <2>1. "count" \in OpName /\ 1 \in Lock \cup {None, 0, 1} \cup SUBSET Threads
    BY Zenon DEF OpName
  <2>2. Does(cur[c], [op |-> "count", arg |-> 1], s, m)
    BY <1>3, <1>4, OpParts, Zenon DEF Does
  <2>3. QED
    BY <2>1, <2>2, LeadsOp, Zenon
<1>6. PICK q : q = op("count", 1) \o Tail(todo[cur[c]])
  BY Zenon
<1>7. Leads(cur[c], q, s, End(cur[c]))
  BY <1>1, <1>5, <1>6, LeadsOn, Zenon
<1>8. /\ todo' = [todo EXCEPT ![cur[c]] = q]
      /\ locked' = locked /\ owner' = owner /\ cur' = cur /\ sie' = sie /\ noff' = noff /\ intena' = intena
      /\ runnable' = runnable /\ panicked' = panicked /\ held' = held
  BY <1>6, Zenon DEF IntrGet, become, running
<1>9. Others(c) /\ Now(c, s)'
  BY <1>1, <1>8, Zenon DEF Others, Now
<1>10. Contexts' /\ todo' \in [CPU \cup Threads -> Seq(Step)]
  BY <1>7, <1>8, <1>9, LocalStep, Zenon
<1>11. Types' /\ LocksOK'
  BY <1>8, <1>10, Parts, Zenon DEF Types, LocksOK
<1>12. QED
  BY <1>10, <1>11, Zenon DEF SpinInv, Contexts

\* intr_off() and the count of push_off().
LEMMA InvIntrOffCount == ASSUME SpinInv, NEW c \in CPU, IntrOffCount(c) PROVE SpinInv'
<1>1. PICK s \in Shape, m \in Shape :
        /\ Now(c, s) /\ m = shape(s.n + 1, s.h, s.w, s.i) /\ intenaAfter(c) \in s.i
        /\ Leads(cur[c], Tail(todo[cur[c]]), m, End(cur[c]))
  <2>1. CASE at(c, "count")
    <3>1. PICK o \in Step, s \in Shape, m \in Shape :
            /\ o = Head(todo[cur[c]]) /\ o.op = "count" /\ o.arg = arg(c)
            /\ Now(c, s) /\ Does(cur[c], o, s, m) /\ Leads(cur[c], Tail(todo[cur[c]]), m, End(cur[c]))
      BY <2>1, AtStep, Zenon
    <3>2. arg(c) = 1 /\ s.n = 0 /\ 1 \in s.i /\ m = shape(1, s.h, s.w, s.i)
      BY <3>1, Zenon DEF Does
    <3>3. noff[c] = 0 /\ s.n + 1 = 1
      BY <3>1, <3>2 DEF Now
    <3>4. intenaAfter(c) = 1
      BY <2>1, <3>2, <3>3, Zenon DEF intenaAfter, old
    <3>5. QED
      BY <3>1, <3>2, <3>3, <3>4, Zenon
  <2>2. CASE at(c, "intr_get") /\ sie[c] = 0
    <3>1. PICK o \in Step, s \in Shape, m \in Shape :
            /\ o = Head(todo[cur[c]]) /\ o.op = "intr_get" /\ o.arg = arg(c)
            /\ Now(c, s) /\ Does(cur[c], o, s, m) /\ Leads(cur[c], Tail(todo[cur[c]]), m, End(cur[c]))
      BY <2>2, AtStep, Zenon
    <3>2. m = shape(s.n + 1, s.h, s.w, s.i)
      BY <3>1, Zenon DEF Does
    <3>3. old(c) = 0
      BY <3>1 DEF old, at, running
    <3>4. intenaAfter(c) \in s.i
      BY <2>2, <3>1, <3>3, Zenon DEF intenaAfter, Now
    <3>5. QED
      BY <3>1, <3>2, <3>4, Zenon
  <2>3. QED
    BY <2>1, <2>2, Zenon DEF IntrOffCount
<1>2. PICK q : q = Tail(todo[cur[c]])
  BY Zenon
<1>3. /\ todo' = [todo EXCEPT ![cur[c]] = q] /\ sie' = [sie EXCEPT ![c] = 0]
      /\ intena' = [intena EXCEPT ![c] = intenaAfter(c)] /\ noff' = [noff EXCEPT ![c] = noff[c] + 1]
      /\ locked' = locked /\ owner' = owner /\ cur' = cur
      /\ runnable' = runnable /\ panicked' = panicked /\ held' = held
  BY <1>2, Zenon DEF IntrOffCount, finish, running
<1>4. /\ m.n = s.n + 1 /\ m.h = s.h /\ m.w = s.w /\ m.i = s.i /\ s.n = noff[c] /\ s.h = held[c]
      /\ s.w = {l \in Lock : owner[l] = c} /\ intenaAfter(c) \in {0, 1}
  <2>1. m.n = s.n + 1 /\ m.h = s.h /\ m.w = s.w /\ m.i = s.i
    BY <1>1, PartsOf
  <2>2. intenaAfter(c) \in {0, 1}
    BY <1>1, ShapeIs, Zenon
  <2>3. QED
    BY <1>1, <2>1, <2>2, Zenon DEF Now
<1>5. /\ sie \in [CPU -> {0, 1}] /\ intena \in [CPU -> {0, 1}] /\ noff \in [CPU -> Int] /\ noff[c] \in 0..3
  BY Parts, Zenon DEF Types
<1>6. sie'[c] = 0 /\ intena'[c] = intenaAfter(c) /\ noff'[c] = noff[c] + 1 /\ noff'[c] # 0
  BY <1>3, <1>5
<1>7. Others(c)
  BY <1>3, <1>5, Zenon DEF Others
<1>8. Now(c, m)'
  BY <1>1, <1>3, <1>4, <1>6, Zenon DEF Now
<1>9. Contexts' /\ todo' \in [CPU \cup Threads -> Seq(Step)]
  BY <1>1, <1>2, <1>3, <1>7, <1>8, LocalStep, Zenon
<1>10. sie' \in [CPU -> {0, 1}] /\ intena' \in [CPU -> {0, 1}] /\ noff' \in [CPU -> Int]
  BY <1>3, <1>4, <1>5
<1>11. Types'
  BY <1>3, <1>9, <1>10, Parts, Zenon DEF Types
<1>12. LocksOK'
  <2>1. \A d \in CPU : sie'[d] = 1 => noff'[d] = 0
    <3>1. 0 # 1
      OBVIOUS
    <3>2. QED
      BY <1>6, <1>7, <3>1, CalmStep, Zenon
  <2>2. QED
    BY <1>3, <2>1, Parts, Zenon DEF LocksOK
<1>13. QED
  BY <1>9, <1>11, <1>12, Zenon DEF SpinInv, Contexts

\* pop_off(): none of its panics.
LEMMA InvPopOff == ASSUME SpinInv, NEW c \in CPU, PopOff(c) PROVE SpinInv'
<1>1. PICK o \in Step, s \in Shape, m \in Shape :
        /\ o = Head(todo[cur[c]]) /\ o.op = "pop_off" /\ o.arg = arg(c)
        /\ Now(c, s) /\ Does(cur[c], o, s, m) /\ Leads(cur[c], Tail(todo[cur[c]]), m, End(cur[c]))
  BY AtStep, Zenon DEF PopOff
<1>2. s.n > 0 /\ m = shape(s.n - 1, s.h, s.w, s.i)
  BY <1>1, Zenon DEF Does
<1>3. PICK q : q = Tail(todo[cur[c]])
  BY Zenon
<1>4. /\ m.n = s.n - 1 /\ m.h = s.h /\ m.w = s.w /\ m.i = s.i /\ s.n = noff[c] /\ s.h = held[c]
      /\ s.w = {l \in Lock : owner[l] = c} /\ (noff[c] # 0 => intena[c] \in s.i)
  <2>1. m.n = s.n - 1 /\ m.h = s.h /\ m.w = s.w /\ m.i = s.i
    BY <1>2, PartsOf
  <2>2. QED
    BY <1>1, <2>1, Zenon DEF Now
<1>5. /\ sie \in [CPU -> {0, 1}] /\ intena[c] \in {0, 1} /\ noff \in [CPU -> Int] /\ noff[c] \in 0..3
      /\ (sie[c] = 1 => noff[c] = 0)
  BY Parts, Zenon DEF Types
<1>6. noff[c] > 0 /\ noff[c] # 0 /\ sie[c] = 0 /\ ~ (sie[c] = 1 \/ noff[c] < 1)
  BY <1>2, <1>4, <1>5
<1>7. /\ todo' = [todo EXCEPT ![cur[c]] = q] /\ noff' = [noff EXCEPT ![c] = noff[c] - 1]
      /\ sie' = [sie EXCEPT ![c] = IF turnsOn(c) THEN 1 ELSE sie[c]]
      /\ locked' = locked /\ owner' = owner /\ cur' = cur /\ intena' = intena
      /\ runnable' = runnable /\ panicked' = panicked /\ held' = held
  BY <1>3, <1>6, Zenon DEF PopOff, finish, running
<1>8. /\ noff'[c] = noff[c] - 1 /\ sie'[c] = IF noff[c] = 1 /\ intena[c] = 1 THEN 1 ELSE 0
      /\ sie' \in [CPU -> {0, 1}] /\ noff' \in [CPU -> Int]
  BY <1>5, <1>6, <1>7 DEF turnsOn
<1>9. /\ (noff'[c] = 0 => sie'[c] = intena[c]) /\ (sie'[c] = 1 => noff'[c] = 0)
  BY <1>5, <1>8
<1>10. Others(c)
  BY <1>5, <1>7, Zenon DEF Others
<1>11. Now(c, m)'
  BY <1>1, <1>4, <1>6, <1>7, <1>8, <1>9, Zenon DEF Now
<1>12. Contexts' /\ todo' \in [CPU \cup Threads -> Seq(Step)]
  BY <1>1, <1>3, <1>7, <1>10, <1>11, LocalStep, Zenon
<1>13. Types'
  BY <1>7, <1>8, <1>12, Parts, Zenon DEF Types
<1>14. LocksOK'
  <2>1. \A d \in CPU : sie'[d] = 1 => noff'[d] = 0
    BY <1>9, <1>10, CalmStep, Zenon
  <2>2. QED
    BY <1>7, <2>1, Parts, Zenon DEF LocksOK
<1>15. QED
  BY <1>12, <1>13, <1>14, Zenon DEF SpinInv, Contexts

\* acquire(): never a lock of the own CPU.
LEMMA InvSwap == ASSUME SpinInv, NEW c \in CPU, Swap(c) PROVE SpinInv'
<1>1. PICK o \in Step, s \in Shape, m \in Shape :
        /\ o = Head(todo[cur[c]]) /\ o.op = "swap" /\ o.arg = arg(c)
        /\ Now(c, s) /\ Does(cur[c], o, s, m) /\ Leads(cur[c], Tail(todo[cur[c]]), m, End(cur[c]))
  BY AtStep, Zenon DEF Swap
<1>2. PICK l : l = arg(c)
  BY Zenon
<1>3. l \in Lock \ s.h /\ m = shape(s.n, s.h \cup {l}, s.w, s.i)
  BY <1>1, <1>2, Zenon DEF Does
<1>4. m.n = s.n /\ m.h = s.h \cup {l} /\ m.w = s.w /\ m.i = s.i
  BY <1>3, PartsOf
<1>5. PICK q : q = Tail(todo[cur[c]])
  BY Zenon
<1>6. l \notin held[c] /\ ~ holding(c, l)
  BY <1>1, <1>3, Parts, Zenon DEF Now, holding
<1>7. /\ locked[l] = 0 /\ locked' = [locked EXCEPT ![l] = 1] /\ held' = [held EXCEPT ![c] = held[c] \cup {l}]
      /\ todo' = [todo EXCEPT ![cur[c]] = q]
      /\ owner' = owner /\ cur' = cur /\ sie' = sie /\ noff' = noff /\ intena' = intena
      /\ runnable' = runnable /\ panicked' = panicked
  BY <1>2, <1>5, <1>6, Zenon DEF Swap, isFree, finish, running
<1>8. /\ locked \in [Lock -> {0, 1}] /\ held \in [CPU -> SUBSET Lock] /\ 0 # 1
  BY Parts DEF Types
<1>9. /\ held'[c] = held[c] \cup {l} /\ \A d \in CPU : d # c => held'[d] = held[d]
      /\ held' \in [CPU -> SUBSET Lock]
  BY <1>3, <1>7, <1>8, Zenon
<1>10. /\ locked'[l] = 1 /\ \A k \in Lock : k # l => locked'[k] = locked[k]
       /\ locked' \in [Lock -> {0, 1}]
  BY <1>3, <1>7, <1>8, Zenon
<1>11. Others(c)
  BY <1>7, <1>9, Zenon DEF Others
<1>12. Now(c, m)'
  BY <1>1, <1>4, <1>7, <1>9, Zenon DEF Now
<1>13. Contexts' /\ todo' \in [CPU \cup Threads -> Seq(Step)]
  BY <1>1, <1>5, <1>7, <1>11, <1>12, LocalStep, Zenon
<1>14. Types'
  BY <1>7, <1>9, <1>10, <1>13, Parts, Zenon DEF Types
<1>15. LocksOK'
  <2>1. LocksOK
    BY Parts, Zenon
  <2>2. \A d \in CPU : l \notin held[d]
    BY <1>3, <1>7, <1>8, <2>1, Zenon DEF LocksOK
  <2>3. \A a, b \in CPU : a # b => held'[a] \cap held'[b] = {}
    BY <1>9, <2>1, <2>2 DEF LocksOK
  <2>4. ASSUME NEW k \in Lock PROVE locked'[k] = 1 <=> \E d \in CPU : k \in held'[d]
    <3>1. locked[k] = 1 <=> \E d \in CPU : k \in held[d]
      BY <2>1, Zenon DEF LocksOK
    <3>2. CASE k = l
      BY <1>9, <1>10, <3>2
    <3>3. CASE k # l
      <4>1. locked'[k] = locked[k]
        BY <1>10, <3>3, Zenon
      <4>2. \A d \in CPU : k \in held'[d] <=> k \in held[d]
        BY <1>9, <3>3, Zenon
      <4>3. QED
        BY <3>1, <4>1, <4>2, Zenon
    <3>4. QED
      BY <3>2, <3>3, Zenon
  <2>5. QED
    BY <1>7, <2>1, <2>3, <2>4, Zenon DEF LocksOK
<1>16. QED
  BY <1>13, <1>14, <1>15, Zenon DEF SpinInv, Contexts

\* lk->cpu = mycpu().
LEMMA InvSetCpu == ASSUME SpinInv, NEW c \in CPU, SetCpu(c) PROVE SpinInv'
<1>1. PICK o \in Step, s \in Shape, m \in Shape :
        /\ o = Head(todo[cur[c]]) /\ o.op = "setcpu" /\ o.arg = arg(c)
        /\ Now(c, s) /\ Does(cur[c], o, s, m) /\ Leads(cur[c], Tail(todo[cur[c]]), m, End(cur[c]))
  BY AtStep, Zenon DEF SetCpu
<1>2. PICK l : l = arg(c)
  BY Zenon
<1>3. l \in s.h \ s.w /\ m = shape(s.n, s.h, s.w \cup {l}, s.i)
  BY <1>1, <1>2, Zenon DEF Does
<1>4. m.n = s.n /\ m.h = s.h /\ m.w = s.w \cup {l} /\ m.i = s.i
  BY <1>3, PartsOf
<1>5. PICK q : q = Tail(todo[cur[c]])
  BY Zenon
<1>6. /\ owner' = [owner EXCEPT ![l] = c] /\ todo' = [todo EXCEPT ![cur[c]] = q]
      /\ locked' = locked /\ cur' = cur /\ sie' = sie /\ noff' = noff /\ intena' = intena
      /\ runnable' = runnable /\ panicked' = panicked /\ held' = held
  BY <1>2, <1>5, Zenon DEF SetCpu, finish, running
<1>7. l \in held[c] /\ l \in Lock /\ owner \in [Lock -> CPU \cup {None}] /\ s.w = {k \in Lock : owner[k] = c}
  BY <1>1, <1>3, Parts, Zenon DEF Now, Types
<1>8. /\ owner'[l] = c /\ \A k \in Lock : k # l => owner'[k] = owner[k]
      /\ owner' \in [Lock -> CPU \cup {None}]
  BY <1>6, <1>7, Zenon
<1>9. \A d \in CPU : d # c => owner[l] # d
  BY <1>7, Exclusive, Zenon
<1>10. Others(c)
  BY <1>6, <1>8, <1>9, Zenon DEF Others
<1>11. {k \in Lock : owner'[k] = c} = s.w \cup {l}
  BY <1>7, <1>8
<1>12. Now(c, m)'
  BY <1>1, <1>4, <1>6, <1>11, Zenon DEF Now
<1>13. Contexts' /\ todo' \in [CPU \cup Threads -> Seq(Step)]
  BY <1>1, <1>5, <1>6, <1>10, <1>12, LocalStep, Zenon
<1>14. Types' /\ LocksOK'
  <2>1. Types'
    BY <1>6, <1>8, <1>13, Parts, Zenon DEF Types
  <2>2. LocksOK'
    BY <1>6, SameLocks, Zenon
  <2>3. QED
    BY <2>1, <2>2, Zenon
<1>15. QED
  BY <1>13, <1>14, Zenon DEF SpinInv, Contexts

\* release(): the caller holds the lock.
LEMMA InvClearCpu == ASSUME SpinInv, NEW c \in CPU, ClearCpu(c) PROVE SpinInv'
<1>1. PICK o \in Step, s \in Shape, m \in Shape :
        /\ o = Head(todo[cur[c]]) /\ o.op = "clearcpu" /\ o.arg = arg(c)
        /\ Now(c, s) /\ Does(cur[c], o, s, m) /\ Leads(cur[c], Tail(todo[cur[c]]), m, End(cur[c]))
  BY AtStep, Zenon DEF ClearCpu
<1>2. PICK l : l = arg(c)
  BY Zenon
<1>3. l \in s.w /\ m = shape(s.n, s.h, s.w \ {l}, s.i)
  BY <1>1, <1>2, Zenon DEF Does
<1>4. m.n = s.n /\ m.h = s.h /\ m.w = s.w \ {l} /\ m.i = s.i
  BY <1>3, PartsOf
<1>5. PICK q : q = Tail(todo[cur[c]])
  BY Zenon
<1>6. l \in Lock /\ owner[l] = c /\ owner \in [Lock -> CPU \cup {None}] /\ s.w = {k \in Lock : owner[k] = c}
  <2>1. s.w = {k \in Lock : owner[k] = c}
    BY <1>1, Zenon DEF Now
  <2>2. owner \in [Lock -> CPU \cup {None}]
    BY Parts, Zenon DEF Types
  <2>3. QED
    BY <1>3, <2>1, <2>2, Zenon
<1>7. holding(c, l)
  <2>1. l \in held[c]
    BY <1>6, Parts, Zenon
  <2>2. locked[l] = 1
    BY <1>6, <2>1, Parts, Zenon DEF LocksOK
  <2>3. QED
    BY <1>6, <2>2, Zenon DEF holding
<1>8. /\ owner' = [owner EXCEPT ![l] = None] /\ todo' = [todo EXCEPT ![cur[c]] = q]
      /\ locked' = locked /\ cur' = cur /\ sie' = sie /\ noff' = noff /\ intena' = intena
      /\ runnable' = runnable /\ panicked' = panicked /\ held' = held
  BY <1>2, <1>5, <1>7, Zenon DEF ClearCpu, finish, running
<1>9. /\ owner'[l] = None /\ \A k \in Lock : k # l => owner'[k] = owner[k]
      /\ owner' \in [Lock -> CPU \cup {None}] /\ \A d \in CPU : d # None
  BY <1>6, <1>8, SpinAssumption, Zenon
<1>10. Others(c)
  BY <1>6, <1>8, <1>9, Zenon DEF Others
<1>11. {k \in Lock : owner'[k] = c} = s.w \ {l}
  BY <1>6, <1>9
<1>12. Now(c, m)'
  BY <1>1, <1>4, <1>8, <1>11, Zenon DEF Now
<1>13. Contexts' /\ todo' \in [CPU \cup Threads -> Seq(Step)]
  BY <1>1, <1>5, <1>8, <1>10, <1>12, LocalStep, Zenon
<1>14. Types' /\ LocksOK'
  <2>1. Types'
    BY <1>8, <1>9, <1>13, Parts, Zenon DEF Types
  <2>2. LocksOK'
    BY <1>8, SameLocks, Zenon
  <2>3. QED
    BY <2>1, <2>2, Zenon
<1>15. QED
  BY <1>13, <1>14, Zenon DEF SpinInv, Contexts

\* The store that frees the lock.
LEMMA InvUnlock == ASSUME SpinInv, NEW c \in CPU, Unlock(c) PROVE SpinInv'
<1>1. PICK o \in Step, s \in Shape, m \in Shape :
        /\ o = Head(todo[cur[c]]) /\ o.op = "unlock" /\ o.arg = arg(c)
        /\ Now(c, s) /\ Does(cur[c], o, s, m) /\ Leads(cur[c], Tail(todo[cur[c]]), m, End(cur[c]))
  BY AtStep, Zenon DEF Unlock
<1>2. PICK l : l = arg(c)
  BY Zenon
<1>3. l \in s.h \ s.w /\ m = shape(s.n, s.h \ {l}, s.w, s.i)
  BY <1>1, <1>2, Zenon DEF Does
<1>4. m.n = s.n /\ m.h = s.h \ {l} /\ m.w = s.w /\ m.i = s.i
  BY <1>3, PartsOf
<1>5. PICK q : q = Tail(todo[cur[c]])
  BY Zenon
<1>6. /\ locked' = [locked EXCEPT ![l] = 0] /\ held' = [held EXCEPT ![c] = held[c] \ {l}]
      /\ todo' = [todo EXCEPT ![cur[c]] = q]
      /\ owner' = owner /\ cur' = cur /\ sie' = sie /\ noff' = noff /\ intena' = intena
      /\ runnable' = runnable /\ panicked' = panicked
  BY <1>2, <1>5, Zenon DEF Unlock, finish, running
<1>7. /\ locked \in [Lock -> {0, 1}] /\ held \in [CPU -> SUBSET Lock] /\ 0 # 1
  BY Parts DEF Types
<1>8. l \in held[c] /\ l \in Lock
  BY <1>1, <1>3, <1>7, Zenon DEF Now
<1>9. /\ held'[c] = held[c] \ {l} /\ \A d \in CPU : d # c => held'[d] = held[d]
      /\ held' \in [CPU -> SUBSET Lock]
  BY <1>6, <1>7, Zenon
<1>10. /\ locked'[l] = 0 /\ \A k \in Lock : k # l => locked'[k] = locked[k]
       /\ locked' \in [Lock -> {0, 1}]
  BY <1>6, <1>7, <1>8, Zenon
<1>11. Others(c)
  BY <1>6, <1>9, Zenon DEF Others
<1>12. Now(c, m)'
  BY <1>1, <1>4, <1>6, <1>9, Zenon DEF Now
<1>13. Contexts' /\ todo' \in [CPU \cup Threads -> Seq(Step)]
  BY <1>1, <1>5, <1>6, <1>11, <1>12, LocalStep, Zenon
<1>14. Types'
  BY <1>6, <1>9, <1>10, <1>13, Parts, Zenon DEF Types
<1>15. LocksOK'
  <2>1. LocksOK
    BY Parts, Zenon
  <2>2. \A d \in CPU : d # c => l \notin held[d]
    BY <1>8, Exclusive, Zenon
  <2>3. \A a, b \in CPU : a # b => held'[a] \cap held'[b] = {}
    BY <1>9, <2>1 DEF LocksOK
  <2>4. \A k \in Lock : locked'[k] = 1 <=> \E d \in CPU : k \in held'[d]
    <3>1. \A d \in CPU : l \notin held'[d] /\ \A k \in Lock : k # l => (k \in held'[d] <=> k \in held[d])
      BY <1>9, <2>2, Zenon
    <3>2. \A k \in Lock : locked[k] = 1 <=> \E d \in CPU : k \in held[d]
      BY <2>1, Zenon DEF LocksOK
    <3>3. ASSUME NEW k \in Lock PROVE locked'[k] = 1 <=> \E d \in CPU : k \in held'[d]
      <4>1. CASE k = l
        BY <1>7, <1>10, <3>1, <4>1
      <4>2. CASE k # l
        <5>1. locked'[k] = locked[k]
          BY <1>10, <4>2, Zenon
        <5>2. \A d \in CPU : k \in held'[d] <=> k \in held[d]
          BY <3>1, <4>2, Zenon
        <5>3. QED
          BY <3>2, <5>1, <5>2, Zenon
      <4>3. QED
        BY <4>1, <4>2, Zenon
    <3>4. QED
      BY <3>3, Zenon
  <2>5. QED
    BY <1>6, <2>1, <2>3, <2>4, Zenon DEF LocksOK
<1>16. QED
  BY <1>13, <1>14, <1>15, Zenon DEF SpinInv, Contexts

\* The end of sched() restores intena.
LEMMA InvResume == ASSUME SpinInv, NEW c \in CPU, Resume(c) PROVE SpinInv'
<1>1. PICK o \in Step, s \in Shape, m \in Shape :
        /\ o = Head(todo[cur[c]]) /\ o.op = "resume" /\ o.arg = arg(c)
        /\ Now(c, s) /\ Does(cur[c], o, s, m) /\ Leads(cur[c], Tail(todo[cur[c]]), m, End(cur[c]))
  BY AtStep, Zenon DEF Resume
<1>2. PICK a : a = arg(c)
  BY Zenon
<1>3. /\ a \in m.i /\ s = shape(1, {cur[c]}, {cur[c]}, s.i) /\ m = shape(1, {cur[c]}, {cur[c]}, m.i)
  BY <1>1, <1>2, Zenon DEF Does
<1>4. m.n = s.n /\ m.h = s.h /\ m.w = s.w /\ s.n = 1 /\ a \in {0, 1}
  <2>1. /\ m.n = 1 /\ m.h = {cur[c]} /\ m.w = {cur[c]}
    BY <1>3, PartsOf
  <2>2. /\ s.n = 1 /\ s.h = {cur[c]} /\ s.w = {cur[c]}
    BY <1>3, PartsOf
  <2>3. a \in {0, 1}
    BY <1>3, ShapeIs, Zenon
  <2>4. QED
    BY <2>1, <2>2, <2>3, Zenon
<1>5. PICK q : q = Tail(todo[cur[c]])
  BY Zenon
<1>6. /\ intena' = [intena EXCEPT ![c] = a] /\ todo' = [todo EXCEPT ![cur[c]] = q]
      /\ locked' = locked /\ owner' = owner /\ cur' = cur /\ sie' = sie /\ noff' = noff
      /\ runnable' = runnable /\ panicked' = panicked /\ held' = held
  BY <1>2, <1>5, Zenon DEF Resume, intenaBack, finish, running
<1>7. intena \in [CPU -> {0, 1}] /\ noff[c] = 1 /\ 1 # 0
  BY <1>1, <1>4, Parts DEF Now, Types
<1>8. intena'[c] = a /\ intena' \in [CPU -> {0, 1}]
  BY <1>4, <1>6, <1>7, Zenon
<1>9. Others(c)
  BY <1>6, <1>7, Zenon DEF Others
<1>10. Now(c, m)'
  BY <1>1, <1>3, <1>4, <1>6, <1>7, <1>8, Zenon DEF Now
<1>11. Contexts' /\ todo' \in [CPU \cup Threads -> Seq(Step)]
  BY <1>1, <1>5, <1>6, <1>9, <1>10, LocalStep, Zenon
<1>12. Types' /\ LocksOK'
  BY <1>6, <1>8, <1>11, Parts, Zenon DEF Types, LocksOK
<1>13. QED
  BY <1>11, <1>12, Zenon DEF SpinInv, Contexts

\* One turn of the loop of wakeup(), and the others.
LEMMA LeadsWake ==
  ASSUME NEW x, NEW n \in 1..2, NEW h \in SUBSET Lock, NEW w \in SUBSET h, NEW i \in SUBSET {0, 1},
         NEW S \in SUBSET Threads, h \cap S = {}, NEW t \in S
  PROVE  Leads(x, acquire(t) \o release(t) \o wakeup(S \ {t}), shape(n, h, w, i), shape(n, h, w, i))
<1>1. /\ n \in 0..2 /\ n # 0 /\ n + 1 \in 1..3 /\ n + 1 # 1 /\ (n + 1) - 1 = n /\ n \in 0..3
      /\ t \in Lock \ h
  BY DEF Lock
<1>2. /\ h \cup {t} \in SUBSET Lock /\ w \cup {t} \in SUBSET (h \cup {t}) /\ t \in w \cup {t}
      /\ (h \cup {t}) \ {t} = h /\ (w \cup {t}) \ {t} = w
  BY <1>1
<1>3. Leads(x, acquire(t), shape(n, h, w, i), shape(n + 1, h \cup {t}, w \cup {t}, i))
  BY <1>1, LeadsAcquire, Zenon
<1>4. Leads(x, release(t), shape(n + 1, h \cup {t}, w \cup {t}, i), shape(n, h, w, i))
  <2>1. Leads(x, release(t), shape(n + 1, h \cup {t}, w \cup {t}, i),
              shape((n + 1) - 1, (h \cup {t}) \ {t}, (w \cup {t}) \ {t}, i))
    BY <1>1, <1>2, LeadsRelease, Zenon
  <2>2. QED
    BY <1>1, <1>2, <2>1, Zenon
<1>5. Leads(x, wakeup(S \ {t}), shape(n, h, w, i), shape(n, h, w, i))
  <2>1. S \ {t} \in SUBSET Threads /\ h \cap (S \ {t}) = {}
    BY Zenon
  <2>2. shape(n, h, w, i) \in Shape /\ shape(n, h, w, i).n = n /\ shape(n, h, w, i).h = h
    <3>1. shape(n, h, w, i) \in Shape
      BY <1>1, ShapeParts, Zenon
    <3>2. QED
      BY <3>1, PartsOf
  <2>3. Does(x, [op |-> "wakeup", arg |-> S \ {t}], shape(n, h, w, i), shape(n, h, w, i))
    BY <2>1, <2>2, OpParts, Zenon DEF Does
  <2>4. "wakeup" \in OpName /\ S \ {t} \in Lock \cup {None, 0, 1} \cup SUBSET Threads
    BY <2>1, Zenon DEF OpName
  <2>5. QED
    BY <2>2, <2>3, <2>4, LeadsOp, Zenon DEF wakeup
<1>6. QED
  BY <1>3, <1>4, <1>5, LeadsOn, Zenon

\* The loop of wakeup().
LEMMA InvWakeNext == ASSUME SpinInv, NEW c \in CPU, WakeNext(c) PROVE SpinInv'
<1>1. PICK o \in Step, s \in Shape, m \in Shape :
        /\ o = Head(todo[cur[c]]) /\ o.op = "wakeup" /\ o.arg = arg(c)
        /\ Now(c, s) /\ Does(cur[c], o, s, m) /\ Leads(cur[c], Tail(todo[cur[c]]), m, End(cur[c]))
  BY AtStep, Zenon DEF WakeNext
<1>2. PICK S : S = arg(c)
  BY Zenon
<1>3. S \in SUBSET Threads /\ s.n \in 1..2 /\ s.h \cap S = {} /\ m = s
  BY <1>1, <1>2, Zenon DEF Does
<1>4. PICK t : t = CHOOSE k \in S : TRUE
  BY Zenon
<1>5. S # {} => t \in S
  BY <1>4
<1>6. /\ locked' = locked /\ owner' = owner /\ cur' = cur /\ sie' = sie /\ noff' = noff /\ intena' = intena
      /\ runnable' = runnable /\ panicked' = panicked /\ held' = held
  BY Zenon DEF WakeNext
<1>7. PICK q : /\ todo' = [todo EXCEPT ![cur[c]] = q]
               /\ q = Tail(todo[cur[c]]) \/ (S # {} /\ q = acquire(t) \o release(t) \o wakeup(S \ {t}) \o Tail(todo[cur[c]]))
  <2>1. CASE S = {}
    BY <1>2, <2>1, Zenon DEF WakeNext, finish, running
  <2>2. CASE S # {}
    <3>1. todo' = [todo EXCEPT ![cur[c]] = acquire(t) \o release(t) \o wakeup(S \ {t}) \o Tail(todo[cur[c]])]
      BY <1>2, <1>4, <2>2, Zenon DEF WakeNext, running
    <3>2. QED
      BY <2>2, <3>1, Zenon
  <2>3. QED
    BY <2>1, <2>2, Zenon
<1>8. Leads(cur[c], q, s, End(cur[c]))
  <2>1. CASE q = Tail(todo[cur[c]])
    BY <1>1, <1>3, <2>1, Zenon
  <2>2. CASE S # {} /\ q = acquire(t) \o release(t) \o wakeup(S \ {t}) \o Tail(todo[cur[c]])
    <3>1. s = shape(s.n, s.h, s.w, s.i) /\ s.h \in SUBSET Lock /\ s.w \in SUBSET s.h /\ s.i \in SUBSET {0, 1}
      BY ShapeIs, Zenon
    <3>2. PICK u : u = shape(s.n, s.h, s.w, s.i)
      BY Zenon
    <3>3. Leads(cur[c], acquire(t) \o release(t) \o wakeup(S \ {t}), u, u)
      BY <1>3, <1>5, <2>2, <3>1, <3>2, LeadsWake, Zenon
    <3>4. Leads(cur[c], acquire(t) \o release(t) \o wakeup(S \ {t}), s, s)
      BY <3>1, <3>2, <3>3, Zenon
    <3>5. QED
      BY <1>1, <1>3, <2>2, <3>4, LeadsOn, Zenon
  <2>3. QED
    BY <1>7, <2>1, <2>2, Zenon
<1>9. Others(c) /\ Now(c, s)'
  BY <1>1, <1>6, Zenon DEF Others, Now
<1>10. Contexts' /\ todo' \in [CPU \cup Threads -> Seq(Step)]
  BY <1>6, <1>7, <1>8, <1>9, LocalStep, Zenon
<1>11. Types' /\ LocksOK'
  BY <1>6, <1>10, Parts, Zenon DEF Types, LocksOK
<1>12. QED
  BY <1>10, <1>11, Zenon DEF SpinInv, Contexts

\* intr_on(), intr_off() and the return from the handler.
LEMMA InvSetIntr == ASSUME SpinInv, NEW c \in CPU, SetIntr(c) PROVE SpinInv'
<1>1. PICK v \in {0, 1}, m \in Shape, s \in Shape :
        /\ Now(c, s) /\ s.n = 0 /\ m = shape(0, {}, {}, m.i) /\ v \in m.i
        /\ sie' = [sie EXCEPT ![c] = v] /\ Leads(cur[c], Tail(todo[cur[c]]), m, End(cur[c]))
  <2>1. PICK name \in {"intr_on", "intr_off", "sret"} : at(c, name)
    BY Zenon DEF SetIntr
  <2>2. PICK o \in Step, s \in Shape, m \in Shape :
          /\ o = Head(todo[cur[c]]) /\ o.op = name /\ o.arg = arg(c)
          /\ Now(c, s) /\ Does(cur[c], o, s, m) /\ Leads(cur[c], Tail(todo[cur[c]]), m, End(cur[c]))
    BY <2>1, AtStep, Zenon
  <2>3. s.n = 0 /\ m = shape(0, {}, {}, m.i) /\ (IF name = "intr_off" THEN 0 ELSE 1) \in m.i
    <3>1. CASE name = "intr_on"
      <4>1. s.n = 0 /\ m = shape(0, {}, {}, {1})
        BY <2>2, <3>1, Zenon DEF Does, On
      <4>2. m.i = {1} /\ m = shape(0, {}, {}, m.i)
        BY <4>1, OutParts, Zenon
      <4>3. "intr_on" # "intr_off"
        BY Zenon
      <4>4. QED
        BY <3>1, <4>1, <4>2, <4>3, Zenon
    <3>2. CASE name = "intr_off"
      <4>1. s.n = 0 /\ m = shape(0, {}, {}, {0})
        BY <2>2, <3>2, Zenon DEF Does, Off
      <4>2. m.i = {0} /\ m = shape(0, {}, {}, m.i)
        BY <4>1, OutParts, Zenon
      <4>3. QED
        BY <3>2, <4>1, <4>2, Zenon
    <3>3. CASE name = "sret"
      BY <2>2, <3>3, Zenon DEF Does
    <3>4. QED
      BY <3>1, <3>2, <3>3, Zenon
  <2>4. at(c, "intr_off") <=> name = "intr_off"
    BY <2>1, <2>2, Zenon DEF at, running
  <2>5. sie' = [sie EXCEPT ![c] = IF name = "intr_off" THEN 0 ELSE 1]
    BY <2>4, Zenon DEF SetIntr
  <2>6. (IF name = "intr_off" THEN 0 ELSE 1) \in {0, 1}
    BY Zenon
  <2>7. QED
    BY <2>2, <2>3, <2>5, <2>6, Zenon
<1>2. PICK q : q = Tail(todo[cur[c]])
  BY Zenon
<1>3. /\ todo' = [todo EXCEPT ![cur[c]] = q]
      /\ locked' = locked /\ owner' = owner /\ cur' = cur /\ noff' = noff /\ intena' = intena
      /\ runnable' = runnable /\ panicked' = panicked /\ held' = held
  BY <1>2, Zenon DEF SetIntr, finish, running
<1>4. /\ m.n = 0 /\ m.h = {} /\ m.w = {} /\ s.h = {} /\ s.w = {}
  <2>1. m.n = 0 /\ m.h = {} /\ m.w = {}
    BY <1>1, PartsOf
  <2>2. s.h = {} /\ s.w = {}
    BY <1>1, ShapeIs, Zenon
  <2>3. QED
    BY <2>1, <2>2, Zenon
<1>5. sie \in [CPU -> {0, 1}] /\ noff[c] = 0 /\ held[c] = {} /\ {l \in Lock : owner[l] = c} = {}
  BY <1>1, <1>4, Parts, Zenon DEF Now, Types
<1>6. sie'[c] = v /\ sie' \in [CPU -> {0, 1}]
  BY <1>1, <1>5, Zenon
<1>7. Others(c)
  BY <1>1, <1>3, <1>5, Zenon DEF Others
<1>8. Now(c, m)'
  BY <1>1, <1>3, <1>4, <1>5, <1>6, Zenon DEF Now
<1>9. Contexts' /\ todo' \in [CPU \cup Threads -> Seq(Step)]
  BY <1>1, <1>2, <1>3, <1>7, <1>8, LocalStep, Zenon
<1>10. Types'
  BY <1>3, <1>6, <1>9, Parts, Zenon DEF Types
<1>11. LocksOK'
  <2>1. \A d \in CPU : sie'[d] = 1 => noff'[d] = 0
    BY <1>3, <1>5, <1>7, Parts, ZenonT(30) DEF Others
  <2>2. QED
    BY <1>3, <2>1, Parts, ZenonT(30) DEF LocksOK
<1>12. QED
  BY <1>9, <1>10, <1>11, Zenon DEF SpinInv, Contexts

\* What a context that has nothing left to do is in.
LEMMA LeadsEnd == ASSUME NEW x, NEW s, NEW e, Leads(x, <<>>, s, e) PROVE s = e
<1>1. Len(<<>>) + 1 = 1
  OBVIOUS
<1>2. QED
  BY <1>1, Zenon DEF Leads

\* A timer interrupt: the handler turns interrupts on again when it returns.
LEMMA InvTimer == ASSUME SpinInv, NEW c \in CPU, Timer(c) PROVE SpinInv'
<1>1. PICK x : x = cur[c]
  BY Zenon
<1>2. PICK s \in Shape : Now(c, s) /\ Leads(x, todo[x], s, End(x))
  BY <1>1, Zenon DEF SpinInv, Running
<1>3. sie[c] = 1 /\ noff[c] = 0
  BY Parts, Zenon DEF Timer
<1>4. s.n = 0 /\ 1 \in s.i /\ held[c] = {} /\ {l \in Lock : owner[l] = c} = {} /\ s.i \in SUBSET {0, 1}
  BY <1>2, <1>3, ShapeIs, Zenon DEF Now
<1>5. s = out(s.i)
  BY <1>4, ShapeIs, Zenon DEF out
<1>6. PICK q : q = kerneltrap(c, x) \o todo[x]
  BY Zenon
<1>7. Leads(x, q, Off, End(x))
  <2>1. PICK j : j = s.i
    BY Zenon
  <2>2. s = out(j)
    BY <1>5, <2>1, Zenon
  <2>3. Leads(x, kerneltrap(c, x), Off, out(j))
    BY <1>4, <2>1, LeadsTrap, Zenon
  <2>4. Leads(x, kerneltrap(c, x), Off, s)
    BY <2>2, <2>3, Zenon
  <2>5. QED
    BY <1>2, <1>6, <2>4, LeadsOn, Zenon
<1>8. /\ todo' = [todo EXCEPT ![cur[c]] = q] /\ sie' = [sie EXCEPT ![c] = 0]
      /\ locked' = locked /\ owner' = owner /\ cur' = cur /\ noff' = noff /\ intena' = intena
      /\ runnable' = runnable /\ panicked' = panicked /\ held' = held
  BY <1>1, <1>6, Zenon DEF Timer, running
<1>9. sie \in [CPU -> {0, 1}] /\ sie'[c] = 0 /\ sie' \in [CPU -> {0, 1}]
  <2>1. sie \in [CPU -> {0, 1}]
    BY Parts, Zenon DEF Types
  <2>2. QED
    BY <1>8, <2>1, Zenon
<1>10. Others(c)
  BY <1>8, <1>9, Zenon DEF Others
<1>11. Now(c, Off)'
  <2>1. Off.n = 0 /\ Off.h = {} /\ Off.w = {} /\ 0 \in Off.i
    BY DEF Off, shape
  <2>2. Off \in Shape
    <3>1. {0} \in SUBSET {0, 1} /\ "tickslock" \in Lock
      BY Zenon DEF Lock
    <3>2. QED
      BY <3>1, ShapesIn, Zenon DEF Off, out
  <2>3. QED
    BY <1>3, <1>4, <1>8, <1>9, <2>1, <2>2, Zenon DEF Now
<1>12. Contexts' /\ todo' \in [CPU \cup Threads -> Seq(Step)]
  BY <1>1, <1>7, <1>8, <1>10, <1>11, LocalStep, Zenon
<1>13. Types'
  BY <1>8, <1>9, <1>12, Parts, Zenon DEF Types
<1>14. LocksOK'
  <2>1. \A d \in CPU : sie'[d] = 1 => noff'[d] = 0
    BY <1>3, <1>8, <1>10, Parts, Zenon DEF Others
  <2>2. QED
    BY <1>8, <2>1, Parts, Zenon DEF LocksOK
<1>15. QED
  BY <1>12, <1>13, <1>14, Zenon DEF SpinInv, Contexts

\* The next call of a thread, the next round of scheduler().
LEMMA InvCall == ASSUME SpinInv, NEW c \in CPU, Call(c) PROVE SpinInv'
<1>1. PICK x : x = cur[c]
  BY Zenon
<1>2. PICK s \in Shape : Now(c, s) /\ Leads(x, todo[x], s, End(x))
  BY <1>1, Zenon DEF SpinInv, Running
<1>3. s = End(x)
  <2>1. todo[x] = <<>>
    BY <1>1, Zenon DEF Call, running
  <2>2. Leads(x, <<>>, s, End(x))
    BY <1>2, <2>1
  <2>3. QED
    BY <2>2, LeadsEnd, Zenon
<1>4. /\ locked' = locked /\ owner' = owner /\ cur' = cur /\ sie' = sie /\ noff' = noff /\ intena' = intena
      /\ runnable' = runnable /\ panicked' = panicked /\ held' = held
  BY Zenon DEF Call
<1>5. PICK q : /\ todo' = [todo EXCEPT ![cur[c]] = q]
               /\ IF x \in Threads THEN q = pause(x) ELSE \E t \in Threads : q = round(t)
  <2>1. CASE x \in Threads
    BY <1>1, <2>1, Zenon DEF Call, running
  <2>2. CASE x \notin Threads
    BY <1>1, <2>2, Zenon DEF Call, running
  <2>3. QED
    BY <2>1, <2>2, Zenon
<1>6. Leads(x, q, s, End(x))
  <2>1. CASE x \in Threads
    BY <1>3, <1>5, <2>1, LeadsRounds, Zenon DEF End
  <2>2. CASE x \notin Threads
    <3>1. x = c
      BY <1>1, <2>2, Parts, Zenon DEF Types
    <3>2. QED
      BY <1>3, <1>5, <2>2, <3>1, LeadsRounds, Zenon DEF End
  <2>3. QED
    BY <2>1, <2>2, Zenon
<1>7. Others(c) /\ Now(c, s)'
  BY <1>2, <1>4, Zenon DEF Others, Now
<1>8. Contexts' /\ todo' \in [CPU \cup Threads -> Seq(Step)]
  BY <1>1, <1>4, <1>5, <1>6, <1>7, LocalStep, Zenon
<1>9. Types' /\ LocksOK'
  BY <1>4, <1>8, Parts, Zenon DEF Types, LocksOK
<1>10. QED
  BY <1>8, <1>9, Zenon DEF SpinInv, Contexts

\* sched(): the thread leaves its CPU to the scheduler() of that CPU.
LEMMA InvSched == ASSUME SpinInv, NEW c \in CPU, Sched(c) PROVE SpinInv'
<1>1. PICK o \in Step, s \in Shape, m \in Shape :
        /\ o = Head(todo[cur[c]]) /\ o.op = "sched" /\ o.arg = arg(c)
        /\ Now(c, s) /\ Does(cur[c], o, s, m) /\ Leads(cur[c], Tail(todo[cur[c]]), m, End(cur[c]))
  BY AtStep, Zenon DEF Sched
<1>2. PICK t, a, q : t = arg(c) /\ a = intena[c] /\ q = op("resume", a) \o Tail(todo[t])
  BY Zenon
<1>3. t = cur[c] /\ t \in Threads /\ s = shape(1, {t}, {t}, s.i) /\ m = s
  BY <1>1, <1>2, Zenon DEF Does
<1>4. s.n = 1 /\ s.h = {t} /\ s.w = {t}
  BY <1>3, PartsOf
<1>5. /\ noff[c] = 1 /\ held[c] = {t} /\ {l \in Lock : owner[l] = c} = {t} /\ a \in s.i /\ a \in {0, 1}
      /\ sie[c] # 1 /\ t \in Lock /\ owner[t] = c
  <2>1. noff[c] = 1 /\ noff[c] # 0 /\ held[c] = {t} /\ {l \in Lock : owner[l] = c} = {t}
    BY <1>1, <1>4 DEF Now
  <2>2. a \in s.i /\ a \in {0, 1} /\ sie[c] # 1
    BY <1>1, <1>2, <2>1, Parts, Zenon DEF Now
  <2>3. QED
    BY <2>1, <2>2, Zenon
<1>6. holding(c, t)
  <2>1. locked[t] = 1
    BY <1>5, Parts, Zenon DEF LocksOK
  <2>2. QED
    BY <1>5, <2>1, Zenon DEF holding
<1>7. /\ todo' = [todo EXCEPT ![t] = q] /\ cur' = [cur EXCEPT ![c] = c] /\ runnable' = [runnable EXCEPT ![t] = TRUE]
      /\ locked' = locked /\ owner' = owner /\ sie' = sie /\ noff' = noff /\ intena' = intena
      /\ panicked' = panicked /\ held' = held
  BY <1>2, <1>3, <1>5, <1>6, Zenon DEF Sched, become, running
<1>8. Handed(t) \in Shape /\ Handed(t).n = 1 /\ Handed(t).h = {t} /\ Handed(t).w = {t} /\ Handed(t).i = {0, 1}
  <2>1. {0, 1} \in SUBSET {0, 1}
    OBVIOUS
  <2>2. Handed(t) \in Shape
    BY <1>5, <2>1, ShapesIn, Zenon DEF Handed, with
  <2>3. QED
    BY <2>2 DEF Handed, shape
<1>9. Leads(t, q, Handed(t), End(t))
  <2>1. Handed(t) = shape(1, {t}, {t}, Handed(t).i)
    BY <1>8, Zenon DEF Handed
  <2>2. Does(t, [op |-> "resume", arg |-> a], Handed(t), s)
    BY <1>3, <1>5, <2>1, OpParts, Zenon DEF Does
  <2>3. "resume" \in OpName /\ a \in Lock \cup {None, 0, 1} \cup SUBSET Threads
    BY <1>5, Zenon DEF OpName
  <2>4. Leads(t, op("resume", a), Handed(t), s)
    BY <1>8, <2>2, <2>3, LeadsOp, Zenon
  <2>5. QED
    BY <1>1, <1>2, <1>3, <2>4, LeadsOn, Zenon
<1>10. /\ todo \in [CPU \cup Threads -> Seq(Step)] /\ cur \in [CPU -> CPU \cup Threads] /\ runnable \in [Threads -> BOOLEAN]
       /\ \A d \in CPU : cur[d] \in Threads \cup {d} /\ d \notin Threads
  BY SpinAssumption, Parts, Zenon DEF Types
<1>11. /\ todo' \in [CPU \cup Threads -> Seq(Step)] /\ todo'[t] = q /\ \A x \in CPU \cup Threads : x # t => todo'[x] = todo[x]
       /\ cur' \in [CPU -> CPU \cup Threads] /\ cur'[c] = c /\ \A d \in CPU : d # c => cur'[d] = cur[d]
       /\ runnable' \in [Threads -> BOOLEAN] /\ runnable'[t] /\ \A x \in Threads : x # t => runnable'[x] = runnable[x]
       /\ \A d \in CPU : cur'[d] \in Threads \cup {d}
  <2>1. q \in Seq(Step)
    BY <1>9, Zenon DEF Leads
  <2>2. todo' \in [CPU \cup Threads -> Seq(Step)] /\ todo'[t] = q /\ \A x \in CPU \cup Threads : x # t => todo'[x] = todo[x]
    BY <1>3, <1>7, <1>10, <2>1, Zenon
  <2>3. cur' \in [CPU -> CPU \cup Threads] /\ cur'[c] = c /\ \A d \in CPU : d # c => cur'[d] = cur[d]
    BY <1>7, <1>10, Zenon
  <2>4. runnable' \in [Threads -> BOOLEAN] /\ runnable'[t] /\ \A x \in Threads : x # t => runnable'[x] = runnable[x]
    BY <1>3, <1>7, <1>10, Zenon
  <2>5. QED
    BY <1>10, <2>2, <2>3, <2>4, Zenon
<1>12. \A d \in CPU : d # c => cur[d] # t
  BY <1>3, Zenon DEF SpinInv, OnePlace
<1>13. Others(c)
  BY <1>7, Zenon DEF Others
<1>14. Running'
  <2> SUFFICES ASSUME NEW d \in CPU
               PROVE  \E u \in Shape : Now(d, u)' /\ Leads(cur'[d], todo'[cur'[d]], u, End(cur'[d]))
    BY Zenon DEF Running
  <2>1. CASE d = c
    <3>1. Leads(c, todo[c], Handed(t), End(c))
      BY <1>3, Zenon DEF SpinInv, Parked
    <3>2. todo'[c] = todo[c]
      <4>1. c \notin Threads
        BY <1>10, Zenon
      <4>2. c # t
        BY <1>3, <4>1, Zenon
      <4>3. QED
        BY <1>11, <4>2, Zenon
    <3>3. Now(c, Handed(t))'
      <4>1. 1 # 0 /\ a \in Handed(t).i
        BY <1>5, <1>8
      <4>2. QED
        BY <1>2, <1>5, <1>7, <1>8, <4>1, Zenon DEF Now
    <3>4. QED
      <4>1. cur'[c] = c
        BY <1>11, Zenon
      <4>2. Leads(cur'[c], todo'[cur'[c]], Handed(t), End(cur'[c]))
        BY <3>1, <3>2, <4>1
      <4>3. QED
        BY <1>8, <2>1, <3>3, <4>2, Zenon
  <2>2. CASE d # c
    <3>1. PICK u \in Shape : Now(d, u) /\ Leads(cur[d], todo[cur[d]], u, End(cur[d]))
      BY Zenon DEF SpinInv, Running
    <3>2. Now(d, u)'
      BY <1>13, <2>2, <3>1, NowOther, Zenon
    <3>3. cur'[d] = cur[d] /\ todo'[cur[d]] = todo[cur[d]]
      BY <1>10, <1>11, <1>12, <2>2, Zenon
    <3>4. QED
      BY <3>1, <3>2, <3>3, Zenon
  <2>3. QED
    BY <2>1, <2>2, Zenon
<1>15. Parked'
  <2> SUFFICES ASSUME NEW d \in CPU, cur'[d] \in Threads PROVE Leads(d, todo'[d], Handed(cur'[d]), End(d))
    BY Zenon DEF Parked
  <2>1. d # c /\ d # t
    <3>1. cur'[c] = c /\ c \notin Threads /\ d \notin Threads
      BY <1>10, <1>11, Zenon
    <3>2. QED
      BY <1>3, <3>1, Zenon
  <2>2. cur'[d] = cur[d] /\ todo'[d] = todo[d]
    BY <1>11, <2>1, Zenon
  <2>3. QED
    BY <2>2, Zenon DEF SpinInv, Parked
<1>16. Waiting'
  <2> SUFFICES ASSUME NEW x \in Threads, runnable'[x] PROVE Leads(x, todo'[x], Handed(x), End(x))
    BY Zenon DEF Waiting
  <2>1. CASE x = t
    BY <1>9, <1>11, <2>1, Zenon
  <2>2. CASE x # t
    BY <1>11, <2>2, Zenon DEF SpinInv, Waiting
  <2>3. QED
    BY <2>1, <2>2, Zenon
<1>17. OnePlace'
  <2> SUFFICES ASSUME NEW d \in CPU, cur'[d] \in Threads
               PROVE  ~ runnable'[cur'[d]] /\ \A e \in CPU : e # d => cur'[e] # cur'[d]
    BY Zenon DEF OnePlace
  <2>1. d # c /\ cur'[d] = cur[d] /\ cur[d] # t
    <3>1. cur'[c] = c /\ c \notin Threads
      BY <1>10, <1>11, Zenon
    <3>2. d # c
      BY <3>1, Zenon
    <3>3. QED
      BY <1>11, <1>12, <3>2, Zenon
  <2>2. ~ runnable[cur[d]] /\ \A e \in CPU : e # d => cur[e] # cur[d]
    BY <2>1, Zenon DEF SpinInv, OnePlace
  <2>3. ~ runnable'[cur'[d]]
    <3>1. runnable'[cur[d]] = runnable[cur[d]]
      BY <1>11, <2>1, Zenon
    <3>2. QED
      BY <2>1, <2>2, <3>1, Zenon
  <2>4. ASSUME NEW e \in CPU, e # d PROVE cur'[e] # cur'[d]
    <3>1. CASE e = c
      <4>1. cur'[c] = c /\ c \notin Threads
        BY <1>10, <1>11, Zenon
      <4>2. QED
        BY <3>1, <4>1, Zenon
    <3>2. CASE e # c
      BY <1>11, <2>1, <2>2, <2>4, <3>2, Zenon
    <3>3. QED
      BY <3>1, <3>2, Zenon
  <2>5. QED
    BY <2>3, <2>4, Zenon
<1>18. Types' /\ LocksOK'
  BY <1>7, <1>11, Parts, Zenon DEF Types, LocksOK
<1>19. QED
  BY <1>14, <1>15, <1>16, <1>17, <1>18, Zenon DEF SpinInv

\* swtch() of scheduler(): the thread takes the CPU over with its lock, or the round
\* goes on when the thread is not RUNNABLE.
LEMMA InvSwtch == ASSUME SpinInv, NEW c \in CPU, Swtch(c) PROVE SpinInv'
<1>1. PICK o \in Step, s \in Shape, m \in Shape :
        /\ o = Head(todo[cur[c]]) /\ o.op = "swtch" /\ o.arg = arg(c)
        /\ Now(c, s) /\ Does(cur[c], o, s, m) /\ Leads(cur[c], Tail(todo[cur[c]]), m, End(cur[c]))
  BY AtStep, Zenon DEF Swtch
<1>2. PICK t, q : t = arg(c) /\ q = Tail(todo[cur[c]])
  BY Zenon
<1>3. cur[c] \in CPU /\ t \in Threads /\ s = shape(1, {t}, {t}, s.i) /\ m = Handed(t)
  BY <1>1, <1>2, Zenon DEF Does
<1>4. s.n = 1 /\ s.h = {t} /\ s.w = {t}
  BY <1>3, PartsOf
<1>5. /\ todo \in [CPU \cup Threads -> Seq(Step)] /\ cur \in [CPU -> CPU \cup Threads] /\ runnable \in [Threads -> BOOLEAN]
      /\ \A d \in CPU : cur[d] \in Threads \cup {d} /\ d \notin Threads
  BY SpinAssumption, Parts, Zenon DEF Types
<1>6. cur[c] = c /\ c \notin Threads /\ c # t /\ t \in Lock
  BY <1>3, <1>5, Zenon DEF Lock
<1>7. /\ todo' = [todo EXCEPT ![c] = q]
      /\ locked' = locked /\ owner' = owner /\ sie' = sie /\ noff' = noff /\ intena' = intena
      /\ panicked' = panicked /\ held' = held
  BY <1>2, <1>6, Zenon DEF Swtch, finish, running
<1>8. Handed(t) \in Shape /\ Handed(t).n = 1 /\ Handed(t).h = {t} /\ Handed(t).w = {t} /\ Handed(t).i = {0, 1}
  <2>1. {0, 1} \in SUBSET {0, 1}
    OBVIOUS
  <2>2. Handed(t) \in Shape
    BY <1>6, <2>1, ShapesIn, Zenon DEF Handed, with
  <2>3. QED
    BY <2>2 DEF Handed, shape
<1>9. Others(c) /\ Now(c, Handed(t))'
  <2>1. noff[c] = 1 /\ 1 # 0 /\ held[c] = {t} /\ {l \in Lock : owner[l] = c} = {t} /\ intena[c] \in {0, 1}
    BY <1>1, <1>4, Parts DEF Now
  <2>2. Others(c)
    BY <1>7, Zenon DEF Others
  <2>3. Now(c, Handed(t))'
    BY <1>7, <1>8, <2>1, Zenon DEF Now
  <2>4. QED
    BY <2>2, <2>3, Zenon
<1>10. Leads(c, q, Handed(t), End(c))
  BY <1>1, <1>2, <1>3, <1>6
<1>11. CASE runnable[t]
  <2>1. cur' = [cur EXCEPT ![c] = t] /\ runnable' = [runnable EXCEPT ![t] = FALSE]
    BY <1>2, <1>11, Zenon DEF Swtch
  <2>2. /\ todo' \in [CPU \cup Threads -> Seq(Step)] /\ todo'[c] = q /\ \A x \in CPU \cup Threads : x # c => todo'[x] = todo[x]
    <3>1. q \in Seq(Step)
      BY <1>10, Zenon DEF Leads
    <3>2. QED
      BY <1>5, <1>7, <3>1, Zenon
  <2>3. /\ cur' \in [CPU -> CPU \cup Threads] /\ cur'[c] = t /\ \A d \in CPU : d # c => cur'[d] = cur[d]
        /\ runnable' \in [Threads -> BOOLEAN] /\ ~ runnable'[t] /\ \A x \in Threads : x # t => runnable'[x] = runnable[x]
    BY <1>3, <1>5, <2>1, Zenon
  <2>4. \A d \in CPU : cur'[d] \in Threads \cup {d}
    BY <1>3, <1>5, <2>3, Zenon
  <2>5. \A d \in CPU : cur[d] # t /\ (d # c => cur[d] # c)
    <3>1. \A d \in CPU : cur[d] # t
      BY <1>3, <1>11, Zenon DEF SpinInv, OnePlace
    <3>2. \A d \in CPU : d # c => cur[d] # c
      BY <1>5, <1>6, Zenon
    <3>3. QED
      BY <3>1, <3>2, Zenon
  <2>6. Running'
    <3> SUFFICES ASSUME NEW d \in CPU
                 PROVE  \E u \in Shape : Now(d, u)' /\ Leads(cur'[d], todo'[cur'[d]], u, End(cur'[d]))
      BY Zenon DEF Running
    <3>1. CASE d = c
      <4>1. Leads(t, todo[t], Handed(t), End(t))
        BY <1>3, <1>11, Zenon DEF SpinInv, Waiting
      <4>2. cur'[c] = t /\ todo'[t] = todo[t]
        BY <1>3, <1>6, <2>2, <2>3, Zenon
      <4>3. Leads(cur'[c], todo'[cur'[c]], Handed(t), End(cur'[c]))
        BY <4>1, <4>2
      <4>4. QED
        BY <1>8, <1>9, <3>1, <4>3, Zenon
    <3>2. CASE d # c
      <4>1. PICK u \in Shape : Now(d, u) /\ Leads(cur[d], todo[cur[d]], u, End(cur[d]))
        BY Zenon DEF SpinInv, Running
      <4>2. Now(d, u)'
        BY <1>9, <3>2, <4>1, NowOther, Zenon
      <4>3. cur'[d] = cur[d] /\ todo'[cur[d]] = todo[cur[d]]
        <5>1. cur[d] \in CPU \cup Threads /\ cur[d] # c
          BY <1>5, <2>5, <3>2, Zenon
        <5>2. QED
          BY <2>2, <2>3, <3>2, <5>1, Zenon
      <4>4. QED
        BY <4>1, <4>2, <4>3, Zenon
    <3>3. QED
      BY <3>1, <3>2, Zenon
  <2>7. Parked'
    <3> SUFFICES ASSUME NEW d \in CPU, cur'[d] \in Threads PROVE Leads(d, todo'[d], Handed(cur'[d]), End(d))
      BY Zenon DEF Parked
    <3>1. CASE d = c
      <4>1. cur'[c] = t /\ todo'[c] = q
        BY <2>2, <2>3, Zenon
      <4>2. QED
        BY <1>10, <3>1, <4>1
    <3>2. CASE d # c
      <4>1. cur'[d] = cur[d] /\ todo'[d] = todo[d]
        BY <2>2, <2>3, <3>2, Zenon
      <4>2. QED
        BY <4>1, Zenon DEF SpinInv, Parked
    <3>3. QED
      BY <3>1, <3>2, Zenon
  <2>8. Waiting'
    <3> SUFFICES ASSUME NEW x \in Threads, runnable'[x] PROVE Leads(x, todo'[x], Handed(x), End(x))
      BY Zenon DEF Waiting
    <3>1. x # t
      BY <2>3, Zenon
    <3>2. x # c
      BY <1>6, Zenon
    <3>3. runnable[x] /\ todo'[x] = todo[x]
      BY <2>2, <2>3, <3>1, <3>2, Zenon
    <3>4. QED
      BY <3>3, Zenon DEF SpinInv, Waiting
  <2>9. OnePlace'
    <3> SUFFICES ASSUME NEW d \in CPU, cur'[d] \in Threads
                 PROVE  ~ runnable'[cur'[d]] /\ \A e \in CPU : e # d => cur'[e] # cur'[d]
      BY Zenon DEF OnePlace
    <3>1. CASE d = c
      BY <2>3, <2>5, <3>1, Zenon
    <3>2. CASE d # c
      <4>1. cur'[d] = cur[d] /\ cur[d] # t /\ cur[d] \in Threads
        BY <2>3, <2>5, <3>2, Zenon
      <4>2. ~ runnable[cur[d]] /\ \A e \in CPU : e # d => cur[e] # cur[d]
        BY <4>1, Zenon DEF SpinInv, OnePlace
      <4>3. ~ runnable'[cur[d]]
        BY <2>3, <4>1, <4>2, Zenon
      <4>4. \A e \in CPU : e # d => cur'[e] # cur[d]
        BY <2>3, <4>1, <4>2, Zenon
      <4>5. QED
        BY <4>1, <4>3, <4>4, Zenon
    <3>3. QED
      BY <3>1, <3>2, Zenon
  <2>10. Types' /\ LocksOK'
    <3>1. Types'
      BY <1>7, <2>2, <2>3, <2>4, Parts, Zenon DEF Types
    <3>2. LocksOK'
      BY <1>7, SameLocks, Zenon
    <3>3. QED
      BY <3>1, <3>2, Zenon
  <2>11. QED
    BY <2>6, <2>7, <2>8, <2>9, <2>10, Zenon DEF SpinInv
<1>12. CASE ~ runnable[t]
  <2>1. cur' = cur /\ runnable' = runnable
    BY <1>2, <1>12, Zenon DEF Swtch
  <2>2. todo' = [todo EXCEPT ![cur[c]] = q] /\ Leads(cur[c], q, Handed(t), End(cur[c]))
    BY <1>6, <1>7, <1>10
  <2>3. Contexts' /\ todo' \in [CPU \cup Threads -> Seq(Step)]
    BY <1>9, <2>1, <2>2, LocalStep, Zenon
  <2>4. Types' /\ LocksOK'
    BY <1>7, <2>1, <2>3, Parts, Zenon DEF Types, LocksOK
  <2>5. QED
    BY <2>3, <2>4, Zenon DEF SpinInv, Contexts
<1>13. QED
  BY <1>11, <1>12, Zenon

\* Every step keeps the invariant.
LEMMA SpinInvNext == SpinInv /\ [Next]_vars => SpinInv'
<1> SUFFICES ASSUME SpinInv, [Next]_vars PROVE SpinInv'
  OBVIOUS
<1>1. CASE Next
  <2>1. PICK c \in CPU :
          \/ IntrGet(c) \/ IntrOffCount(c) \/ PopOff(c)
          \/ Swap(c) \/ SetCpu(c) \/ ClearCpu(c) \/ Unlock(c)
          \/ Sched(c) \/ Resume(c) \/ Swtch(c) \/ WakeNext(c) \/ SetIntr(c)
          \/ Timer(c) \/ Call(c)
    BY <1>1, Zenon DEF Next
  <2>2. CASE IntrGet(c) \/ IntrOffCount(c) \/ PopOff(c)
    BY <2>2, InvIntrGet, InvIntrOffCount, InvPopOff, Zenon
  <2>3. CASE Swap(c) \/ SetCpu(c) \/ ClearCpu(c) \/ Unlock(c)
    BY <2>3, InvSwap, InvSetCpu, InvClearCpu, InvUnlock, Zenon
  <2>4. CASE Sched(c) \/ Resume(c) \/ Swtch(c) \/ WakeNext(c) \/ SetIntr(c)
    BY <2>4, InvSched, InvResume, InvSwtch, InvWakeNext, InvSetIntr, Zenon
  <2>5. CASE Timer(c) \/ Call(c)
    BY <2>5, InvTimer, InvCall, Zenon
  <2>6. QED
    BY <2>1, <2>2, <2>3, <2>4, <2>5, Zenon
<1>2. CASE vars' = vars
  <2>1. /\ locked' = locked /\ owner' = owner /\ cur' = cur /\ sie' = sie /\ noff' = noff /\ intena' = intena
        /\ todo' = todo /\ runnable' = runnable /\ panicked' = panicked /\ held' = held
    BY <1>2, Zenon DEF vars
  <2>2. Types' /\ LocksOK' /\ Parked' /\ Waiting' /\ OnePlace'
    BY <2>1, Zenon DEF SpinInv, Types, LocksOK, Parked, Waiting, OnePlace
  <2>3. Running'
    BY <2>1, Zenon DEF SpinInv, Running, Now
  <2>4. QED
    BY <2>2, <2>3, Zenon DEF SpinInv
<1>3. QED
  BY <1>1, <1>2, Zenon

\* The invariant of every behaviour.
LEMMA SpinInvAlways == Spec => []SpinInv
<1>1. QED
  BY SpinInvInit, SpinInvNext, PTL DEF Spec

\* The invariant gives the exclusion of locks and handlers.
LEMMA SpinInvLocks == SpinInv => LocksExclude
<1> SUFFICES ASSUME SpinInv PROVE LocksExclude
  OBVIOUS
<1>1. noff \in [CPU -> 0..3]
  <2>1. noff \in [CPU -> Int] /\ \A c \in CPU : noff[c] \in 0..3
    BY Parts, Zenon DEF Types
  <2>2. QED
    BY <2>1, Zenon
<1>2. TypeOK /\ NoPanic
  BY <1>1, Parts, Zenon DEF Types, TypeOK, NoPanic
<1>3. OneHolder
  <2>1. \A c, d \in CPU : c # d => held[c] \cap held[d] = {}
    BY Parts, Zenon DEF LocksOK
  <2>2. \A l \in Lock : owner[l] \in CPU \cup {None}
    BY Parts, Zenon DEF Types
  <2>3. QED
    BY <2>1, <2>2, Parts, Zenon DEF OneHolder
<1>4. NoInterruptWhileHolding
  <2> SUFFICES ASSUME NEW c \in CPU, held[c] # {} PROVE sie[c] = 0 /\ noff[c] > 0
    BY Zenon DEF NoInterruptWhileHolding
  <2>1. noff[c] # 0 /\ noff[c] \in 0..3 /\ sie[c] # 1 /\ sie[c] \in {0, 1}
    BY Parts, Zenon
  <2>2. QED
    BY <2>1
<1>5. QED
  BY <1>2, <1>3, <1>4, Zenon DEF LocksExclude

\* The invariant gives that a thread finds interrupts on when its call is over.
LEMMA SpinInvRestored == SpinInv => InterruptsRestored
<1> SUFFICES ASSUME SpinInv, NEW c \in CPU, cur[c] \in Threads, todo[cur[c]] = <<>> PROVE sie[c] = 1 /\ noff[c] = 0
  BY Zenon DEF InterruptsRestored
<1>1. PICK s \in Shape : Now(c, s) /\ Leads(cur[c], todo[cur[c]], s, End(cur[c]))
  BY Zenon DEF SpinInv, Running
<1>2. Leads(cur[c], <<>>, s, End(cur[c]))
  BY <1>1
<1>3. s = On
  BY <1>2, LeadsEnd, Zenon DEF End
<1>4. s.n = 0 /\ s.i = {1}
  BY <1>3, PartsOf DEF On
<1>5. QED
  BY <1>1, <1>4, Zenon DEF Now

\* For any number of CPUs and threads, under any preemption by the timer: no lock is
\* held by two CPUs, a CPU that holds one has interrupts off, holding() is true only of
\* the CPU that has the lock, and no panic of acquire(), release(), pop_off() and
\* sched() is reached.
THEOREM SpinSound == Spec => []LocksExclude
<1>1. QED
  BY SpinInvAlways, SpinInvLocks, PTL

\* For any number of CPUs and threads: a thread whose call took and released its locks,
\* slept and was preempted, on whatever CPUs, ends it with interrupts on.
THEOREM SpinRestores == Spec => []InterruptsRestored
<1>1. QED
  BY SpinInvAlways, SpinInvRestored, PTL
=============================================================================
