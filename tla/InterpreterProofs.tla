-------------------------- MODULE InterpreterProofs --------------------------
(***************************************************************************)
(* The interpreter is right for every definition: any tree of blocks, of   *)
(* any depth and width.  The proofs go by the calls and the returns of the *)
(* walk: StackInv says that the active blocks form call stacks, HeldInv    *)
(* what the errors that are kept stand for, and OutcomeInv what every      *)
(* result says of the blocks inside; a result is accounted for by the      *)
(* results of the children, whatever the tree.                             *)
(*                                                                         *)
(* The last section is about the reporter that the interpreter tells of    *)
(* its steps, for any number of parallel branches.                         *)
(***************************************************************************)
EXTENDS Interpreter, RunReporter, TLAPS

Wrong == {"fail", "retry"}

(* The children a block may have called so far. *)
Begun(b, k) == CASE Kind[b] = "par" -> at[b] # 0
                 [] Kind[b] = "cond" -> k = at[b]
                 [] OTHER -> k <= at[b]

(* Whoever runs was called by one who waits for it. *)
StackInv ==
    /\ \A b \in Blocks : res[b] = "none" <=> st[b] # "done"
    /\ \A b \in Blocks : st[b] = "idle" => at[b] = 0 /\ held[b] = "none"
    /\ \A c \in Blocks : \A a \in Above[c] :
          /\ st[c] = "active" => st[a] = "active"
          /\ st[a] = "idle" => st[c] = "idle"
    /\ \A b \in Blocks : \A k \in DOMAIN Kids[b] :
          /\ st[Kids[b][k]] # "idle" => Begun(b, k)
          /\ Kind[b] # "par" /\ st[Kids[b][k]] = "active" => k = at[b]
          /\ Kind[b] = "seq" /\ k < at[b] => res[Kids[b][k]] = "ok"

(* A failure inside b that began at c. *)
Origin(c, b) == /\ c \in Blocks /\ In(c, b) /\ res[c] \in Wrong
                /\ Kind[c] \in {"cond", "sub", "set", "http", "fail"}

(* The errors that are kept while handlers run or branches end. *)
HeldAt(b) ==
    /\ Kind[b] \in {"try", "run", "sub"} /\ at[b] = 2 =>
          held[b] \in Wrong /\ \E c \in Blocks : Origin(c, Kids[b][1])
    /\ Kind[b] \in {"run", "sub"} /\ at[b] = 2 =>
          held[b] = "fail" /\ (st[b] = "done" => res[b] = "fail")
    /\ Kind[b] = "par" /\ held[b] # "none" =>
          /\ Failure(held[b])
          /\ \E c \in Children(b) : res[c] = held[b]
          /\ held[b] = "ctx" => Cancelled(b)

HeldInv == \A b \in Blocks : HeldAt(b)

(* The step that failed was handled, or did not matter any more. *)
Excused(l) ==
    \/ \E t \in Above[l] : Kind[t] = "try" /\ at[t] = 2 /\ In(l, Kids[t][1])
    \/ \E e \in Leaves : res[e] = "end"
    \/ \E r \in Above[l] : Kind[r] \in {"run", "sub"} /\ In(l, Kids[r][2])

(* What the result r of b says of the rest. *)
Accounts(b, r) ==
    /\ r = "ctx" => Cancelled(b)
    /\ r = "end" => \E e \in Leaves : res[e] = "end"
    /\ r = "timeout" => \E h \in Leaves : res[h] = "timeout"
    /\ r \in Wrong => \E c \in Blocks : Origin(c, b)
    /\ r = "ok" => \A l \in Leaves : In(l, b) /\ res[l] \in Wrong => Excused(l)

Accounted(b) == Accounts(b, res[b])

OutcomeInv == \A b \in Blocks : Accounted(b)

WalkInv == TypeOK /\ StackInv /\ HeldInv /\ OutcomeInv

-----------------------------------------------------------------------------
(* The tree. *)

(* A child has its parent and the parent's ancestors above it. *)
LEMMA KidFacts ==
  ASSUME NEW b \in Blocks, NEW k \in DOMAIN Kids[b]
  PROVE  /\ Kids[b][k] \in Blocks /\ Above[Kids[b][k]] = Above[b] \cup {b}
         /\ Kids[b][k] # b /\ Kids[b][k] \notin Above[b] /\ b \notin Leaves
         /\ k \in 1..Len(Kids[b])
  <1>1. Kids[b] \in Seq(Blocks)
    BY TreeAssumption
  <1>2. Kids[b][k] \in Blocks /\ k \in 1..Len(Kids[b]) /\ Kids[b] # <<>>
    BY <1>1
  <1>3. Above[Kids[b][k]] = Above[b] \cup {b}
    BY TreeAssumption
  <1>4. Kids[b][k] \notin Above[Kids[b][k]]
    BY <1>2, TreeAssumption
  <1> QED BY <1>2, <1>3, <1>4 DEF Leaves

(* A block is the child of one parent, in one place. *)
LEMMA OneParent ==
  ASSUME NEW b \in Blocks, NEW k \in DOMAIN Kids[b],
         NEW d \in Blocks, NEW j \in DOMAIN Kids[d], Kids[b][k] = Kids[d][j]
  PROVE  b = d /\ k = j
  <1>1. Above[b] \cup {b} = Above[d] \cup {d}
    <2>1. Above[Kids[b][k]] = Above[b] \cup {b}
      BY KidFacts
    <2>2. Above[Kids[d][j]] = Above[d] \cup {d}
      BY KidFacts
    <2> QED BY <2>1, <2>2
  <1>2. b = d
    <2> SUFFICES ASSUME b # d PROVE FALSE
      OBVIOUS
    <2>1. b \in Above[d] /\ d \in Above[b]
      BY <1>1
    <2>2. Above[d] \subseteq Above[b]
      BY <2>1, TreeAssumption
    <2> QED BY <2>1, <2>2, TreeAssumption
  <1> QED BY <1>2, TreeAssumption

(* What is inside a child is inside its parent. *)
LEMMA InParent ==
  ASSUME NEW b \in Blocks, NEW k \in DOMAIN Kids[b], NEW c \in Blocks, In(c, Kids[b][k])
  PROVE  In(c, b) /\ b \in Above[c]
  <1>1. b \in Above[Kids[b][k]] /\ Kids[b][k] \in Blocks
    <2>1. Above[Kids[b][k]] = Above[b] \cup {b} /\ Kids[b][k] \in Blocks
      BY KidFacts
    <2> QED BY <2>1
  <1>2. CASE Kids[b][k] \in Above[c]
    <2>1. Above[Kids[b][k]] \subseteq Above[c]
      BY <1>2, TreeAssumption
    <2> QED BY <1>1, <2>1 DEF In
  <1> QED BY <1>1, <1>2 DEF In

(* What is inside a block and has run is inside a child that was called. *)
LEMMA InsideKid ==
  ASSUME WalkInv, NEW b \in Blocks, NEW l \in Blocks, b \in Above[l], st[l] # "idle"
  PROVE  \E j \in DOMAIN Kids[b] : In(l, Kids[b][j]) /\ st[Kids[b][j]] # "idle" /\ Begun(b, j)
  <1>1. PICK j \in DOMAIN Kids[b] : In(l, Kids[b][j])
    BY TreeAssumption
  <1>2. st[Kids[b][j]] # "idle"
    BY <1>1, KidFacts DEF In, WalkInv, StackInv
  <1> QED BY <1>1, <1>2 DEF WalkInv, StackInv

(* A block that runs inside another has that one's child running, too. *)
LEMMA ActiveKid ==
  ASSUME WalkInv, NEW b \in Blocks, NEW c \in Blocks, b \in Above[c], st[c] = "active"
  PROVE  \E j \in DOMAIN Kids[b] : st[Kids[b][j]] = "active"
  <1>1. PICK j \in DOMAIN Kids[b] : In(c, Kids[b][j])
    BY TreeAssumption
  <1> QED BY <1>1, KidFacts DEF In, WalkInv, StackInv

-----------------------------------------------------------------------------
(* What a step may change: a result is given to an active block, and an     *)
(* error that is kept, a catch that was entered and a cancellation stay.    *)
Grows ==
    /\ \A b \in Blocks : res'[b] = res[b] \/ (st[b] = "active" /\ res[b] = "none")
    /\ \A b \in Blocks : Kind[b] = "par" /\ held[b] # "none" => held'[b] = held[b]
    /\ \A b \in Blocks : Kind[b] = "try" /\ at[b] = 2 => at'[b] = 2
    /\ cancelled => cancelled'

(* So what was found out stays true. *)
LEMMA GrowsKeeps ==
  ASSUME WalkInv, Grows
  PROVE  /\ \A b \in Blocks : Cancelled(b) => Cancelled(b)'
         /\ \A l \in Blocks : Excused(l) => Excused(l)'
         /\ \A b, c \in Blocks : Origin(c, b) => Origin(c, b)'
         /\ (\E e \in Leaves : res[e] = "end") => \E e \in Leaves : res'[e] = "end"
         /\ (\E h \in Leaves : res[h] = "timeout") => \E h \in Leaves : res'[h] = "timeout"
  <1>1. \A b \in Blocks : Above[b] \subseteq Blocks
    BY TreeAssumption
  <1>2. \A b \in Blocks : Cancelled(b) => Cancelled(b)'
    BY <1>1 DEF Grows, Cancelled
  <1>3. (\E e \in Leaves : res[e] = "end") => \E e \in Leaves : res'[e] = "end"
    BY DEF Grows, Leaves
  <1>6. (\E h \in Leaves : res[h] = "timeout") => \E h \in Leaves : res'[h] = "timeout"
    BY DEF Grows, Leaves
  <1>4. \A l \in Blocks : Excused(l) => Excused(l)'
    BY <1>1, <1>3 DEF Grows, Excused
  <1>5. \A b, c \in Blocks : Origin(c, b) => Origin(c, b)'
    BY DEF Grows, Origin, Wrong
  <1> QED BY <1>2, <1>3, <1>4, <1>5, <1>6

(* The result of a block that was not given one in this step. *)
LEMMA OutcomeKeeps ==
  ASSUME WalkInv, Grows, NEW b \in Blocks, res'[b] = res[b]
  PROVE  Accounted(b)'
  <1>1. Accounted(b)
    BY DEF WalkInv, OutcomeInv
  <1>2. ASSUME res[b] = "ok", NEW l \in Leaves, In(l, b), res'[l] \in Wrong
        PROVE  Excused(l)'
    <2>1. l \in Blocks
      BY DEF Leaves
    <2>2. st[b] = "done"
      BY <1>2 DEF WalkInv, StackInv
    <2>3. res'[l] = res[l]
      BY <1>2, <2>1, <2>2 DEF Grows, In, WalkInv, StackInv
    <2> QED BY <1>1, <1>2, <2>1, <2>3, GrowsKeeps DEF Accounted, Accounts
  <1>3. res[b] = "ctx" => Cancelled(b)'
    BY <1>1, GrowsKeeps DEF Accounted, Accounts
  <1>4. res[b] = "end" => \E e \in Leaves : res'[e] = "end"
    BY <1>1, GrowsKeeps DEF Accounted, Accounts
  <1>5. res[b] \in Wrong => \E c \in Blocks : Origin(c, b)'
    BY <1>1, GrowsKeeps DEF Accounted, Accounts
  <1>6. res[b] = "timeout" => \E h \in Leaves : res'[h] = "timeout"
    BY <1>1, GrowsKeeps DEF Accounted, Accounts
  <1> QED BY <1>2, <1>3, <1>4, <1>5, <1>6 DEF Accounted, Accounts

(* The error kept by a block that this step leaves where it is. *)
LEMMA HeldKeeps ==
  ASSUME WalkInv, Grows, NEW b \in Blocks, at'[b] = at[b], held'[b] = held[b],
         Kind[b] \in {"run", "sub"} /\ at[b] = 2 /\ st'[b] = "done" => res'[b] = "fail"
  PROVE  HeldAt(b)'
  <1>1. HeldAt(b)
    BY DEF WalkInv, HeldInv
  <1>2. Kind[b] \in {"try", "run", "sub"} /\ at[b] = 2 => \E c \in Blocks : Origin(c, Kids[b][1])'
    <2>1. Kind[b] \in {"try", "run", "sub"} => Kids[b][1] \in Blocks
      BY ShapeAssumption, TreeAssumption
    <2> QED BY <1>1, <2>1, GrowsKeeps DEF HeldAt
  <1>3. Kind[b] = "par" /\ held[b] # "none" => \E c \in Children(b) : res'[c] = held[b]
    <2> SUFFICES ASSUME Kind[b] = "par", held[b] # "none"
                 PROVE  \E c \in Children(b) : res'[c] = held[b]
      OBVIOUS
    <2>1. PICK c \in Children(b) : res[c] = held[b]
      BY <1>1 DEF HeldAt
    <2>2. c \in Blocks
      BY KidFacts DEF Children
    <2> QED BY <2>1, <2>2 DEF Grows
  <1>4. Kind[b] = "par" /\ held[b] # "none" /\ held[b] = "ctx" => Cancelled(b)'
    BY <1>1, GrowsKeeps DEF HeldAt
  <1> QED BY <1>1, <1>2, <1>3, <1>4 DEF HeldAt

-----------------------------------------------------------------------------
(* The run begins. *)
LEMMA WalkInit == Init => WalkInv
  <1> SUFFICES ASSUME Init PROVE WalkInv
    OBVIOUS
  <1>1. \A b \in Blocks : 0 \in 0 .. Len(Kids[b]) /\ Kids[b] \in Seq(Blocks)
    BY TreeAssumption
  <1>2. TypeOK
    BY <1>1 DEF Init, TypeOK, Results
  <1>3. \A b \in Blocks : st[b] = (IF b = Top THEN "active" ELSE "idle")
                          /\ at[b] = 0 /\ res[b] = "none" /\ held[b] = "none"
    BY DEF Init
  <1>4. ASSUME NEW c \in Blocks, NEW a \in Above[c] PROVE c # Top /\ a \in Blocks
    BY TreeAssumption
  <1>5. ASSUME NEW b \in Blocks, NEW k \in DOMAIN Kids[b]
        PROVE  st[Kids[b][k]] = "idle" /\ ~(k < at[b])
    <2>1. Kids[b][k] \in Blocks /\ b \in Above[Kids[b][k]] /\ k \in 1..Len(Kids[b])
      BY KidFacts
    <2>2. k \in Nat /\ k > 0
      BY <2>1, <1>1
    <2> QED BY <1>3, <1>4, <2>1, <2>2
  <1>6. StackInv
    BY <1>3, <1>4, <1>5 DEF StackInv
  <1>7. HeldInv
    BY <1>3 DEF HeldInv, HeldAt
  <1>8. OutcomeInv
    BY <1>3 DEF OutcomeInv, Accounted, Accounts, Wrong
  <1> QED BY <1>2, <1>6, <1>7, <1>8 DEF WalkInv

(* A block returns, with a result that accounts for what is inside it or    *)
(* that begins there.                                                       *)
Due(b, r) ==
    /\ r = "ctx" => Cancelled(b)
    /\ r = "end" => b \in Leaves \/ \E e \in Leaves : res[e] = "end"
    /\ r = "timeout" => b \in Leaves \/ \E h \in Leaves : res[h] = "timeout"
    /\ r \in Wrong => Kind[b] \in {"cond", "sub", "set", "http", "fail"} \/ \E c \in Blocks : Origin(c, b)
    /\ r = "ok" => \A l \in Leaves : b \in Above[l] /\ res[l] \in Wrong => Excused(l)

(* Whatever the kind of block, such a return preserves the invariant. *)
LEMMA ReturnStep ==
  ASSUME WalkInv, NEW b \in Blocks, st[b] = "active", NEW r \in Results, Return(b, r),
         \A k \in DOMAIN Kids[b] : st[Kids[b][k]] # "active",
         Kind[b] \in {"run", "sub"} /\ at[b] = 2 => r = "fail", Due(b, r)
  PROVE  WalkInv'
  <1>1. /\ st'[b] = "done" /\ res'[b] = r /\ r # "none" /\ res[b] = "none"
        /\ \A c \in Blocks \ {b} : st'[c] = st[c] /\ res'[c] = res[c]
        /\ UNCHANGED <<at, held, cancelled>>
    BY DEF Return, WalkInv, TypeOK, StackInv, Results
  <1>2. TypeOK'
    BY DEF Return, WalkInv, TypeOK
  <1>3. Grows
    BY <1>1 DEF Grows
  <1>4. StackInv'
    <2>1. ASSUME NEW c \in Blocks, NEW a \in Above[c]
          PROVE  /\ st'[c] = "active" => st'[a] = "active"
                 /\ st'[a] = "idle" => st'[c] = "idle"
      <3>1. a \in Blocks
        BY TreeAssumption
      <3>2. st[c] = "active" => a # b
        BY ActiveKid
      <3> QED BY <1>1, <3>1, <3>2 DEF WalkInv, StackInv
    <2>2. ASSUME NEW d \in Blocks, NEW k \in DOMAIN Kids[d]
          PROVE  /\ st'[Kids[d][k]] # "idle" => Begun(d, k)'
                 /\ Kind[d] # "par" /\ st'[Kids[d][k]] = "active" => k = at'[d]
                 /\ Kind[d] = "seq" /\ k < at'[d] => res'[Kids[d][k]] = "ok"
      <3>1. Kids[d][k] \in Blocks
        BY KidFacts
      <3>2. st[Kids[d][k]] # "idle" => Begun(d, k)'
        BY <1>1 DEF WalkInv, StackInv, Begun
      <3>3. Kind[d] = "seq" /\ k < at[d] => res[Kids[d][k]] = "ok" /\ st[Kids[d][k]] = "done"
        BY <3>1 DEF WalkInv, StackInv
      <3> QED BY <1>1, <3>1, <3>2, <3>3 DEF WalkInv, StackInv
    <2>3. \A c \in Blocks : (res'[c] = "none" <=> st'[c] # "done")
                            /\ (st'[c] = "idle" => at'[c] = 0 /\ held'[c] = "none")
      BY <1>1 DEF WalkInv, StackInv
    <2> QED BY <2>1, <2>2, <2>3 DEF StackInv
  <1>5. HeldInv'
    <2> SUFFICES ASSUME NEW c \in Blocks PROVE HeldAt(c)'
      BY DEF HeldInv
    <2>1. Kind[c] \in {"run", "sub"} /\ at[c] = 2 /\ st'[c] = "done" => res'[c] = "fail"
      BY <1>1 DEF WalkInv, HeldInv, HeldAt
    <2> QED BY <1>1, <1>3, <2>1, HeldKeeps
  <1>6. Accounted(b)'
    <2>1. r = "ctx" => Cancelled(b)'
      BY <1>3, GrowsKeeps DEF Due
    <2>2. r = "end" => \E e \in Leaves : res'[e] = "end"
      BY <1>1, <1>3, GrowsKeeps DEF Due
    <2>5. r = "timeout" => \E h \in Leaves : res'[h] = "timeout"
      BY <1>1, <1>3, GrowsKeeps DEF Due
    <2>3. r \in Wrong => \E c \in Blocks : Origin(c, b)'
      <3>1. r \in Wrong /\ Kind[b] \in {"cond", "sub", "set", "http", "fail"} => Origin(b, b)'
        BY <1>1 DEF Origin, In
      <3> QED BY <1>3, <3>1, GrowsKeeps DEF Due
    <2>4. ASSUME r = "ok", NEW l \in Leaves, In(l, b), res'[l] \in Wrong PROVE Excused(l)'
      <3>1. l \in Blocks /\ l # b
        BY <1>1, <2>4 DEF Leaves, Wrong
      <3>2. b \in Above[l] /\ res[l] \in Wrong
        BY <1>1, <2>4, <3>1 DEF In
      <3> QED BY <1>3, <2>4, <3>1, <3>2, GrowsKeeps DEF Due
    <2> QED BY <1>1, <2>1, <2>2, <2>3, <2>4, <2>5 DEF Accounted, Accounts
  <1>7. OutcomeInv'
    BY <1>1, <1>3, <1>6, OutcomeKeeps DEF OutcomeInv
  <1> QED BY <1>2, <1>4, <1>5, <1>7 DEF WalkInv

(* A block calls its next child, keeping an error or none. *)
LEMMA CallStep ==
  ASSUME WalkInv, NEW b \in Blocks, st[b] = "active", Kind[b] # "par", Kind[b] = "try" => at[b] # 2,
         NEW k \in DOMAIN Kids[b], Kind[b] = "cond" => at[b] = 0, Kind[b] # "cond" => k = at[b] + 1,
         \A j \in DOMAIN Kids[b] : st[Kids[b][j]] # "active",
         Kind[b] = "seq" /\ at[b] > 0 => res[Kids[b][at[b]]] = "ok",
         Call(b, k), NEW e \in Results \cup {"none"}, held' = [held EXCEPT ![b] = e],
         HeldAt(b)'
  PROVE  WalkInv'
  <1> DEFINE kid == Kids[b][k]
  <1>1. /\ kid \in Blocks /\ kid # b /\ Above[kid] = Above[b] \cup {b} /\ kid \notin Above[kid]
        /\ k \in 1..Len(Kids[b]) /\ Len(Kids[b]) \in Nat
    BY KidFacts, TreeAssumption
  <1>2. at[b] \in Nat /\ k \in Nat /\ k > 0
    BY <1>1 DEF WalkInv, TypeOK
  <1>3. st[kid] = "idle" /\ res[kid] = "none" /\ at[kid] = 0
    <2>1. ~Begun(b, k)
      BY <1>2 DEF Begun
    <2> QED BY <1>1, <2>1 DEF WalkInv, StackInv
  <1>4. /\ st'[kid] = "active" /\ \A c \in Blocks \ {kid} : st'[c] = st[c]
        /\ at'[b] = k /\ \A c \in Blocks \ {b} : at'[c] = at[c] /\ held'[c] = held[c]
        /\ UNCHANGED <<res, cancelled>>
    BY <1>1 DEF Call, WalkInv, TypeOK
  <1>5. TypeOK'
    <2>1. st' \in [Blocks -> {"idle", "active", "done"}]
      BY <1>1 DEF Call, WalkInv, TypeOK
    <2>2. at' \in [Blocks -> Nat] /\ \A c \in Blocks : at'[c] \in 0..Len(Kids[c])
      BY <1>1, <1>2 DEF Call, WalkInv, TypeOK
    <2> QED BY <1>4, <2>1, <2>2 DEF WalkInv, TypeOK
  <1>6. Grows
    BY <1>4 DEF Grows
  <1>7. StackInv'
    <2>1. ASSUME NEW c \in Blocks, NEW a \in Above[c]
          PROVE  /\ st'[c] = "active" => st'[a] = "active"
                 /\ st'[a] = "idle" => st'[c] = "idle"
      <3>1. a \in Blocks
        BY TreeAssumption
      <3>2. \A x \in Above[kid] : st[x] = "active" /\ x # kid /\ x \in Blocks
        <4>1. \A x \in Above[b] : st[x] = "active" /\ x \in Blocks
          BY TreeAssumption DEF WalkInv, StackInv
        <4> QED BY <1>1, <4>1
      <3>3. CASE c = kid
        BY <1>4, <3>2, <3>3
      <3>4. CASE c # kid
        BY <1>3, <1>4, <3>1, <3>4 DEF WalkInv, StackInv
      <3> QED BY <3>3, <3>4
    <2>2. ASSUME NEW d \in Blocks, NEW j \in DOMAIN Kids[d]
          PROVE  /\ st'[Kids[d][j]] # "idle" => Begun(d, j)'
                 /\ Kind[d] # "par" /\ st'[Kids[d][j]] = "active" => j = at'[d]
                 /\ Kind[d] = "seq" /\ j < at'[d] => res'[Kids[d][j]] = "ok"
      <3>1. Kids[d][j] \in Blocks /\ j \in 1..Len(Kids[d]) /\ Len(Kids[d]) \in Nat
        BY KidFacts, TreeAssumption
      <3>2. j \in Nat /\ j > 0
        BY <3>1
      <3>3. CASE d # b
        <4>1. Kids[d][j] # kid
          BY <3>3, OneParent
        <4> QED BY <1>4, <3>1, <3>3, <4>1 DEF WalkInv, StackInv, Begun
      <3>4. CASE d = b /\ j = k
        BY <1>2, <1>4, <3>4 DEF Begun
      <3>5. CASE d = b /\ j # k
        <4>1. Kids[d][j] # kid
          BY <3>5, OneParent
        <4>2. st'[Kids[d][j]] = st[Kids[d][j]] /\ st[Kids[d][j]] # "active"
          BY <1>4, <3>1, <3>5, <4>1
        <4>3. st[Kids[d][j]] # "idle" => Begun(b, j)
          BY <3>5 DEF WalkInv, StackInv
        <4>4. Begun(b, j) => Begun(b, j)'
          BY <1>2, <1>4, <3>2 DEF Begun
        <4>5. Kind[d] = "seq" /\ j < at'[d] => j < at[b] \/ (j = at[b] /\ at[b] > 0)
          BY <1>2, <1>4, <3>2, <3>5
        <4>6. Kind[d] = "seq" /\ j < at'[d] => res[Kids[d][j]] = "ok"
          BY <3>5, <4>5 DEF WalkInv, StackInv
        <4> QED BY <1>4, <3>5, <4>2, <4>3, <4>4, <4>6
      <3> QED BY <3>3, <3>4, <3>5
    <2>3. \A c \in Blocks : (res'[c] = "none" <=> st'[c] # "done")
                            /\ (st'[c] = "idle" => at'[c] = 0 /\ held'[c] = "none")
      BY <1>1, <1>3, <1>4 DEF WalkInv, StackInv
    <2> QED BY <2>1, <2>2, <2>3 DEF StackInv
  <1>8. HeldInv'
    <2> SUFFICES ASSUME NEW c \in Blocks, c # b PROVE HeldAt(c)'
      BY DEF HeldInv
    <2>1. Kind[c] \in {"run", "sub"} /\ at[c] = 2 /\ st'[c] = "done" => res'[c] = "fail"
      BY <1>4 DEF WalkInv, HeldInv, HeldAt
    <2> QED BY <1>4, <1>6, <2>1, HeldKeeps
  <1>9. OutcomeInv'
    BY <1>4, <1>6, OutcomeKeeps DEF OutcomeInv
  <1> QED BY <1>5, <1>7, <1>8, <1>9 DEF WalkInv

(* A parallel block starts all of its branches. *)
LEMMA ForkStep ==
  ASSUME WalkInv, NEW b \in Blocks, RunParallel(b)
  PROVE  WalkInv'
  <1>1. /\ st[b] = "active" /\ Kind[b] = "par" /\ at[b] = 0
        /\ st' = [c \in Blocks |-> IF c \in Children(b) THEN "active" ELSE st[c]]
        /\ at' = [at EXCEPT ![b] = Len(Kids[b])]
        /\ UNCHANGED <<res, held, cancelled>>
    BY DEF RunParallel, Active, Starting
  <1>2. \A c \in Children(b) : /\ c \in Blocks /\ st[c] = "idle" /\ c # b
                               /\ Above[c] = Above[b] \cup {b}
    BY <1>1, KidFacts DEF Children, WalkInv, StackInv, Begun
  <1>3. Len(Kids[b]) \in Nat /\ Len(Kids[b]) \in 0..Len(Kids[b])
    BY TreeAssumption
  <1>4. TypeOK'
    BY <1>1, <1>3 DEF WalkInv, TypeOK
  <1>5. Grows
    BY <1>1 DEF Grows, WalkInv, TypeOK
  <1>6. \A c \in Blocks \ {b} : at'[c] = at[c]
    BY <1>1 DEF WalkInv, TypeOK
  <1>7. StackInv'
    <2>1. ASSUME NEW c \in Blocks, NEW a \in Above[c]
          PROVE  /\ st'[c] = "active" => st'[a] = "active"
                 /\ st'[a] = "idle" => st'[c] = "idle"
      <3>1. a \in Blocks
        BY TreeAssumption
      <3>2. CASE c \in Children(b)
        <4>1. st[a] = "active"
          BY <1>1, <1>2, <3>2 DEF WalkInv, StackInv
        <4> QED BY <1>1, <3>1, <3>2, <4>1
      <3>3. CASE c \notin Children(b)
        BY <1>1, <1>2, <3>1, <3>3 DEF WalkInv, StackInv
      <3> QED BY <3>2, <3>3
    <2>2. ASSUME NEW d \in Blocks, NEW j \in DOMAIN Kids[d]
          PROVE  /\ st'[Kids[d][j]] # "idle" => Begun(d, j)'
                 /\ Kind[d] # "par" /\ st'[Kids[d][j]] = "active" => j = at'[d]
                 /\ Kind[d] = "seq" /\ j < at'[d] => res'[Kids[d][j]] = "ok"
      <3>1. Kids[d][j] \in Blocks /\ j \in 1..Len(Kids[d]) /\ Len(Kids[d]) \in Nat
        BY KidFacts, TreeAssumption
      <3>2. CASE d # b
        <4>1. Kids[d][j] \notin Children(b)
          BY <3>2, OneParent DEF Children
        <4> QED BY <1>1, <1>6, <3>1, <3>2, <4>1 DEF WalkInv, StackInv, Begun
      <3>3. CASE d = b
        <4>1. at'[b] # 0
          BY <1>1, <3>1, <3>3 DEF WalkInv, TypeOK
        <4> QED BY <1>1, <3>3, <4>1 DEF Begun
      <3> QED BY <3>2, <3>3
    <2>3. \A c \in Blocks : (res'[c] = "none" <=> st'[c] # "done")
                            /\ (st'[c] = "idle" => at'[c] = 0 /\ held'[c] = "none")
      BY <1>1, <1>2, <1>6 DEF WalkInv, StackInv
    <2> QED BY <2>1, <2>2, <2>3 DEF StackInv
  <1>8. HeldInv'
    <2> SUFFICES ASSUME NEW c \in Blocks PROVE HeldAt(c)'
      BY DEF HeldInv
    <2>1. CASE c = b
      <3>1. held'[b] = held[b] /\ HeldAt(b)
        BY <1>1 DEF WalkInv, HeldInv
      <3>2. held[b] = "none" => HeldAt(b)'
        BY <1>1, <3>1 DEF HeldAt
      <3>3. held[b] # "none" => HeldAt(b)'
        <4> SUFFICES ASSUME held[b] # "none" PROVE HeldAt(b)'
          OBVIOUS
        <4>1. held[b] = "ctx" => Cancelled(b)'
          BY <1>1, <1>5, <3>1, GrowsKeeps DEF HeldAt
        <4> QED BY <1>1, <3>1, <4>1 DEF HeldAt
      <3> QED BY <2>1, <3>2, <3>3
    <2>2. CASE c # b
      <3>1. Kind[c] \in {"run", "sub"} /\ at[c] = 2 /\ st'[c] = "done" => res'[c] = "fail"
        BY <1>1 DEF WalkInv, HeldInv, HeldAt
      <3> QED BY <1>1, <1>5, <1>6, <2>2, <3>1, HeldKeeps
    <2> QED BY <2>1, <2>2
  <1>9. OutcomeInv'
    BY <1>1, <1>5, OutcomeKeeps DEF OutcomeInv
  <1> QED BY <1>4, <1>7, <1>8, <1>9 DEF WalkInv

-----------------------------------------------------------------------------
(* The kinds of blocks. *)

(* A block that goes on has no child running. *)
LEMMA NobodyRuns ==
  ASSUME WalkInv, NEW b \in Blocks, Kind[b] # "par", Starting(b) \/ Returned(b)
  PROVE  /\ \A j \in DOMAIN Kids[b] : st[Kids[b][j]] # "active"
         /\ at[b] \in Nat
         /\ Returned(b) => /\ at[b] \in DOMAIN Kids[b] /\ Child(b) = Kids[b][at[b]]
                           /\ Child(b) \in Blocks /\ st[Child(b)] = "done"
                           /\ res[Child(b)] \in Results
  <1>1. at[b] \in Nat /\ at[b] \in 0..Len(Kids[b]) /\ Kids[b] \in Seq(Blocks)
    BY TreeAssumption DEF WalkInv, TypeOK
  <1>2. Returned(b) => at[b] \in DOMAIN Kids[b]
    BY <1>1 DEF Returned
  <1>3. Returned(b) => Child(b) \in Blocks /\ st[Child(b)] = "done" /\ Child(b) = Kids[b][at[b]]
    BY <1>2, KidFacts DEF Returned, Child
  <1>4. ASSUME NEW j \in DOMAIN Kids[b], st[Kids[b][j]] = "active" PROVE FALSE
    <2>1. j = at[b] /\ j # 0
      BY <1>1, <1>4 DEF WalkInv, StackInv
    <2> QED BY <1>3, <1>4, <2>1 DEF Starting
  <1>5. Returned(b) => res[Child(b)] \in Results
    BY <1>3 DEF WalkInv, TypeOK, StackInv
  <1> QED BY <1>1, <1>2, <1>3, <1>4, <1>5

(* What a child's result says holds of its parent as well. *)
LEMMA HandOver ==
  ASSUME WalkInv, NEW b \in Blocks, NEW k \in DOMAIN Kids[b], NEW r, r = res[Kids[b][k]]
  PROVE  /\ Kind[b] # "par" /\ r = "ctx" => Cancelled(b)
         /\ r = "end" => \E e \in Leaves : res[e] = "end"
         /\ r = "timeout" => \E h \in Leaves : res[h] = "timeout"
         /\ r \in Wrong => \E c \in Blocks : Origin(c, b)
         /\ r \in Wrong => \E c \in Blocks : Origin(c, Kids[b][k])
  <1>1. /\ Kids[b][k] \in Blocks /\ Above[Kids[b][k]] = Above[b] \cup {b}
        /\ Accounts(Kids[b][k], r)
    BY KidFacts DEF WalkInv, OutcomeInv, Accounted
  <1>2. Kind[b] # "par" /\ Cancelled(Kids[b][k]) => Cancelled(b)
    BY <1>1 DEF Cancelled
  <1>3. ASSUME NEW c \in Blocks, Origin(c, Kids[b][k]) PROVE Origin(c, b)
    BY <1>3, InParent DEF Origin
  <1> QED BY <1>1, <1>2, <1>3 DEF Accounts

(* A failed step inside a block is inside a child that was called; if that  *)
(* child succeeded the failure is excused.                                  *)
LEMMA FailedInside ==
  ASSUME WalkInv, NEW b \in Blocks, NEW l \in Leaves, b \in Above[l], res[l] \in Wrong
  PROVE  \E j \in DOMAIN Kids[b] : /\ In(l, Kids[b][j]) /\ Begun(b, j) /\ st[Kids[b][j]] # "idle"
                                   /\ res[Kids[b][j]] = "ok" => Excused(l)
  <1>1. l \in Blocks /\ st[l] # "idle"
    BY DEF Leaves, Wrong, WalkInv, StackInv
  <1>2. PICK j \in DOMAIN Kids[b] : In(l, Kids[b][j]) /\ st[Kids[b][j]] # "idle" /\ Begun(b, j)
    BY <1>1, InsideKid
  <1>3. Kids[b][j] \in Blocks
    BY KidFacts
  <1> QED BY <1>2, <1>3 DEF WalkInv, OutcomeInv, Accounted, Accounts

(* walkSequence. *)
LEMMA SequenceStep ==
  ASSUME WalkInv, NEW b \in Blocks, WalkSequence(b)
  PROVE  WalkInv'
  <1>1. st[b] = "active" /\ Kind[b] = "seq" /\ (Starting(b) \/ Returned(b))
    BY DEF WalkSequence, Active
  <1>2. CASE Returned(b) /\ Failure(res[Child(b)]) /\ Return(b, res[Child(b)])
    <2> DEFINE r == res[Child(b)]
    <2>1. /\ at[b] \in DOMAIN Kids[b] /\ r = res[Kids[b][at[b]]] /\ r \in Results /\ r # "ok"
          /\ Return(b, r) /\ \A j \in DOMAIN Kids[b] : st[Kids[b][j]] # "active"
      BY <1>1, <1>2, NobodyRuns DEF Failure
    <2> HIDE DEF r
    <2>2. Due(b, r)
      BY <1>1, <2>1, HandOver DEF Due
    <2> QED BY <1>1, <2>1, <2>2, ReturnStep
  <1>3. CASE ~(Returned(b) /\ Failure(res[Child(b)])) /\ at[b] = Len(Kids[b]) /\ Return(b, "ok")
    <2>1. ASSUME NEW l \in Leaves, b \in Above[l], res[l] \in Wrong PROVE Excused(l)
      <3>1. PICK j \in DOMAIN Kids[b] : Begun(b, j) /\ (res[Kids[b][j]] = "ok" => Excused(l))
        BY <2>1, FailedInside
      <3>2. j \in Nat /\ j > 0 /\ j <= at[b] /\ at[b] \in Nat
        BY <1>1, <3>1, KidFacts, NobodyRuns DEF Begun
      <3>3. CASE j < at[b]
        BY <1>1, <3>1, <3>3 DEF WalkInv, StackInv
      <3>4. CASE j = at[b]
        <4>1. Returned(b)
          BY <1>1, <3>2, <3>4 DEF Starting
        <4> QED BY <1>1, <1>3, <3>1, <3>4, <4>1, NobodyRuns DEF Failure, Results
      <3> QED BY <3>2, <3>3, <3>4
    <2>2. Due(b, "ok")
      BY <2>1 DEF Due, Wrong
    <2> QED BY <1>1, <1>3, <2>2, NobodyRuns, ReturnStep DEF Results
  <1>4. CASE Cancelled(b) /\ Return(b, "ctx")
    <2>1. Due(b, "ctx")
      BY <1>4 DEF Due, Wrong
    <2> QED BY <1>1, <1>4, <2>1, NobodyRuns, ReturnStep DEF Results
  <1>5. CASE ~(Returned(b) /\ Failure(res[Child(b)])) /\ at[b] # Len(Kids[b])
               /\ Call(b, at[b] + 1) /\ UNCHANGED held
    <2>1. at[b] \in 0..Len(Kids[b]) /\ Len(Kids[b]) \in Nat /\ DOMAIN Kids[b] = 1..Len(Kids[b])
      BY TreeAssumption DEF WalkInv, TypeOK
    <2>2. at[b] + 1 \in DOMAIN Kids[b]
      BY <1>5, <2>1
    <2>3. at[b] > 0 => res[Kids[b][at[b]]] = "ok"
      BY <1>1, <1>5, NobodyRuns DEF Starting, Failure, Results
    <2>4. held' = [held EXCEPT ![b] = held[b]] /\ held[b] \in Results \cup {"none"}
      BY <1>5 DEF WalkInv, TypeOK
    <2>5. HeldAt(b)'
      BY <1>1 DEF HeldAt
    <2> QED BY <1>1, <1>5, <2>2, <2>3, <2>4, <2>5, NobodyRuns, CallStep
  <1> QED BY <1>1, <1>2, <1>3, <1>4, <1>5 DEF WalkSequence

(* Activities have no blocks inside. *)
LEMMA ActivityStep ==
  ASSUME WalkInv, NEW b \in Blocks, RunActivity(b)
  PROVE  WalkInv'
  <1>1. PICK r \in Outcomes(b) : Return(b, r)
    BY DEF RunActivity
  <1>2. /\ st[b] = "active" /\ Kind[b] \in {"http", "set", "end", "fail"} /\ r \in Results
        /\ r = "ctx" => Cancelled(b)
        /\ r = "end" => Kind[b] = "end"
        /\ r \in Wrong => Kind[b] \in {"http", "set", "fail"}
    BY <1>1 DEF RunActivity, Outcomes, HttpOutcomes, Interrupted, Results, Wrong
  <1>3. Kids[b] = <<>> /\ DOMAIN Kids[b] = {} /\ b \in Leaves
    BY <1>2, ShapeAssumption DEF Leaves
  <1>4. Due(b, r)
    BY <1>2, <1>3, FailedInside DEF Due
  <1> QED BY <1>1, <1>2, <1>3, <1>4, ReturnStep

(* runCondition. *)
LEMMA ConditionStep ==
  ASSUME WalkInv, NEW b \in Blocks, RunCondition(b)
  PROVE  WalkInv'
  <1>1. st[b] = "active" /\ Kind[b] = "cond" /\ (Starting(b) \/ Returned(b))
    BY DEF RunCondition, Active
  <1>2. ASSUME Starting(b), NEW k \in DOMAIN Kids[b], Call(b, k), UNCHANGED held PROVE WalkInv'
    <2>1. held' = [held EXCEPT ![b] = held[b]] /\ held[b] \in Results \cup {"none"}
      BY <1>2 DEF WalkInv, TypeOK
    <2>2. HeldAt(b)'
      BY <1>1 DEF HeldAt
    <2> QED BY <1>1, <1>2, <2>1, <2>2, NobodyRuns, CallStep DEF Starting
  <1>3. ASSUME NEW l \in Leaves, b \in Above[l], res[l] \in Wrong
        PROVE  Returned(b) /\ (res[Child(b)] = "ok" => Excused(l))
    <2>1. PICK j \in DOMAIN Kids[b] : Begun(b, j) /\ (res[Kids[b][j]] = "ok" => Excused(l))
      BY <1>3, FailedInside
    <2>2. j = at[b] /\ j # 0
      BY <1>1, <2>1, KidFacts DEF Begun
    <2> QED BY <1>1, <2>1, <2>2 DEF Starting, Child
  <1>4. CASE Starting(b) /\ \E r \in {"ok", "fail"} : Return(b, r)
    <2>1. PICK r \in {"ok", "fail"} : Return(b, r)
      BY <1>4
    <2>2. ~Returned(b)
      BY <1>1, <1>4, NobodyRuns DEF Starting, Returned
    <2>3. Due(b, r)
      BY <1>1, <1>3, <2>2 DEF Due
    <2> QED BY <1>1, <2>1, <2>3, NobodyRuns, ReturnStep DEF Results
  <1>5. CASE Returned(b) /\ Return(b, res[Child(b)])
    <2> DEFINE r == res[Child(b)]
    <2>1. /\ at[b] \in DOMAIN Kids[b] /\ r = res[Kids[b][at[b]]] /\ r \in Results
          /\ Return(b, r) /\ \A j \in DOMAIN Kids[b] : st[Kids[b][j]] # "active"
      BY <1>1, <1>5, NobodyRuns
    <2>2. r = "ok" => \A l \in Leaves : b \in Above[l] /\ res[l] \in Wrong => Excused(l)
      BY <1>3
    <2> HIDE DEF r
    <2>3. Due(b, r)
      BY <1>1, <2>1, <2>2, HandOver DEF Due
    <2> QED BY <1>1, <2>1, <2>3, ReturnStep
  <1> QED BY <1>2, <1>4, <1>5 DEF RunCondition

(* The first error of a group: it did not come from the cancellation that   *)
(* it causes.                                                               *)
LEMMA GroupStep ==
  ASSUME WalkInv, NEW b \in Blocks, NEW c \in Children(b), GroupError(b, c)
  PROVE  WalkInv'
  <1>1. /\ st[b] = "active" /\ Kind[b] = "par" /\ Failure(res[c]) /\ held[b] = "none"
        /\ held' = [held EXCEPT ![b] = res[c]] /\ UNCHANGED <<st, at, res, cancelled>>
    BY DEF GroupError, Active, FirstError
  <1>2. c \in Blocks /\ Above[c] = Above[b] \cup {b} /\ res[c] \in Results \cup {"none"}
    BY KidFacts DEF Children, WalkInv, TypeOK
  <1>3. held'[b] = res[c] /\ \A d \in Blocks \ {b} : held'[d] = held[d]
    BY <1>1 DEF WalkInv, TypeOK
  <1>4. TypeOK'
    BY <1>1, <1>2 DEF WalkInv, TypeOK
  <1>5. Grows
    BY <1>1, <1>3 DEF Grows
  <1>6. StackInv'
    BY <1>1, <1>3 DEF WalkInv, StackInv, Begun
  <1>7. HeldAt(b)'
    <2>1. res[c] = "ctx" => Cancelled(b)
      <3>1. res[c] = "ctx" => Cancelled(c)
        BY <1>2 DEF WalkInv, OutcomeInv, Accounted, Accounts
      <3> QED BY <1>1, <1>2, <3>1 DEF Cancelled
    <2>2. res[c] = "ctx" => Cancelled(b)'
      BY <1>5, <2>1, GrowsKeeps
    <2> QED BY <1>1, <1>3, <2>2 DEF HeldAt
  <1>8. HeldInv'
    <2> SUFFICES ASSUME NEW d \in Blocks, d # b PROVE HeldAt(d)'
      BY <1>7 DEF HeldInv
    <2>1. Kind[d] \in {"run", "sub"} /\ at[d] = 2 /\ st'[d] = "done" => res'[d] = "fail"
      BY <1>1 DEF WalkInv, HeldInv, HeldAt
    <2> QED BY <1>1, <1>3, <1>5, <2>1, HeldKeeps
  <1>9. OutcomeInv'
    BY <1>1, <1>5, OutcomeKeeps DEF OutcomeInv
  <1> QED BY <1>4, <1>6, <1>8, <1>9 DEF WalkInv

(* The group ends when all of its branches have. *)
LEMMA WaitStep ==
  ASSUME WalkInv, NEW b \in Blocks, Wait(b)
  PROVE  WalkInv'
  <1> DEFINE r == IF held[b] = "none" THEN "ok" ELSE held[b]
  <1>1. /\ st[b] = "active" /\ Kind[b] = "par" /\ Return(b, r)
        /\ \A c \in Children(b) : st[c] = "done" /\ (Failure(res[c]) => held[b] # "none")
    BY DEF Wait, Active, Joined
  <1>2. r \in Results /\ HeldAt(b)
    BY DEF WalkInv, TypeOK, HeldInv, Results
  <1>3. \A k \in DOMAIN Kids[b] : Kids[b][k] \in Children(b) /\ st[Kids[b][k]] = "done"
    BY <1>1 DEF Children
  <1>4. CASE held[b] = "none"
    <2>1. ASSUME NEW l \in Leaves, b \in Above[l], res[l] \in Wrong PROVE Excused(l)
      <3>1. PICK j \in DOMAIN Kids[b] : res[Kids[b][j]] = "ok" => Excused(l)
        BY <2>1, FailedInside
      <3>2. Kids[b][j] \in Blocks
        BY KidFacts
      <3>3. res[Kids[b][j]] = "ok"
        BY <1>1, <1>3, <1>4, <3>2 DEF Failure, WalkInv, StackInv
      <3> QED BY <3>1, <3>3
    <2>2. Due(b, "ok")
      BY <2>1 DEF Due, Wrong
    <2> QED BY <1>1, <1>2, <1>3, <1>4, <2>2, ReturnStep
  <1>5. CASE held[b] # "none"
    <2>1. r = held[b] /\ r # "ok" /\ (r = "ctx" => Cancelled(b))
      BY <1>1, <1>2, <1>5 DEF HeldAt, Failure
    <2>2. PICK k \in DOMAIN Kids[b] : res[Kids[b][k]] = r
      BY <1>1, <1>2, <1>5 DEF HeldAt, Children
    <2> HIDE DEF r
    <2>3. Due(b, r)
      BY <2>1, <2>2, HandOver DEF Due
    <2> QED BY <1>1, <1>2, <1>3, <2>3, ReturnStep
  <1> QED BY <1>4, <1>5

(* The two children of a try block, of a run and of a sub-workflow. *)
LEMMA TwoKids ==
  ASSUME WalkInv, NEW b \in Blocks, Kind[b] \in {"try", "run", "sub"}
  PROVE  /\ 1 \in DOMAIN Kids[b] /\ 2 \in DOMAIN Kids[b] /\ at[b] \in {0, 1, 2}
         /\ held[b] \in Results \cup {"none"} /\ HeldAt(b)
         /\ at[b] = 1 => Child(b) = Kids[b][1]
         /\ at[b] = 2 => Child(b) = Kids[b][2]
  <1>1. Len(Kids[b]) = 2 /\ Kids[b] \in Seq(Blocks) /\ at[b] \in 0..Len(Kids[b])
    BY ShapeAssumption, TreeAssumption DEF WalkInv, TypeOK
  <1>2. DOMAIN Kids[b] = 1..2 /\ at[b] \in 0..2
    BY <1>1
  <1> QED BY <1>2 DEF Child, WalkInv, TypeOK, HeldInv

(* A failure inside one of those is in the first child, or in the second if *)
(* that one was called.                                                     *)
LEMMA FailedInTwo ==
  ASSUME WalkInv, NEW b \in Blocks, Kind[b] \in {"try", "run", "sub"},
         NEW l \in Leaves, b \in Above[l], res[l] \in Wrong
  PROVE  \/ In(l, Kids[b][1]) /\ at[b] # 0 /\ (res[Kids[b][1]] = "ok" => Excused(l))
         \/ In(l, Kids[b][2]) /\ at[b] = 2 /\ (res[Kids[b][2]] = "ok" => Excused(l))
  <1>1. PICK j \in DOMAIN Kids[b] : /\ In(l, Kids[b][j]) /\ Begun(b, j)
                                    /\ res[Kids[b][j]] = "ok" => Excused(l)
    BY FailedInside
  <1>2. Len(Kids[b]) = 2 /\ Kids[b] \in Seq(Blocks)
    BY ShapeAssumption, TreeAssumption
  <1>3. j \in {1, 2}
    BY <1>2
  <1>4. at[b] \in {0, 1, 2}
    BY TwoKids
  <1>5. j <= at[b]
    BY <1>1 DEF Begun
  <1>6. (j = 1 /\ at[b] # 0) \/ (j = 2 /\ at[b] = 2)
    BY <1>3, <1>4, <1>5
  <1> QED BY <1>1, <1>6

(* Such a block calls one of its two children. *)
LEMMA CallTwo ==
  ASSUME WalkInv, NEW b \in Blocks, st[b] = "active", Kind[b] \in {"try", "run", "sub"},
         Starting(b) \/ (at[b] = 1 /\ Returned(b)), Call(b, at[b] + 1),
         \/ at[b] = 0 /\ UNCHANGED held
         \/ /\ at[b] = 1 /\ res[Kids[b][1]] \in Wrong
            /\ held' = [held EXCEPT ![b] = res[Kids[b][1]]]
            /\ Kind[b] \in {"run", "sub"} => res[Kids[b][1]] = "fail"
  PROVE  WalkInv'
  <1> DEFINE k == at[b] + 1
             e == held'[b]
  <1>1. /\ k \in DOMAIN Kids[b] /\ 1 \in DOMAIN Kids[b] /\ at[b] \in {0, 1}
        /\ \A j \in DOMAIN Kids[b] : st[Kids[b][j]] # "active"
    BY TwoKids, NobodyRuns DEF Starting
  <1>2. at'[b] = k /\ Kids[b][k] # b /\ UNCHANGED <<res, cancelled>> /\ Call(b, k)
    BY <1>1, KidFacts DEF Call, WalkInv, TypeOK
  <1>3. st'[b] = "active"
    BY <1>2 DEF Call, WalkInv, TypeOK
  <1>4. held' = [held EXCEPT ![b] = e] /\ e \in Results \cup {"none"}
    BY DEF WalkInv, TypeOK, Wrong, Results
  <1>5. HeldAt(b)'
    <2>1. CASE at[b] = 0
      BY <1>2, <2>1 DEF HeldAt
    <2>2. CASE at[b] = 1 /\ res[Kids[b][1]] \in Wrong /\ held' = [held EXCEPT ![b] = res[Kids[b][1]]]
      <3>1. PICK c \in Blocks : Origin(c, Kids[b][1])
        BY <1>1, <2>2, HandOver
      <3>2. Origin(c, Kids[b][1])'
        BY <1>2, <3>1 DEF Origin
      <3>3. held'[b] = res[Kids[b][1]]
        BY <2>2 DEF WalkInv, TypeOK
      <3> QED BY <1>3, <2>2, <3>2, <3>3 DEF HeldAt
    <2> QED BY <2>1, <2>2
  <1>6. k = at[b] + 1 /\ at[b] # 2
    BY <1>1
  <1> HIDE DEF k, e
  <1> QED BY <1>1, <1>2, <1>4, <1>5, <1>6, CallStep

(* runTry. *)
LEMMA TryStep ==
  ASSUME WalkInv, NEW b \in Blocks, RunTry(b)
  PROVE  WalkInv'
  <1>1. st[b] = "active" /\ Kind[b] = "try"
    BY DEF RunTry, Active
  <1>2. CASE Starting(b) /\ Call(b, 1) /\ UNCHANGED held
    <2>1. at[b] = 0 /\ at[b] + 1 = 1
      BY <1>2 DEF Starting
    <2> QED BY <1>1, <1>2, <2>1, CallTwo
  <1>3. CASE at[b] = 1 /\ Returned(b) /\ Catchable(res[Child(b)]) /\ Call(b, 2)
               /\ held' = [held EXCEPT ![b] = res[Child(b)]]
    <2>1. at[b] + 1 = 2 /\ Child(b) = Kids[b][1]
      BY <1>1, <1>3, TwoKids
    <2> QED BY <1>1, <1>3, <2>1, CallTwo DEF Catchable, Wrong
  <1>4. CASE at[b] = 1 /\ Returned(b) /\ ~Catchable(res[Child(b)]) /\ Return(b, res[Child(b)])
    <2> DEFINE r == res[Child(b)]
    <2>1. /\ 1 \in DOMAIN Kids[b] /\ r = res[Kids[b][1]] /\ r \in Results /\ Return(b, r)
          /\ \A j \in DOMAIN Kids[b] : st[Kids[b][j]] # "active"
      BY <1>1, <1>4, TwoKids, NobodyRuns
    <2> HIDE DEF r
    <2>2. r = "ok" => \A l \in Leaves : b \in Above[l] /\ res[l] \in Wrong => Excused(l)
      BY <1>1, <1>4, <2>1, FailedInTwo
    <2>3. Due(b, r)
      BY <1>1, <2>1, <2>2, HandOver DEF Due
    <2> QED BY <1>1, <2>1, <2>3, ReturnStep
  <1>5. CASE at[b] = 2 /\ Returned(b) /\ Return(b, AfterCatch(b))
    <2> DEFINE c == res[Kids[b][2]]
               r == AfterCatch(b)
    <2>1. /\ 1 \in DOMAIN Kids[b] /\ 2 \in DOMAIN Kids[b] /\ c \in Results
          /\ held[b] \in Wrong /\ (\E x \in Blocks : Origin(x, Kids[b][1]))
          /\ \A j \in DOMAIN Kids[b] : st[Kids[b][j]] # "active"
      BY <1>1, <1>5, TwoKids, NobodyRuns DEF HeldAt
    <2>2. (r = c /\ c # "ok") \/ (r \in Wrong /\ c = "ok") \/ (r = "ok" /\ c = "ok")
      BY <2>1 DEF AfterCatch, Failure, Results
    <2>3. r \in Results /\ Return(b, r)
      BY <1>5, <2>1, <2>2 DEF Results, Wrong
    <2>4. \E x \in Blocks : Origin(x, b)
      BY <2>1, InParent DEF Origin
    <2>5. ASSUME c = "ok", NEW l \in Leaves, b \in Above[l], res[l] \in Wrong PROVE Excused(l)
      BY <1>1, <1>5, <2>5, FailedInTwo DEF Excused
    <2> HIDE DEF r
    <2>6. Due(b, r)
      <3>1. CASE r = c /\ c # "ok"
        BY <1>1, <2>1, <2>4, <3>1, HandOver DEF Due
      <3>2. CASE r \in Wrong
        BY <2>4, <3>2 DEF Due, Wrong
      <3>3. CASE r = "ok" /\ c = "ok"
        BY <2>5, <3>3 DEF Due, Wrong
      <3> QED BY <2>2, <3>1, <3>2, <3>3
    <2> QED BY <1>1, <2>1, <2>3, <2>6, ReturnStep
  <1> QED BY <1>2, <1>3, <1>4, <1>5 DEF RunTry

(* RunWorkflowActivity, up to the call. *)
LEMMA SubWorkflowStep ==
  ASSUME WalkInv, NEW b \in Blocks, RunWorkflow(b)
  PROVE  WalkInv'
  <1>1. st[b] = "active" /\ Kind[b] = "sub" /\ Starting(b) /\ at[b] = 0 /\ at[b] + 1 = 1
    BY DEF RunWorkflow, Active, Starting
  <1>2. CASE Call(b, 1) /\ UNCHANGED held
    BY <1>1, <1>2, CallTwo
  <1>3. CASE \E r \in {"fail", "retry"} \cup Interrupted(b) : Return(b, r)
    <2>1. PICK r \in {"fail", "retry"} \cup Interrupted(b) : Return(b, r)
      BY <1>3
    <2>2. r \in {"fail", "retry", "ctx"} /\ (r = "ctx" => Cancelled(b))
      BY <2>1 DEF Interrupted
    <2>3. Due(b, r) /\ r \in Results
      BY <1>1, <2>2 DEF Due, Results
    <2> QED BY <1>1, <2>1, <2>3, NobodyRuns, ReturnStep
  <1> QED BY <1>2, <1>3 DEF RunWorkflow

(* Interpreter.Run. *)
LEMMA RunStep ==
  ASSUME WalkInv, NEW b \in Blocks, Run(b)
  PROVE  WalkInv'
  <1>1. st[b] = "active" /\ Kind[b] \in {"run", "sub"}
    BY DEF Run
  <1>2. CASE Starting(b) /\ Call(b, 1) /\ UNCHANGED held
    <2>1. at[b] = 0 /\ at[b] + 1 = 1
      BY <1>2 DEF Starting
    <2> QED BY <1>1, <1>2, <2>1, CallTwo
  <1>3. CASE at[b] = 1 /\ Returned(b) /\ RunsErrorSequence(b) /\ Call(b, 2)
               /\ held' = [held EXCEPT ![b] = "fail"]
    <2>1. at[b] + 1 = 2 /\ res[Kids[b][1]] = "fail"
      BY <1>3 DEF RunsErrorSequence
    <2> QED BY <1>1, <1>3, <2>1, CallTwo DEF Wrong
  <1>4. CASE at[b] = 1 /\ Returned(b) /\ Return(b, Classified(res[Child(b)]))
    <2> DEFINE c == res[Child(b)]
               r == Classified(c)
    <2>1. /\ 1 \in DOMAIN Kids[b] /\ c = res[Kids[b][1]] /\ c \in Results /\ Return(b, r)
          /\ \A j \in DOMAIN Kids[b] : st[Kids[b][j]] # "active"
      BY <1>1, <1>4, TwoKids, NobodyRuns
    <2>2. (c = "end" /\ r = "ok") \/ (c # "end" /\ r = c)
      BY DEF Classified
    <2> HIDE DEF r
    <2>3. c = "ok" => \A l \in Leaves : b \in Above[l] /\ res[l] \in Wrong => Excused(l)
      BY <1>1, <1>4, <2>1, FailedInTwo
    <2>4. c = "end" => \A l \in Leaves : Excused(l)
      BY <1>1, <2>1, HandOver DEF Excused
    <2> HIDE DEF c
    <2>5. Due(b, r)
      BY <1>1, <2>1, <2>2, <2>3, <2>4, HandOver DEF Due, Wrong
    <2>6. r \in Results
      BY <2>1, <2>2 DEF Results
    <2> QED BY <1>1, <1>4, <2>1, <2>5, <2>6, ReturnStep
  <1>5. CASE at[b] = 2 /\ Returned(b) /\ Return(b, AfterErrorSequence(b))
    <2>1. /\ 1 \in DOMAIN Kids[b] /\ held[b] = "fail" /\ (\E c \in Blocks : Origin(c, Kids[b][1]))
          /\ \A j \in DOMAIN Kids[b] : st[Kids[b][j]] # "active"
      BY <1>1, <1>5, TwoKids, NobodyRuns DEF HeldAt
    <2>2. \E c \in Blocks : Origin(c, b)
      BY <2>1, InParent DEF Origin
    <2>3. Due(b, "fail") /\ Return(b, "fail") /\ "fail" \in Results
      BY <1>5, <2>1, <2>2 DEF Due, AfterErrorSequence, Results
    <2> QED BY <1>1, <2>1, <2>3, ReturnStep
  <1> QED BY <1>2, <1>3, <1>4, <1>5 DEF Run

(* The worker shuts down: nothing but the context changes. *)
LEMMA CancelStep ==
  ASSUME WalkInv, CancelContext
  PROVE  WalkInv'
  <1>1. UNCHANGED <<st, at, res, held>> /\ cancelled'
    BY DEF CancelContext
  <1>2. Grows
    BY <1>1 DEF Grows
  <1>3. TypeOK'
    BY DEF CancelContext, WalkInv, TypeOK
  <1>4. StackInv'
    BY <1>1 DEF WalkInv, StackInv, Begun
  <1>5. HeldInv'
    <2> SUFFICES ASSUME NEW b \in Blocks PROVE HeldAt(b)'
      BY DEF HeldInv
    <2>1. Kind[b] \in {"run", "sub"} /\ at[b] = 2 /\ st'[b] = "done" => res'[b] = "fail"
      BY <1>1 DEF WalkInv, HeldInv, HeldAt
    <2> QED BY <1>1, <1>2, <2>1, HeldKeeps
  <1>6. OutcomeInv'
    BY <1>1, <1>2, OutcomeKeeps DEF OutcomeInv
  <1> QED BY <1>3, <1>4, <1>5, <1>6 DEF WalkInv

(* Every step preserves the invariant. *)
LEMMA WalkStep == WalkInv /\ [Next]_vars => WalkInv'
  <1> SUFFICES ASSUME WalkInv, [Next]_vars PROVE WalkInv'
    OBVIOUS
  <1>1. CASE UNCHANGED vars
    BY <1>1 DEF vars, WalkInv, TypeOK, StackInv, Begun, HeldInv, HeldAt, OutcomeInv, Accounted,
                Accounts, Origin, Excused, Cancelled
  <1>2. ASSUME NEW b \in Blocks, Walk(b) PROVE WalkInv'
    BY <1>2, SequenceStep, ActivityStep, ConditionStep, ForkStep, GroupStep, WaitStep, TryStep,
       SubWorkflowStep, RunStep DEF Walk
  <1> QED BY <1>1, <1>2, CancelStep DEF Next

-----------------------------------------------------------------------------
(* Call stacks, kept errors and results agree in every behaviour. *)
THEOREM WalkCorrect == Spec => []WalkInv
  <1> QED BY WalkInit, WalkStep, PTL DEF Spec

(* Structured concurrency for every definition: when a block has returned   *)
(* nothing inside it is still running.                                      *)
THEOREM ConcurrencyIsStructured == Spec => []NothingOutlives
  <1>1. WalkInv => NothingOutlives
    BY DEF WalkInv, StackInv, NothingOutlives
  <1> QED BY <1>1, WalkCorrect, PTL

(* A run leaves with a context error only if the job itself was cancelled   *)
(* or an HTTP call of it ran into its client's own timeout: fail-fast       *)
(* cancellation stays inside the parallel block that caused it.             *)
THEOREM InterruptionIsOutside == Spec => []InterruptedOnlyByContext
  <1>1. WalkInv => InterruptedOnlyByContext
    BY TreeAssumption DEF WalkInv, OutcomeInv, Accounted, Accounts, Cancelled, InterruptedOnlyByContext
  <1> QED BY <1>1, WalkCorrect, PTL

(* Catch blocks, rethrows, joins and error sequences leave every run with   *)
(* the outcome that its steps had.                                          *)
THEOREM FailuresAreKept == Spec => []HandlersKeepFailures
  <1>1. WalkInv => HandlersKeepFailures
    <2> SUFFICES ASSUME WalkInv PROVE HandlersKeepFailures
      OBVIOUS
    <2>1. NoFailureLost
      <3> SUFFICES ASSUME res[Top] = "ok", NEW l \in Leaves, res[l] \in Wrong PROVE Excused(l)
        BY DEF NoFailureLost, Excused, Wrong
      <3>1. l \in Blocks /\ Top \in Blocks /\ l # Top
        BY TreeAssumption DEF Leaves, Wrong
      <3>2. Top \in Above[l]
        BY <3>1, TreeAssumption DEF In
      <3> QED BY <3>1, <3>2 DEF WalkInv, OutcomeInv, Accounted, Accounts, In
    <2>2. CleanupIsFinal
      BY TreeAssumption, ShapeAssumption DEF WalkInv, HeldInv, HeldAt, CleanupIsFinal
    <2>3. CatchHandlesFailure
      BY DEF WalkInv, HeldInv, HeldAt, Origin, CatchHandlesFailure, Wrong
    <2> QED BY <2>1, <2>2, <2>3 DEF WalkInv, HandlersKeepFailures
  <1> QED BY <1>1, WalkCorrect, PTL
-----------------------------------------------------------------------------
(* The step reporter.  The invariant ties each branch's position to what    *)
(* the accumulator says of its step, and the errgroup's context to the      *)
(* failures that were returned; every snapshot, in flight or written, is    *)
(* behind the accumulator.                                                  *)

(* What a snapshot may say while the accumulator stands at byID. *)
Behind(snapshot) ==
    \A b \in Branches : /\ Rank(snapshot[b]) <= Rank(byID[b])
                        /\ snapshot[b] \in Ended => snapshot[b] = byID[b]

(* A branch records its step in order and joins with it ended or skipped.   *)
BranchInv ==
    \A b \in Branches :
        /\ pc[b] = "ready" => byID[b] = "none"
        /\ pc[b] \in {"starting", "busy"} => byID[b] = "RUNNING"
        /\ pc[b] = "ending" => byID[b] \in Ended
        /\ pc[b] = "joined" => byID[b] \in Ended \cup {"none"}

(* The context is cancelled exactly by a branch that has returned a failure,*)
(* and only then is a step skipped.                                         *)
ContextInv ==
    /\ gctx => \A b \in Branches : pc[b] = "joined" => byID[b] = "SUCCEEDED"
    /\ ~gctx => \E b \in Branches : pc[b] = "joined" /\ byID[b] = "FAILED"

(* A finalized row was written after the join, from the accumulator if it   *)
(* encodes; it does unless a step failed.                                   *)
FinalInv ==
    /\ state \in {"SUCCEEDED", "FAILED"} =>
        /\ \A b \in Branches : pc[b] = "joined"
        /\ ~garbled => steps = byID
        /\ state = "FAILED" => ~gctx
    /\ garbled => \E b \in Branches : byID[b] = "FAILED"

ReporterInv == /\ ReporterTypeOK
               /\ BranchInv
               /\ ContextInv
               /\ FinalInv
               /\ Behind(steps)
               /\ \A b \in Branches : payload[b] # NoPayload => Behind(payload[b])

(* Nothing has been reported. *)
LEMMA ReporterStarts == ReporterInit => ReporterInv
  <1> SUFFICES ASSUME ReporterInit PROVE ReporterInv
    OBVIOUS
  <1> USE DEF ReporterInit, Nothing, Snapshots, StepStates
  <1>1. ReporterTypeOK
    BY DEF ReporterTypeOK, Pcs
  <1>2. BranchInv /\ ContextInv /\ FinalInv
    BY DEF BranchInv, ContextInv, FinalInv
  <1>3. Behind(steps)
    BY DEF Behind, Rank, Ended
  <1>4. \A b \in Branches : payload[b] = NoPayload
    OBVIOUS
  <1> QED BY <1>1, <1>2, <1>3, <1>4 DEF ReporterInv

(* A branch's own event moves its step forward: what was behind stays so.   *)
LEMMA RecordKeepsBehind ==
  ASSUME ReporterInv, NEW b \in Branches, NEW to \in StepStates, NEW next \in Pcs,
         NEW encodes \in BOOLEAN, Record(b, to, encodes, next),
         Rank(byID[b]) <= Rank(to), byID[b] \notin Ended,
         UNCHANGED steps
  PROVE  /\ Behind(steps)'
         /\ \A c \in Branches : payload'[c] # NoPayload => Behind(payload[c])'
         /\ byID' \in Snapshots
         /\ garbled' \in BOOLEAN
         /\ payload' \in [Branches -> Snapshots \cup {NoPayload}]
         /\ pc' \in [Branches -> Pcs]
  <1> USE DEF ReporterInv, ReporterTypeOK, Record, Snapshots
  <1>1. /\ byID' \in Snapshots /\ garbled' \in BOOLEAN /\ pc' \in [Branches -> Pcs]
        /\ payload' \in [Branches -> Snapshots \cup {NoPayload}]
    BY DEF MarshalLocked
  <1>2. ASSUME NEW snapshot \in Snapshots, Behind(snapshot), NEW c \in Branches
        PROVE  /\ Rank(snapshot[c]) <= Rank(byID'[c])
               /\ snapshot[c] \in Ended => snapshot[c] = byID'[c]
    <2>1. CASE c = b
      <3>1. byID'[c] = to /\ snapshot[c] \notin Ended
        BY <1>2, <2>1 DEF Behind, Rank, Ended
      <3>2. Rank(snapshot[c]) <= Rank(byID[c])
        BY <1>2 DEF Behind
      <3> QED BY <2>1, <3>1, <3>2 DEF Rank, StepStates
    <2>2. CASE c # b
      BY <1>2, <2>2 DEF Behind
    <2> QED BY <2>1, <2>2
  <1>3. Behind(steps)'
    BY <1>2 DEF Behind
  <1>4. ASSUME NEW c \in Branches, payload'[c] # NoPayload PROVE Behind(payload[c])'
    <2>1. CASE c = b
      <3>1. payload'[c] = byID'
        BY <1>4, <2>1 DEF MarshalLocked
      <3>2. \A d \in Branches : payload'[c][d] = byID'[d] /\ Rank(byID'[d]) \in Nat
        BY <3>1 DEF Rank
      <3>3. \A d \in Branches : Rank(payload'[c][d]) <= Rank(byID'[d])
        <4> HIDE DEF Record
        <4> QED BY <3>2
      <3> QED BY <3>2, <3>3 DEF Behind
    <2>2. CASE c # b
      <3>1. payload'[c] = payload[c] /\ payload[c] \in Snapshots /\ Behind(payload[c])
        BY <1>4, <2>2
      <3> QED BY <1>2, <3>1 DEF Behind
    <2> QED BY <2>1, <2>2
  <1> QED BY <1>1, <1>3, <1>4

(* Every event, checkpoint, finalize and cancel preserves the invariant.    *)
LEMMA ReporterStep == ReporterInv /\ [ReporterNext]_reporterVars => ReporterInv'
  <1> SUFFICES ASSUME ReporterInv, [ReporterNext]_reporterVars PROVE ReporterInv'
    OBVIOUS
  <1>1. ASSUME NEW b \in Branches, StepStarted(b) PROVE ReporterInv'
    <2>1. byID[b] = "none"
      BY <1>1 DEF StepStarted, ReporterInv, BranchInv
    <2>4. PICK e \in BOOLEAN : e = TRUE
      OBVIOUS
    <2>5. Record(b, "RUNNING", e, "starting")
      BY <1>1, <2>4, Zenon DEF StepStarted
    <2>2. /\ Behind(steps)'
          /\ \A c \in Branches : payload'[c] # NoPayload => Behind(payload[c])'
          /\ ReporterTypeOK'
      BY <1>1, <2>1, <2>5, RecordKeepsBehind
         DEF StepStarted, Rank, Ended, StepStates, Pcs, ReporterInv, ReporterTypeOK
    <2>3. BranchInv' /\ ContextInv' /\ FinalInv'
      BY <1>1, <2>1 DEF StepStarted, Record, ReporterInv, ReporterTypeOK, Snapshots, BranchInv, ContextInv, FinalInv, Ended
    <2> QED BY <2>2, <2>3 DEF ReporterInv
  <1>2. ASSUME NEW b \in Branches, SkipStep(b) PROVE ReporterInv'
    <2>1. ReporterTypeOK' /\ Behind(steps)' /\ \A c \in Branches : payload'[c] # NoPayload => Behind(payload[c])'
      BY <1>2 DEF SkipStep, ReporterInv, ReporterTypeOK, Pcs, Behind
    <2>2. BranchInv' /\ ContextInv' /\ FinalInv'
      BY <1>2 DEF SkipStep, ReporterInv, ReporterTypeOK, Snapshots, BranchInv, ContextInv, FinalInv, Ended
    <2> QED BY <2>1, <2>2 DEF ReporterInv
  <1>3. ASSUME NEW b \in Branches, StepFinished(b) \/ StepFailed(b) PROVE ReporterInv'
    <2>1. byID[b] = "RUNNING"
      BY <1>3 DEF StepFinished, StepFailed, ReporterInv, BranchInv
    <2>2. PICK to \in Ended, encodes \in BOOLEAN :
             /\ Record(b, to, encodes, "ending") /\ UNCHANGED <<gctx, state, steps>>
             /\ pc[b] = "busy" /\ (~encodes => to = "FAILED")
      BY <1>3 DEF StepFinished, StepFailed, Ended
    <2>3. /\ Behind(steps)'
          /\ \A c \in Branches : payload'[c] # NoPayload => Behind(payload[c])'
          /\ ReporterTypeOK'
      BY <2>1, <2>2, RecordKeepsBehind
         DEF Rank, Ended, StepStates, Pcs, ReporterInv, ReporterTypeOK
    <2>4. BranchInv' /\ ContextInv' /\ FinalInv'
      BY <2>1, <2>2 DEF Record, ReporterInv, ReporterTypeOK, Snapshots, BranchInv, ContextInv, FinalInv, Ended
    <2> QED BY <2>3, <2>4 DEF ReporterInv
  <1>4. ASSUME NEW b \in Branches, NEW landed \in BOOLEAN, Checkpoint(b, landed) PROVE ReporterInv'
    <2>1. ReporterTypeOK'
      BY <1>4 DEF Checkpoint, ReporterInv, ReporterTypeOK, Pcs, GuardHolds
    <2>2. Behind(steps)' /\ \A c \in Branches : payload'[c] # NoPayload => Behind(payload[c])'
      BY <1>4 DEF Checkpoint, ReporterInv, ReporterTypeOK, Behind
    <2>3. BranchInv'
      BY <1>4 DEF Checkpoint, ReporterInv, ReporterTypeOK, BranchInv
    <2>4. ContextInv'
      <3>1. CASE pc[b] = "ending" /\ byID[b] = "FAILED"
        BY <1>4, <3>1 DEF Checkpoint, ReporterInv, ReporterTypeOK, ContextInv
      <3>2. CASE ~(pc[b] = "ending" /\ byID[b] = "FAILED")
        BY <1>4, <3>2 DEF Checkpoint, ReporterInv, ReporterTypeOK, BranchInv, ContextInv, Ended
      <3> QED BY <3>1, <3>2
    <2>5. FinalInv'
      BY <1>4 DEF Checkpoint, ReporterInv, FinalInv
    <2> QED BY <2>1, <2>2, <2>3, <2>4, <2>5 DEF ReporterInv
  <1>5. CASE Finalize
    <2>4. steps' \in Snapshots /\ state' \in {"SUCCEEDED", "FAILED"}
      BY <1>5 DEF Finalize, SnapshotJSON, MarshalLocked, ReporterInv, ReporterTypeOK
    <2>1. ReporterTypeOK' /\ BranchInv' /\ ContextInv' /\ \A c \in Branches : payload'[c] # NoPayload => Behind(payload[c])'
      BY <1>5, <2>4 DEF Finalize, ReporterInv, ReporterTypeOK, BranchInv, ContextInv, Behind
    <2>2. FinalInv'
      <3>1. byID = NoPayload => steps = byID
        <4>1. DOMAIN NoPayload = {}
          BY DEF NoPayload
        <4>2. byID \in [Branches -> StepStates] /\ steps \in [Branches -> StepStates]
          BY DEF ReporterInv, ReporterTypeOK, Snapshots
        <4> QED BY <4>1, <4>2
      <3>2. ~garbled' => steps' = byID'
        BY <1>5, <3>1 DEF Finalize, SnapshotJSON, MarshalLocked
      <3> QED BY <1>5, <3>2 DEF Finalize, ReporterInv, FinalInv
    <2>3. Behind(steps)'
      <3>1. byID' = byID /\ steps' \in {steps, byID}
        BY <1>5 DEF Finalize, SnapshotJSON, MarshalLocked
      <3>2. Behind(byID)
        BY DEF Behind, Rank
      <3> QED BY <3>1, <3>2 DEF ReporterInv, Behind
    <2> QED BY <2>1, <2>2, <2>3 DEF ReporterInv
  <1>6. CASE CancelWorkflowRun
    BY <1>6 DEF CancelWorkflowRun, ReporterInv, ReporterTypeOK, BranchInv, ContextInv, FinalInv, Behind
  <1>7. CASE UNCHANGED reporterVars
    BY <1>7 DEF reporterVars, ReporterInv, ReporterTypeOK, BranchInv, ContextInv, FinalInv, Behind
  <1> QED BY <1>1, <1>2, <1>3, <1>4, <1>5, <1>6, <1>7 DEF ReporterNext

(* The reporter's inductive invariant holds in every behaviour. *)
THEOREM ReporterCorrect == ReporterSpec => []ReporterInv
  <1> QED BY ReporterStarts, ReporterStep, PTL DEF ReporterSpec

(* A finalized run carries the complete steps: finalize runs after the join *)
(* and writes the accumulator, whatever checkpoints were lost, overtaken or *)
(* still under way; only the error text of a failed step, when it does not  *)
(* encode, keeps the row at an earlier checkpoint.                          *)
THEOREM FinalComplete == ReporterSpec => []FinalStepsComplete
  <1>1. ReporterInv => FinalStepsComplete
    BY DEF ReporterInv, ReporterTypeOK, BranchInv, FinalInv, ContextInv, FinalStepsComplete, Ended
  <1> QED BY <1>1, ReporterCorrect, PTL

(* No reader of workflow_runs.steps is ahead of the execution, although     *)
(* snapshots are written after the mutex is released.                       *)
THEOREM ReadersBehind == ReporterSpec => []NeverAhead
  <1>1. ReporterInv => NeverAhead
    BY DEF ReporterInv, Behind, NeverAhead
  <1> QED BY <1>1, ReporterCorrect, PTL
=============================================================================
