------------------------------ MODULE Meaning ------------------------------
(***************************************************************************)
(* What the requests made to a builder mean, one after the other, on a     *)
(* machine without instructions: a stack of words, locals and globals that *)
(* are separate sequences of units, and integers that are exact until they *)
(* are made words.  It says nothing of folding, of frames or of layout in  *)
(* memory, so Builder and Interpreter together must agree with it.         *)
(*                                                                         *)
(* A request is a record: op tells which, and the rest are its arguments.  *)
(***************************************************************************)
EXTENDS Interpreter

Ideal(env, stack, layouts, garbage) ==
    [vs |-> stack, status |-> "running", events |-> <<>>, next |-> 0, env |-> env,
     locals |-> [l \in 1..Len(layouts) |-> [k \in 1..layouts[l].size |-> garbage]],
     globals |-> [g \in DOMAIN Globals |-> Globals[g].units], names |-> <<>>]

-----------------------------------------------------------------------------
(* What the headers of the libraries promise of the builtins.                *)

TheWord(exact) == exact - WordSize * (exact \div WordSize)

Nearest(exact, lo, hi) == IF exact < lo THEN lo ELSE IF exact > hi THEN hi ELSE exact

Within(overflow, exact, lo, hi) ==
    LET fits == exact \in lo..hi
    IN  CASE overflow = "flag"  -> Returns(<<Flag(~fits), TheWord(exact)>>)
          [] overflow = "wrap"  -> Returns(<<TheWord(exact)>>)
          [] overflow = "sat"   -> Returns(<<TheWord(Nearest(exact, lo, hi))>>)
          [] overflow = "panic" -> IF fits THEN Returns(<<TheWord(exact)>>) ELSE Panics

(* The remainder has the sign of the dividend.                               *)
DividesTo(l, r, q) ==
    LET rest == l - q * r
    IN  Abs(rest) < Abs(r) /\ (rest = 0 \/ (rest < 0) = (l < 0))
Divided(l, r) == CHOOSE q \in -WordSize..WordSize : DividesTo(l, r, q)

Digit(w, i) == (w \div 2 ^ i) % 2
Digitwise(D(_, _), v, w) ==
    MapThenSumSet(LAMBDA i : 2 ^ i * D(Digit(v, i), Digit(w, i)), 0..WordBits - 1)

Promise(b, x) ==
    LET r == x[1]   sr == AsSint(x[1])
        l == x[2]   sl == AsSint(x[2])
        S(exact) == Within(b.variant, exact, SintMin, SintMax)
        U(exact) == Within(b.variant, exact, 0, UintMax)
        Defined(condition, value) == IF condition THEN Returns(<<TheWord(value)>>) ELSE Panics
    IN  CASE b.name = "sadd" -> S(sl + sr)
          [] b.name = "ssub" -> S(sl - sr)
          [] b.name = "smul" -> S(sl * sr)
          [] b.name = "uadd" -> U(l + r)
          [] b.name = "usub" -> U(l - r)
          [] b.name = "umul" -> U(l * r)
          [] b.name = "sdiv" -> IF r = 0 THEN Panics ELSE S(Divided(sl, sr))
          [] b.name = "udiv" -> Defined(r # 0, Divided(l, r))
          [] b.name = "srem" -> Defined(r # 0, sl - sr * Divided(sl, sr))
          [] b.name = "urem" -> Defined(r # 0, l - r * Divided(l, r))
          [] b.name = "scmp" -> Returns(<<TheWord(IF sl < sr THEN -1 ELSE IF sl = sr THEN 0 ELSE 1)>>)
          [] b.name = "ucmp" -> Returns(<<TheWord(IF l < r THEN -1 ELSE IF l = r THEN 0 ELSE 1)>>)
          [] b.name = "stou" -> U(sr)
          [] b.name = "utos" -> S(r)
          [] b.name = "sabs" -> S(Abs(sr))
          [] b.name = "uabs" -> Returns(<<Abs(sr)>>)
          [] b.name = "s_overflow" -> Returns(<<Flag(~(\E i \in -(2 ^ (b.bits - 1))..2 ^ (b.bits - 1) - 1 : i = sr)), r>>)
          [] b.name = "u_overflow" -> Returns(<<Flag(r \notin 0..2 ^ b.bits - 1), r>>)
          [] b.name = "word_overflow" -> Returns(<<0, r>>)
          [] b.name = "and" -> Returns(<<Digitwise(LAMBDA i, j : i * j, l, r)>>)
          [] b.name = "or"  -> Returns(<<Digitwise(LAMBDA i, j : i + j - i * j, l, r)>>)
          [] b.name = "xor" -> Returns(<<Digitwise(LAMBDA i, j : (i + j) % 2, l, r)>>)
          [] b.name = "shl"  -> Defined(r < WordBits, l * 2 ^ r)
          [] b.name = "ushr" -> Defined(r < WordBits, l \div 2 ^ r)
          [] b.name = "sshr" -> Defined(r < WordBits, sl \div 2 ^ r)

-----------------------------------------------------------------------------
(* The machine *)

Take(r, n, values) == [r EXCEPT !.vs = values \o SubSeq(@, n + 1, Len(@))]
Stops(r, status)   == [r EXCEPT !.status = status]
Happens(r, name, in, out) ==
    Take([r EXCEPT !.events = Append(@, <<name>> \o SubSeq(r.vs, 1, in))], in, Given(Len(r.events), out))

GlobalWord(r, g) == TheWord(r.env.offset + g)
LocalWord(r, l)  == TheWord(r.env.first + l + 2 ^ AllocBits * r.env.generation)
Stride(layout)   == CHOOSE n \in layout.size..layout.size + layout.align :
                        /\ n % layout.align = 0
                        /\ \A k \in layout.size..n - 1 : k % layout.align # 0
MovedBy(w, n)    == TheWord(w + n * 2 ^ (AllocBits + GenBits))

(* The members before one and the padding between them.                      *)
MemberAt(members, i) ==
    LET at[k \in 1..i] ==
            IF k = 1 THEN 0
            ELSE Stride([size |-> at[k - 1] + members[k - 1].size, align |-> members[k].align])
    IN  at[i]

(* The contents that an address is in, as a place of the machine.            *)
PlaceOf(r, w) ==
    LET base == Low(w, AllocBits + GenBits)
    IN     {<<"global", g>> : g \in {g \in DOMAIN Globals : GlobalWord(r, g) = base}}
      \cup {<<"local", l>> : l \in {l \in DOMAIN r.locals : LocalWord(r, l - 1) = base}}
Contents(r, place) == IF place[1] = "global" THEN r.globals[place[2]] ELSE r.locals[place[2]]

MayAccess(r, w, type, store) ==
    LET offset == High(w, AllocBits + GenBits)
    IN  \E place \in PlaceOf(r, w) :
            /\ offset + type.size <= Len(Contents(r, place))
            /\ offset % type.align = 0
            /\ store /\ place[1] = "global" => Globals[place[2]].mutable

Loaded(type, units) ==
    CASE type = ValueType -> units[1] + 2 ^ UnitBits * units[2]
      [] type = UintType  -> units[1]
      [] type = SintType  -> TheWord(IF Digit(units[1], UnitBits - 1) = 1 THEN units[1] - 2 ^ UnitBits
                                     ELSE units[1])
Stored(type, w) ==
    IF type = ValueType THEN <<w % 2 ^ UnitBits, w \div 2 ^ UnitBits>> ELSE <<w % 2 ^ UnitBits>>

Units(n) == [size |-> n, align |-> 1]
UnitsOf(r, w, n) ==
    LET at == High(w, AllocBits + GenBits)
    IN  SubSeq(Contents(r, CHOOSE p \in PlaceOf(r, w) : TRUE), at + 1, at + n)
WithUnits(r, w, units) ==
    LET at    == High(w, AllocBits + GenBits)
        place == CHOOSE p \in PlaceOf(r, w) : TRUE
        new   == [k \in DOMAIN Contents(r, place) |->
                    IF k \in at + 1..at + Len(units) THEN units[k - at] ELSE Contents(r, place)[k]]
    IN  IF place[1] = "global" THEN [r EXCEPT !.globals[place[2]] = new]
        ELSE [r EXCEPT !.locals[place[2]] = new]

Load(r, type) ==
    IF type = EmptyType THEN Take(r, 1, <<0>>)
    ELSE IF ~MayAccess(r, r.vs[1], type, FALSE) THEN Stops(r, "panicked")
    ELSE Take(r, 1, <<Loaded(type, UnitsOf(r, r.vs[1], type.size))>>)

Store(r, type) ==
    IF type = EmptyType THEN Take(r, 2, <<>>)
    ELSE IF ~MayAccess(r, r.vs[1], type, TRUE) THEN Stops(r, "panicked")
    ELSE Take(WithUnits(r, r.vs[1], Stored(type, r.vs[2])), 2, <<>>)

(* The headers again, of the builtins that need the machine: an address is   *)
(* moved within its allocation, or it panics, or leads nowhere.              *)
Moved(r, overflow, w, by) ==
    LET exact == High(w, AllocBits + GenBits) + by
        sizes == {Len(Contents(r, place)) : place \in PlaceOf(r, w)}
        stays == \E n \in sizes : exact >= 0 /\ (IF overflow = "panic_strict" THEN exact < n ELSE exact <= n)
        nowhere == IF exact \in 0..OffsetSize - 1 THEN exact ELSE OffsetSize - 1
    IN  IF overflow # "invalidate" /\ ~stays THEN Stops(r, "panicked")
        ELSE Take(r, 2, <<Low(w, AllocBits + GenBits) + nowhere * 2 ^ (AllocBits + GenBits)>>)

Apart(r, v, w) ==
    IF Low(v, AllocBits + GenBits) # Low(w, AllocBits + GenBits) THEN Stops(r, "panicked")
    ELSE Take(r, 2, <<TheWord(High(v, AllocBits + GenBits) - High(w, AllocBits + GenBits))>>)

OnUnits(r, b) ==
    LET n == r.vs[1]   v == r.vs[2]   w == r.vs[3]
        same == \A k \in 1..n : UnitsOf(r, w, n)[k] = UnitsOf(r, v, n)[k]
        less == \E k \in 1..n : /\ UnitsOf(r, w, n)[k] < UnitsOf(r, v, n)[k]
                                /\ \A j \in 1..k - 1 : UnitsOf(r, w, n)[j] = UnitsOf(r, v, n)[j]
    IN  IF ~MayAccess(r, w, Units(n), b.name # "cmp") \/ (b.name # "fill" /\ ~MayAccess(r, v, Units(n), FALSE))
        THEN Stops(r, "panicked")
        ELSE CASE b.name = "copy" -> Take(WithUnits(r, w, UnitsOf(r, v, n)), 3, <<>>)
               [] b.name = "fill" -> Take(WithUnits(r, w, [k \in 1..n |-> v % 2 ^ UnitBits]), 3, <<>>)
               [] b.name = "cmp"  -> Take(r, 3, <<TheWord(IF same THEN 0 ELSE IF less THEN -1 ELSE 1)>>)

Calls(r, b) ==
    LET result == Promise(b, [i \in 1..2 |-> IF i <= b.in THEN r.vs[i] ELSE 0])
    IN  IF b.always_panic THEN Stops([r EXCEPT !.events = Append(@, <<b.name>>)], "panicked")
        ELSE IF b.name = "addr_add" THEN Moved(r, b.variant, r.vs[2], AsSint(r.vs[1]))
        ELSE IF b.name = "addr_sub" THEN Moved(r, b.variant, r.vs[2], -AsSint(r.vs[1]))
        ELSE IF b.name = "addr_distance" THEN Apart(r, r.vs[2], r.vs[1])
        ELSE IF b.name \in {"copy", "fill", "cmp"} THEN OnUnits(r, b)
        ELSE IF ~b.fold THEN Happens(r, b.name, b.in, b.out)
        ELSE IF result.panics THEN Stops(r, "panicked") ELSE Take(r, b.in, result.values)

(* The function that a word is the address of, if its signature is expected. *)
Callee(w, in, out) ==
    {f \in DOMAIN Functions : /\ Functions[f].in = in /\ Functions[f].out = out
                              /\ w = f + 2 ^ IndexBits * in + 2 ^ (IndexBits + CountBits) * out}

OnStack(r, o) ==
    LET nth == r.vs[o.i + 1]
    IN  CASE o.op = "pop"   -> [r EXCEPT !.vs = RemoveAt(@, o.i + 1)]
          [] o.op = "pick"  -> Take(r, 0, <<nth>>)
          [] o.op = "roll"  -> [r EXCEPT !.vs = <<nth>> \o RemoveAt(@, o.i + 1)]
          [] o.op = "value" -> IF o.id \in DOMAIN r.names THEN r
                               ELSE [r EXCEPT !.names = [id \in DOMAIN @ \cup {o.id} |->
                                                           IF id = o.id THEN nth ELSE @[id]]]

OnValues(r, o) ==
    CASE o.op = "uint"   -> Take(r, 0, <<o.v>>)
      [] o.op = "sint"   -> Take(r, 0, <<TheWord(o.i)>>)
      [] o.op = "null"   -> Take(r, 0, <<Null>>)
      [] o.op = "layout" -> Take(r, 0, <<o.layout.size, o.layout.align>>)
      [] o.op = "cc"     -> Take(r, 1, <<Flag(Holds(o.cc, AsSint(r.vs[1])))>>)
      [] o.op = "select" -> IF r.vs[1] >= o.n THEN Stops(r, "panicked")
                            ELSE Take(r, o.n + 1, <<r.vs[r.vs[1] + 2]>>)

OnMemory(r, o) ==
    CASE o.op = "global_addr"      -> Take(r, 0, <<GlobalWord(r, o.g)>>)
      [] o.op = "local_addr"       -> Take(r, 0, <<LocalWord(r, o.l)>>)
      [] o.op = "array_element"    ->
            Take(r, 2, <<MovedBy(r.vs[2], AsSint(r.vs[1]) * Stride(o.layout))>>)
      [] o.op = "aggregate_member" -> Take(r, 1, <<MovedBy(r.vs[1], MemberAt(o.members, o.index))>>)
      [] o.op = "load_field"       -> Load(r, o.type)
      [] o.op = "store_field"      -> Store(r, o.type)

OnControl(r, o) ==
    CASE o.op = "call"          -> Happens(r, Functions[o.f].name, Functions[o.f].in, Functions[o.f].out)
      [] o.op = "function_addr" -> Take(r, 0, <<CHOOSE w \in Word : Callee(w, Functions[o.f].in,
                                                                          Functions[o.f].out) = {o.f}>>)
      [] o.op = "call_indirect" ->
            IF Callee(r.vs[1], o.in, o.out) = {} THEN Stops(r, "panicked")
            ELSE Happens(Take(r, 1, <<>>), Functions[CHOOSE f \in Callee(r.vs[1], o.in, o.out) : TRUE].name,
                         o.in, o.out)
      [] o.op = "call_builtin"  -> Calls(r, o.b)
      [] o.op = "panic_if"      -> IF r.vs[2] = 0 THEN Take(r, 2, <<>>)
                                   ELSE Stops([r EXCEPT !.events = Append(@, <<"panic", r.vs[1]>>)], "panicked")
      [] o.op \in {"fiber_resume", "fiber_transfer"} -> Happens(r, o.op, o.in + 1, o.out)
      [] o.op = "fiber_suspend" -> Happens(r, o.op, o.in, o.out)

OnBlock(r, o) ==
    CASE o.op = "return" -> Stops(r, "returned")
      [] o.op = "panic"  -> Stops([r EXCEPT !.events = Append(@, <<"panic", r.vs[1]>>)], "panicked")
      [] o.op = "jump"   -> [r EXCEPT !.next = o.dest]
      [] o.op = "branch" -> [Take(r, 1, <<>>) EXCEPT !.next = IF r.vs[1] # 0 THEN o.if_true ELSE o.if_false]

Does(r, o) ==
    IF r.status # "running" THEN r
    ELSE IF o.op \in {"pop", "pick", "roll", "value"} THEN OnStack(r, o)
    ELSE IF o.op \in {"uint", "sint", "null", "layout", "cc", "select"} THEN OnValues(r, o)
    ELSE IF o.op \in {"global_addr", "local_addr", "array_element", "aggregate_member",
                      "load_field", "store_field"} THEN OnMemory(r, o)
    ELSE IF o.op \in {"return", "panic", "jump", "branch"} THEN OnBlock(r, o)
    ELSE OnControl(r, o)

DoesAll(r, requests) == FoldLeft(Does, r, requests)

(* The blocks from b on, for at most n changes of the block.                 *)
Follows(r, requests, b, n) ==
    LET after[k \in 0..n] ==
            IF k = 0 THEN DoesAll(r, requests[b])
            ELSE LET s == after[k - 1]
                 IN  IF s.status # "running" THEN s ELSE DoesAll(s, requests[s.next])
        last == after[n]
    IN  IF last.status # "running" THEN last ELSE Stops(last, "diverges")
=============================================================================
