------------------------------ MODULE VioLedger ------------------------------
(* The books of the ladders: for every way in which a route enters a       *)
(* function of VioLadders, what must and what may be up before each of its *)
(* steps, worked out from the ladders alone.  Then each function can be    *)
(* checked by itself, with no regard to how deep in which route it runs    *)
(* and to how many calls have failed before: LadderBooks, which is         *)
(* evaluated for the devices of the SDK and from which VioRoute_proofs     *)
(* proves the properties of the routes for every number of faults.         *)
EXTENDS VioRoute

\* Whatever the ladders start.
Kinds == {"vb", "sys", "vi_bind", "pipe", "pipe_run", "vi_chn", "ext_chn", "isp_mem", "isp", "sns", "ae", "awb",
          "isp_thread", "mipi_clk", "sns_clk", "dev", "vi_vpss", "grp", "grp_run", "vpss_chn0", "vpss_chn1",
          "vpss_vo", "vpss_venc", "venc", "venc_recv", "venc_thread", "vo_chn", "vo_layer", "vo_dev", "hdmi_init",
          "hdmi_open", "hdmi_run", "pool", "blk", "send_thread", "user_pic", "wdr_thread", "vgs_job",
          "nnn_thread"}

Objects == {<<kind, n>> : kind \in Kinds, n \in 0..(MaxDev + 1)}

\* Of what failure r costs, that on which only stands what it costs too.
Gone(r) == {o \in Lost(r) : \A x \in Objects : o \in Needs(x) => x \in Lost(r)}

\* What a failure costs and leaves without, whichever of the causes it was.
AllLose(causes) == {o \in UNION {Lost(r) : r \in causes} : \A r \in causes : o \in Lost(r)}
AllMiss(causes) == {o \in UNION {Gone(r) : r \in causes} : \A r \in causes : o \in Gone(r)}

------------------------------------------------------------------------------
(* Bounds on what is up: all of must, and nothing but may, the losses of   *)
(* the calls that have failed apart.                                       *)
Bounds(must, may) == [must |-> must, may |-> may]

Nowhere == Bounds(Objects, {})    \* where nothing leads

Done(b, s) ==
    CASE s.op = "start" -> Bounds(b.must \cup {s.what}, b.may \cup {s.what})
      [] s.op = "stop"  -> Bounds(b.must \ TakenAlong(s.what), b.may \ TakenAlong(s.what))
      [] s.op = "join"  -> Bounds(b.must \ {s.what}, b.may \ {s.what})
      [] OTHER          -> b

\* A place that bounds b lead to, and fall f as well.
Meet(b, f) == Bounds(b.must \cap (f.b.must \cup AllMiss(f.causes)),
                     b.may \cup (f.b.may \ AllLose(f.causes)))

Names   == SUBSET (STRING \X Nat)
MayFail(s) == s.op \in {"start", "stop", "set"}

Entries == [name : STRING, n : Nat, b : [must : Names, may : Names], loose : Names, sw : BOOLEAN]

\* Function name, entered within bounds b, when objects loose have been lost
\* and, for sw, within a switch: the bounds in which it succeeds and fails,
\* the calls that may have made it fail, its account and those of the
\* functions it calls.
Run[k \in Entries] ==
    LET body == Body(k.name, k.n)
        Outcome(s, b, loose) ==
            CASE s.op = "call" -> Run[[name |-> s.what[1], n |-> s.what[2], b |-> b, loose |-> loose,
                                       sw |-> k.sw \/ InSwitch(s.what[1])]]
              [] MayFail(s)    -> [ok |-> Done(b, s), ko |-> b, causes |-> {Failure(s, k.sw)}, accounts |-> {}]
              [] OTHER         -> [ok |-> Done(b, s), ko |-> Nowhere, causes |-> {}, accounts |-> {}]
        Walk(acc, s) ==
            LET o == Outcome(s, acc.now, acc.loose)
                fall == [land |-> s.land, b |-> o.ko, causes |-> o.causes]
                next == IF s.land = 0 THEN Meet(o.ok, fall) ELSE o.ok
            IN [acc EXCEPT !.now = next, !.have = Append(@, next), !.falls = Append(@, fall),
                           !.accounts = @ \cup o.accounts]
        From(b, loose) == [now |-> b, have |-> <<b>>, falls |-> <<>>, accounts |-> {}, loose |-> loose]
        climb  == FoldLeft(Walk, From(k.b, k.loose), body.climb)
        finish == FoldLeft(Walk, From(climb.now, k.loose), body.finish)
        Causes(Test(_)) == UNION {climb.falls[i].causes : i \in {j \in DOMAIN climb.falls : Test(climb.falls[j].land)}}
        leaving == Causes(LAMBDA land : land = Leave)
        falling == Causes(LAMBDA land : land \notin {0, Leave})
        Landed(b, land) == FoldLeft(Meet, b, SelectSeq(climb.falls, LAMBDA f : f.land = land))
        Fall(acc, i) ==
            LET a == IF acc.now = Nowhere THEN acc ELSE Walk(acc, body.descent[i])
                next == Landed(a.now, i + 1)
            IN [a EXCEPT !.now = next, !.have = Append(acc.have, next)]
        descent == FoldLeft(Fall, From(Landed(Nowhere, 1), k.loose \cup AllLose(falling)),
                            [i \in 1..Len(body.descent) |-> i])
        left == Landed(Nowhere, Leave)
        account == [name |-> k.name, n |-> k.n, loose |-> k.loose, sw |-> k.sw,
                    have |-> [climb |-> climb.have, descent |-> descent.have,
                              finish |-> finish.have, left |-> <<left>>],
                    causes |-> [climb |-> {}, descent |-> falling, finish |-> {}, left |-> leaving]]
    IN [ok |-> finish.now, ko |-> Landed(descent.now, Leave), causes |-> leaving \cup falling,
        accounts |-> {account} \cup climb.accounts \cup descent.accounts \cup finish.accounts]

RouteEntry(r) == [name |-> r, n |-> 0, b |-> Bounds({}, {}), loose |-> {}, sw |-> FALSE]

Accounts == UNION {Run[RouteEntry(r)].accounts : r \in Routes}

------------------------------------------------------------------------------
(* What the account of a function promises, step by step.                  *)
Text(w, part) == IF part = "left" THEN <<>> ELSE Body(w.name, w.n)[part]
Past(w, part) == Len(Text(w, part)) + 1

Have(w, part, at) == w.have[part][at]

OnPath(w, part, at) == part \in Parts /\ at \in 1..Past(w, part) /\ Have(w, part, at) # Nowhere

\* Bounds c hold wherever b do; or wherever b do once call r has failed.
Weaker(b, c)  == c.must \subseteq b.must /\ b.may \subseteq c.may
Slip(b, c, r) == c.must \ b.must \subseteq Gone(r) /\ b.may \ c.may \subseteq Lost(r)

\* Where a function goes on when step s fails.
LandPart(part, s) == IF s.land = 0 THEN part ELSE IF s.land = Leave THEN "left" ELSE "descent"
LandAt(at, s)     == IF s.land = 0 THEN at + 1 ELSE IF s.land = Leave THEN 1 ELSE s.land

\* The failure r of step s, which leaves bounds b, is provided for.
Fails(w, part, at, s, b, r) ==
    LET p == LandPart(part, s)
        a == LandAt(at, s)
    IN /\ OnPath(w, p, a)
       /\ Slip(b, Have(w, p, a), r)
       /\ s.land # 0 => r \in w.causes[p]

\* Object o is known to be lost in this part of the function.
Known(w, part, o) == \/ o \in w.loose
                     \/ part = "descent" /\ \A r \in w.causes[part] : o \in Lost(r)

\* Step s of function w enters function c, whatever c comes to.
Enters(w, part, at, s, c) ==
    /\ c.name = s.what[1] /\ c.n = s.what[2]
    /\ c.sw = (w.sw \/ InSwitch(c.name))
    /\ \A o \in c.loose : Known(w, part, o)
    /\ Weaker(Have(w, part, at), Have(c, "climb", 1))
    /\ Weaker(Have(c, "finish", Past(c, "finish")), Have(w, part, at + 1))
    /\ \A p \in {"descent", "left"} :
           \A r \in c.causes[p] : Fails(w, part, at, s, Have(c, p, Past(c, p)), r)

TakenDown(s) == IF s.op = "stop" THEN TakenAlong(s.what) ELSE {s.what}

\* A start finds its object down and what it needs up; what goes down with a
\* stop or a join leaves nothing behind that needs it.
Grounded(b, s) ==
    /\ s.op = "start" => s.what \in Objects \ b.may /\ Needs(s.what) \subseteq b.must
    /\ s.op = "stop"  => \A o \in TakenAlong(s.what) \ {s.what} : s.what \in Needs(o) /\ o \notin Always
    /\ s.op \in {"stop", "join"} =>
           \A o \in Done(b, s).may \ Always : Needs(o) \cap TakenDown(s) = {}

Kept(w, part, at) ==
    LET s == Text(w, part)[at]
        b == Have(w, part, at)
    IN /\ OnPath(w, part, at + 1)
       /\ Grounded(b, s)
       /\ s.op = "stop" => s.what \in b.must \/ Again(s) \/ Known(w, part, s.what)
       /\ s.op # "call" => Weaker(Done(b, s), Have(w, part, at + 1))
       /\ s.op = "call" => \E c \in Accounts : Enters(w, part, at, s, c)
       /\ MayFail(s) => Fails(w, part, at, s, b, Failure(s, w.sw))

Balanced(w) ==
    /\ w.name \in STRING /\ w.n \in Nat /\ w.sw \in BOOLEAN
    /\ \A part \in Parts : Len(Text(w, part)) \in Nat
    /\ OnPath(w, "climb", 1) /\ OnPath(w, "finish", 1)
    /\ \A part \in Parts : \A at \in 1..Len(Text(w, part)) : OnPath(w, part, at) => Kept(w, part, at)
    /\ Weaker(Have(w, "climb", Past(w, "climb")), Have(w, "finish", 1))

\* A route begins with nothing and ends with nothing but what it never frees.
Whole(w) ==
    /\ w.n = 0 /\ w.loose = {} /\ ~ w.sw /\ ~ InSwitch(w.name)
    /\ Have(w, "climb", 1).must = {}
    /\ \A part \in Parts \ {"climb"} : Have(w, part, Past(w, part)).may \subseteq Always

ASSUME LadderBooks ==
    /\ \A w \in Accounts : Balanced(w)
    /\ \A r \in Routes : \E w \in Accounts : w.name = r /\ Whole(w)
=============================================================================
