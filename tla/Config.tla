------------------------------- MODULE Config -------------------------------
(***************************************************************************)
(* The device configuration tool: config.c with the grammar of parse.y.    *)
(* It reads device types, then devices, and writes the device table.       *)
(*                                                                         *)
(* An action is a production of the grammar with its semantic action.  A   *)
(* name is a model value; Cut says what is left of it in the symbol table, *)
(* which keeps 19 characters.  Name pointers are compared in the code;     *)
(* lookup() makes them equal exactly when the kept names are.              *)
(***************************************************************************)
EXTENDS Integers, Sequences, FiniteSets, SequencesExt

CONSTANTS TypeNames, HwNames, DevNames, Routines, \* identifiers
          Cut,          \* the kept part of an identifier
          Switch,       \* attributes whose value is a routine
          STATEMENTS    \* productions used

VARIABLES symtab,       \* names in order of first use
          ftypes, devs, \* the lists of types and devices
          currtname,    \* type being declared
          doing,        \* part of the file being read
          minor,        \* minor number of each device, once written
          decl,         \* what the file declares so far
          n
vars == <<symtab, ftypes, devs, currtname, doing, minor, decl, n>>

IOERR == "ioerr"
NOTHING == "no on clause"
Attr == Switch \cup {"csr"}

(* lookup(): the symbol table after a name was looked up *)
lookup(tab, id) == IF Contains(tab, Cut[id]) THEN tab ELSE Append(tab, Cut[id])

Value(a, v) == IF a \in Switch THEN Cut[v] ELSE v

(* initattr(): the node of a new type.  IOERR stands for the five          *)
(* characters and whatever the memory held after them, since the copy has  *)
(* no terminator.                                                          *)
initattr(t, d) == [tname |-> t, device |-> d,
                   attr |-> [a \in Attr |-> IF a = "csr" THEN 0 ELSE IOERR]]

Init == /\ symtab = <<>> /\ ftypes = <<>> /\ devs = <<>> /\ currtname = NOTHING
        /\ doing = "types" /\ minor = <<>> /\ decl = <<>> /\ n = 0

Step == n < STATEMENTS /\ n' = n + 1
Exit == doing' = "exit" /\ UNCHANGED <<ftypes, devs, currtname, decl>>

(* id COLON, with cktname(): a type is declared once *)
tname(t) ==
    /\ Step /\ doing \in {"types", "attributes"}
    /\ symtab' = lookup(symtab, t)
    /\ IF \E i \in DOMAIN ftypes : ftypes[i].tname = Cut[t] THEN Exit
       ELSE /\ currtname' = Cut[t] /\ doing' = "header"
            /\ UNCHANGED <<ftypes, devs, decl>>
    /\ UNCHANGED minor

(* ON id, with mktype() *)
devheader(d) ==
    /\ Step /\ doing \in {"header", "attributes"}
    /\ symtab' = lookup(symtab, d)
    /\ IF \E i \in DOMAIN ftypes : ftypes[i].tname = currtname /\ ftypes[i].device = Cut[d]
       THEN Exit
       ELSE /\ ftypes' = Append(ftypes, initattr(currtname, Cut[d]))
            /\ doing' = "attributes"
            /\ decl' = Append(decl, [kind |-> "type", type |-> currtname, on |-> Cut[d],
                                     attr |-> <<>>])
            /\ UNCHANGED <<devs, currtname>>
    /\ UNCHANGED minor

(* Mutant: an attribute of a device goes to the last type. *)
newattrType(a, v) ==
    /\ Step /\ doing \in {"attributes", "devattributes"}
    /\ symtab' = IF a \in Switch THEN lookup(symtab, v) ELSE symtab
    /\ ftypes' = [ftypes EXCEPT ![Len(ftypes)].attr[a] = Value(a, v)]
    /\ decl' = [decl EXCEPT ![Len(decl)].attr = Append(@, <<a, Value(a, v)>>)]
    /\ UNCHANGED <<devs, currtname, doing, minor>>

(* newattr(): to the type being declared, or to the last device once there *)
(* is one                                                                  *)
newattr(a, v) ==
    /\ Step /\ doing \in {"attributes", "devattributes"}
    /\ symtab' = IF a \in Switch THEN lookup(symtab, v) ELSE symtab
    /\ IF devs = <<>>
       THEN ftypes' = [ftypes EXCEPT ![Len(ftypes)].attr[a] = Value(a, v)] /\ UNCHANGED devs
       ELSE devs' = [devs EXCEPT ![Len(devs)].attr[a] = Value(a, v)] /\ UNCHANGED ftypes
    /\ decl' = [decl EXCEPT ![Len(decl)].attr = Append(@, <<a, Value(a, v)>>)]
    /\ UNCHANGED <<currtname, doing, minor>>

(* %% *)
devtypes == /\ Step /\ doing \in {"types", "attributes"} /\ doing' = "devices"
            /\ UNCHANGED <<symtab, ftypes, devs, currtname, minor, decl>>

(* mkdev(): the device gets the attributes of the first type node that     *)
(* matches.  Without an on clause the grammar passes symbol number 0, so   *)
(* that the hardware name is compared with the first name of the file.     *)
mkdev(dev, type, on) ==
    LET tab == lookup(lookup(symtab, dev), type)
        tab2 == IF on = NOTHING THEN tab ELSE lookup(tab, on)
        dn == IF on = NOTHING THEN tab2[1] ELSE Cut[on]
        match == {i \in DOMAIN ftypes : ftypes[i].tname = Cut[type] /\ ftypes[i].device = dn}
        first == CHOOSE i \in match : \A j \in match : i <= j
    IN  /\ symtab' = tab2
        /\ IF match = {} THEN Exit
           ELSE /\ devs' = Append(devs, [name |-> Cut[dev], tname |-> Cut[type],
                                         attr |-> ftypes[first].attr])
                /\ decl' = Append(decl, [kind |-> "device", name |-> Cut[dev],
                                         type |-> Cut[type], on |-> dn, attr |-> <<>>])
                /\ doing' = "devattributes"
                /\ UNCHANGED <<ftypes, currtname>>

(* dname IS id optional_on, with ckdname(): a device is declared once *)
fspec(dev, type, on) ==
    /\ Step /\ doing \in {"devices", "devattributes"}
    /\ IF \E i \in DOMAIN devs : devs[i].name = Cut[dev]
       THEN Exit /\ symtab' = lookup(symtab, dev)
       ELSE mkdev(dev, type, on)
    /\ UNCHANGED minor

(* occurs of the type of device i when its minor number is taken *)
Occurs(i) == Cardinality({j \in 1..i - 1 : devs[j].tname = devs[i].tname})

(* main() after the parse: numbers the devices of each type *)
main == /\ doing \in {"devices", "devattributes"}
        /\ minor' = [i \in DOMAIN devs |-> Occurs(i)]
        /\ doing' = "done"
        /\ UNCHANGED <<symtab, ftypes, devs, currtname, decl, n>>

Next == \/ \E t \in TypeNames : tname(t)
        \/ \E d \in HwNames : devheader(d)
        \/ \E a \in Switch, v \in Routines : newattr(a, v)
        \/ newattr("csr", 1)
        \/ devtypes
        \/ \E dev \in DevNames, t \in TypeNames, d \in HwNames \cup {NOTHING} : fspec(dev, t, d)
        \/ main
Spec == Init /\ [][Next]_vars
----------------------------------------------------------------------------
(* Properties *)

(* The minor numbers of the devices of a type are 0, 1, 2, ... below the   *)
(* count N<type> in conf.h, each used once: drivers index their control    *)
(* blocks with them.                                                       *)
MinorsDense ==
    doing = "done" => \A i \in DOMAIN devs :
        LET same == {j \in DOMAIN devs : devs[j].tname = devs[i].tname}
        IN  {minor[j] : j \in same} = 0..Cardinality(same) - 1

(* what the attributes of a declaration make of the defaults *)
Apply(attr, given) == FoldLeft(LAMBDA f, x : [f EXCEPT ![x[1]] = x[2]], attr, given)

(* The device table is what the file declares: one entry per device, in    *)
(* order and under its name, whose attributes are the last ones given with *)
(* the device, else the last given with its type on that hardware, else    *)
(* ioerr.  A later declaration changes no earlier one, and no device or    *)
(* type is declared twice.                                                 *)
DevtabExact ==
    LET devices == SelectSeq(decl, LAMBDA d : d.kind = "device")
        types == {decl[i] : i \in {j \in DOMAIN decl : decl[j].kind = "type"}}
        default == [a \in Attr |-> IF a = "csr" THEN 0 ELSE IOERR]
    IN  /\ Len(devs) = Len(devices)
        /\ \A i \in DOMAIN devs :
             \E t \in types :
                /\ t.type = devices[i].type /\ t.on = devices[i].on
                /\ devs[i].name = devices[i].name
                /\ devs[i].attr = Apply(Apply(default, t.attr), devices[i].attr)
        /\ \A i, j \in DOMAIN devs : devs[i].name = devs[j].name => i = j
        /\ Cardinality({<<t.type, t.on>> : t \in types}) = Len(ftypes)
=============================================================================
