------------------------------- MODULE StartUp -------------------------------
(***************************************************************************)
(* What the emulator serves, given its configuration file and its          *)
(* arguments: build_config() and tt6cover_from_dict() (emulator/config.py),*)
(* the constructor of TT6CoverEmulator, and the registration of the covers *)
(* (device_manager.py, make_tt6controller()).  Nothing in it suspends, so  *)
(* it is one function of the configuration.  Lengths are millimetres.      *)
(***************************************************************************)
EXTENDS Integers, Sequences, SequencesExt

CONSTANTS
    Items,      \* the covers that a configuration file may list:
                \* [name, addr, step, drop, initial, preset]
    MaxItems,   \* bound: the items of a file
    Overrides,  \* the arguments of -i: [name, pos]
    MaxOverrides,   \* bound: their number
    Nothing     \* an optional value that is not there, or is not a number

ASSUME StartUpAssumption ==
    /\ MaxItems \in Nat /\ MaxOverrides \in Nat
    /\ Nothing \notin Int
    /\ \A i \in Items : i.step \in Nat \ {0} /\ i.drop \in Nat \ {0}
    /\ \A i \in Items : {i.initial, i.preset} \subseteq Int \cup {Nothing}
    /\ \A o \in Overrides : o.pos \in Int \cup {Nothing}

Files == BoundedSeq(Items, MaxItems)
Arguments == BoundedSeq(Overrides, MaxOverrides)

\* check_pos()
InRange(p) == p # Nothing /\ 0 <= p /\ p <= 1000

-----------------------------------------------------------------------------
(* build_config *)

\* What s has under the name n
Named(s, n) == {i \in DOMAIN s : s[i].name = n}

\* The last of it: what is assigned under a name replaces what was there
LastNamed(s, n) == s[CHOOSE i \in Named(s, n) : \A j \in Named(s, n) : j <= i]

\* Mutant: the first item of a name wins
ItemOf_First(file, n) == file[CHOOSE i \in Named(file, n) : \A j \in Named(file, n) : i <= j]

\* cover_config_by_name[n]: the last item of that name
ItemOf(file, n) == LastNamed(file, n)

NamesOf(file) == {file[i].name : i \in DOMAIN file}

\* parser.error() is not called
ArgumentsOK(file, args) ==
    \A i \in DOMAIN args : args[i].name \in NamesOf(file) /\ InRange(args[i].pos)

\* The position that the cover n starts at: -i n pos, of which the last counts, or
\* what the file says, or fully up
InitialPos(file, args, n) ==
    LET inFile == ItemOf(file, n).initial
    IN  CASE Named(args, n) # {} -> LastNamed(args, n).pos
          [] Named(args, n) = {} /\ inFile = Nothing -> 1000
          [] OTHER -> inFile

\* pos_increment_per_step; the constructor divides by it
PosIncrementPerStep(item) == (1000 * item.step) \div item.drop

\* tt6cover_from_dict() returns: no ZeroDivisionError, no ValueError of check_pos()
CoverOK(file, args, n) ==
    LET item == ItemOf(file, n)
    IN  /\ PosIncrementPerStep(item) # 0
        /\ InRange(InitialPos(file, args, n))
        /\ item.preset # Nothing => InRange(item.preset)

-----------------------------------------------------------------------------
(* make_tt6controller and DeviceManager *)

\* register_device() raises no DuplicateDeviceError
DistinctAddresses(file) ==
    \A m, n \in NamesOf(file) : ItemOf(file, m).addr = ItemOf(file, n).addr => m = n

Starts(file, args) ==
    /\ ArgumentsOK(file, args)
    /\ \A n \in NamesOf(file) : CoverOK(file, args, n)
    /\ DistinctAddresses(file)

\* DeviceManager.devices when the server starts.  An exception before that leaves
\* nothing: the ExitStack takes back the registrations that were made.
Devices(file, args) ==
    IF ~Starts(file, args) THEN <<>>
    ELSE [a \in {ItemOf(file, n).addr : n \in NamesOf(file)} |->
             LET n == CHOOSE m \in NamesOf(file) : ItemOf(file, m).addr = a
             IN  [name |-> n, pos |-> InitialPos(file, args, n), item |-> ItemOf(file, n)]]

-----------------------------------------------------------------------------
(* Properties *)

\* What is served is what was asked for: each name in the file once, at the address
\* and as the kind of cover that it has there last, at the position that -i asks for
\* last; and each cover served can move, from where it is to its presets.
ServedAsConfigured(file, args) ==
        LET devices == Devices(file, args)
        IN  Starts(file, args) =>
              /\ \A i \in DOMAIN file :
                    (\A j \in DOMAIN file : j > i => file[j].name # file[i].name) =>
                        /\ file[i].addr \in DOMAIN devices
                        /\ devices[file[i].addr].item = file[i]
              /\ \A a, b \in DOMAIN devices : devices[a].name = devices[b].name => a = b
              /\ \A a \in DOMAIN devices :
                    /\ devices[a].pos \in 0..1000
                    /\ devices[a].item.drop <= 1000 * devices[a].item.step
                    /\ devices[a].item.preset \in 0..1000 \cup {Nothing}
              /\ \A i \in DOMAIN args :
                    (\A j \in DOMAIN args : j > i => args[j].name # args[i].name) =>
                        \E a \in DOMAIN devices :
                            devices[a].name = args[i].name /\ devices[a].pos = args[i].pos
=============================================================================
