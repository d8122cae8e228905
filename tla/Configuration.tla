--------------------------- MODULE Configuration ---------------------------
(* What becomes of a submitted configuration: the defaults of the schema   *)
(* that the cached template holds (JSONValidator), the merge, the checks,  *)
(* and the constructors that a run passes through when the worker starts   *)
(* it (Simulator._setup, SnakeGame).  A JSON document is a function of its *)
(* places, each the sequence of the keys that lead to it: an object is     *)
(* Section there, any other value a leaf [t, n] of type t with n           *)
(* ten-thousandths.  A number written 24.0 is of type float.               *)
EXTENDS Integers, Sequences, FiniteSets

CONSTANTS
    Documents,     \* what is submitted
    Big            \* stands for an integer without a bound

VARIABLES
    template,      \* the schema that simulation_config_template() keeps
    asked,         \* the document of the submission
    answer,        \* what resolve returned for it
    pc             \* idle, asked, accepted, rejected, playing, failed

config_vars == <<template, asked, answer, pc>>

Unit == 10000      \* of the leaves: ten-thousandths
WholeNumber(n) == [t |-> "int", n |-> n * Unit]
Decimal(n) == [t |-> "float", n |-> n]
Section == [t |-> "object", n |-> 0]
Leaf == [t : {"int", "float", "other"}, n : Int]
Empty == [p \in {<<>>} |-> Section]

\* The places that a place is inside of.
Above(p) == {SubSeq(p, 1, n) : n \in 0..(Len(p) - 1)}

\* Only an object has something inside of it.
IsDocument(d) ==
    /\ <<>> \in DOMAIN d /\ DOMAIN d \subseteq Seq(STRING)
    /\ \A p \in DOMAIN d :
          d[p] \in Leaf \cup {Section} /\ \A q \in Above(p) : q \in DOMAIN d /\ d[q] = Section

ASSUME ConfigurationAssumption ==
    /\ \A d \in Documents : IsDocument(d)
    /\ Big \in Nat /\ Big % 10000 = 0 /\ Big > 1970 * 10000

----------------------------------------------------------------------------
(* simulation-config-v2.schema.json: the rules of the values of a section  *)
Integer(default, lo, hi, step) ==
    [type |-> "integer", default |-> WholeNumber(default),
     lo |-> lo * Unit, hi |-> hi * Unit, step |-> step * Unit]
Number(default, lo, hi) ==
    [type |-> "number", default |-> Decimal(default), lo |-> lo, hi |-> hi, step |-> 1]
FixedInt(n) == Integer(n, n, n, 1)
Fixed(n) == Number(n, n, n)

Run == [
    epochs |-> [type |-> "integer", default |-> WholeNumber(500), lo |-> -Big, hi |-> Big,
                step |-> Unit],
    seed |-> [type |-> "integer", default |-> WholeNumber(1970), lo |-> 0, hi |-> Big,
              step |-> Unit]]

Rewards == [food |-> FixedInt(10), wall |-> FixedInt(-10),
    snake |-> FixedInt(-10), max_moves |-> FixedInt(-10), empty |-> FixedInt(0),
    closer_to_food |-> Integer(2, 0, 6, 1), further_from_food |-> Integer(-2, -6, 0, 1)]

Game == [board_width |-> FixedInt(20), board_height |-> FixedInt(20),
    initial_snake_length |-> FixedInt(3), max_moves_multiplier |-> FixedInt(100)]

\* Mutant of Model: a default that its own rule excludes.
ModelMisfit == [hidden_size |-> Integer(225, 64, 384, 16),
    layers |-> FixedInt(4), dropout |-> Fixed(1000)]

\* Mutant of Model: a hidden size without a minimum.
ModelUnbounded == [hidden_size |-> Integer(224, 0, 384, 16),
    layers |-> FixedInt(4), dropout |-> Fixed(1000)]

Model == [hidden_size |-> Integer(224, 64, 384, 16),
    layers |-> FixedInt(4), dropout |-> Fixed(1000)]

Training == [sequence_length |-> Integer(8, 4, 48, 4),
    batch_size |-> Integer(24, 8, 64, 2), replay_max_frames |-> FixedInt(100000),
    learning_rate |-> Number(21, 5, 50), gamma |-> Number(9600, 9000, 9900),
    tau |-> Fixed(10), max_gradient_norm |-> Fixed(10000)]

Epsilon == [initial |-> Number(9600, 8500, 9990), minimum |-> Fixed(0),
    decay |-> Number(9700, 9000, 9990)]

Rules == [run |-> Run, game |-> Game, rewards |-> Rewards, model |-> Model,
          training |-> Training, epsilon |-> Epsilon]
Place == [run |-> <<>>, game |-> <<"game">>, rewards |-> <<"game", "rewards">>,
          model |-> <<"model">>, training |-> <<"training">>, epsilon |-> <<"epsilon">>]

Sections == {Place[s] : s \in DOMAIN Place}
Fields == UNION {{Append(Place[s], k) : k \in DOMAIN Rules[s]} : s \in DOMAIN Rules}

\* The whole of it: a rule for every place.
Schema ==
    [p \in Sections \cup Fields |->
       IF p \in Sections THEN [type |-> "object", default |-> Section]
       ELSE Rules[IF Len(p) = 1 THEN "run" ELSE p[Len(p) - 1]][p[Len(p)]]]

----------------------------------------------------------------------------
(* JSONValidator and Configuration.resolve                                 *)
Defaults(schema) == [p \in DOMAIN schema |-> schema[p].default]

\* Mutant of Merge: a submitted section replaces the section of the defaults.
MergeShallow(target, overrides) ==
    LET replaced(p) == \E q \in Above(p) \ {<<>>} : q \in DOMAIN overrides
    IN  [p \in DOMAIN overrides \cup {p \in DOMAIN target : ~replaced(p)} |->
           IF p \in DOMAIN overrides THEN overrides[p] ELSE target[p]]

\* An override that is an object is merged into an object, any other one replaces what
\* was at its place and all that was inside of it.
Merge(target, overrides) ==
    LET replaced(p) == \E q \in Above(p) \cap DOMAIN overrides : overrides[q] # Section
    IN  [p \in DOMAIN overrides \cup {p \in DOMAIN target : ~replaced(p)} |->
           IF p \in DOMAIN overrides THEN overrides[p] ELSE target[p]]

\* jsonschema: an integer may be written with a fraction that is zero.
LegalValue(rule, value) ==
    IF rule.type = "object" THEN value = Section
    ELSE /\ value.t \in {"int", "float"}
         /\ rule.type = "integer" => value.n % Unit = 0
         /\ rule.lo <= value.n /\ value.n <= rule.hi
         /\ value.n % rule.step = 0

Valid(schema, document) ==
    /\ DOMAIN document = DOMAIN schema
    /\ \A p \in DOMAIN schema : LegalValue(schema[p], document[p])

\* The values of a section.
Part(config, s) == [k \in DOMAIN Rules[s] |-> config[Append(Place[s], k)]]

\* The rules between fields.  Those on integers look at values of type int only.
Related(config) ==
    LET game == Part(config, "game")
        training == Part(config, "training")
        epsilon == Part(config, "epsilon")
        ints(part, keys) == \A k \in keys : part[k].t = "int"
        int(leaf) == leaf.n \div Unit
    IN  /\ epsilon.minimum.n <= epsilon.initial.n
        /\ ints(game, {"initial_snake_length", "board_width"})
              => game.initial_snake_length.n <= game.board_width.n
        /\ ints(game, {"initial_snake_length", "board_width", "board_height"})
              => int(game.initial_snake_length)
                    < int(game.board_width) * int(game.board_height)
        /\ ints(training, {"sequence_length", "batch_size", "replay_max_frames"})
              => int(training.sequence_length) * int(training.batch_size)
                    <= int(training.replay_max_frames)

\* Mutant of Checked: the defaults are checked, and merged after that.
CheckedEarly(defaults, resolved) == defaults

\* What resolve looks at: the defaults with the overrides in them.
Checked(defaults, resolved) == resolved

Accepts(defaults, document) ==
    /\ document[<<>>] = Section
    /\ LET resolved == Merge(defaults, document)
       IN  /\ Valid(Schema, Checked(defaults, resolved))
           /\ Related(Checked(defaults, resolved))

----------------------------------------------------------------------------
(* The constructors that a run passes through                              *)
Whole(leaf) == leaf.t = "int" /\ leaf.n > 0
Between(leaf, lo, hi) == leaf.t \in {"int", "float"} /\ lo <= leaf.n /\ leaf.n <= hi

RNNModel(model) ==
    /\ Whole(model.hidden_size) /\ Whole(model.layers)
    /\ Between(model.dropout, 0, Unit - 1)

ReplayMemory(training) ==
    /\ Whole(training.sequence_length)
    /\ Whole(training.batch_size)
    /\ Whole(training.replay_max_frames)
    /\ (training.sequence_length.n \div Unit) * (training.batch_size.n \div Unit)
          <= training.replay_max_frames.n \div Unit

Trainer(training) ==
    /\ training.learning_rate.n > 0
    /\ Between(training.gamma, 0, Unit)
    /\ Between(training.tau, 1, Unit)
    /\ training.max_gradient_norm.n > 0

EpsilonAlgo(epsilon) ==
    /\ \A k \in DOMAIN epsilon : Between(epsilon[k], 0, Unit)
    /\ epsilon.minimum.n <= epsilon.initial.n
    /\ epsilon.decay.n > 0

SnakeGame(game, rewards) ==
    /\ \A k \in DOMAIN game : Whole(game[k])
    /\ game.initial_snake_length.n <= game.board_width.n
    /\ (game.initial_snake_length.n \div Unit)
          < (game.board_width.n \div Unit) * (game.board_height.n \div Unit)
    /\ \A k \in DOMAIN rewards : rewards[k].t \in {"int", "float"}

\* _setup, the range over the epochs, and the game of the first of them.
Plays(config) ==
    LET run == Part(config, "run")
    IN  /\ RNNModel(Part(config, "model"))
        /\ ReplayMemory(Part(config, "training"))
        /\ Trainer(Part(config, "training"))
        /\ EpsilonAlgo(Part(config, "epsilon"))
        /\ run.epochs.t = "int"
        /\ run.epochs.n > 0 => SnakeGame(Part(config, "game"), Part(config, "rewards"))

----------------------------------------------------------------------------
ConfigInit ==
    /\ template = Schema
    /\ asked = Empty /\ answer = Empty /\ pc = "idle"

Submit(document) ==
    /\ pc = "idle"
    /\ asked' = document /\ pc' = "asked"
    /\ UNCHANGED <<template, answer>>

\* Mutant of Kept: the overrides are merged into the defaults of the schema itself.
KeptChanged(schema, config) ==
    [p \in DOMAIN schema |-> [schema[p] EXCEPT !.default = config[p]]]

\* The copies of _defaults and _merge leave the schema as it was.
Kept(schema, config) == schema

Resolve ==
    /\ pc = "asked"
    /\ LET defaults == Defaults(template)
       IN  IF Accepts(defaults, asked)
           THEN /\ answer' = Merge(defaults, asked)
                /\ template' = Kept(template, answer')
                /\ pc' = "accepted"
           ELSE /\ pc' = "rejected"
                /\ UNCHANGED <<template, answer>>
    /\ UNCHANGED asked

\* The worker takes the run.
Start ==
    /\ pc = "accepted"
    /\ pc' = IF Plays(answer) THEN "playing" ELSE "failed"
    /\ UNCHANGED <<template, asked, answer>>

Forget ==
    /\ pc \in {"rejected", "playing", "failed"}
    /\ asked' = Empty /\ answer' = Empty /\ pc' = "idle"
    /\ UNCHANGED template

ConfigNext == (\E document \in Documents : Submit(document)) \/ Resolve \/ Start \/ Forget

ConfigSpec == ConfigInit /\ [][ConfigNext]_config_vars

----------------------------------------------------------------------------
\* The template keeps its places, and has a default for every field that is legal there.
ConfigTypeOK ==
    /\ pc \in {"idle", "asked", "accepted", "rejected", "playing", "failed"}
    /\ DOMAIN template = Sections \cup Fields
    /\ \A p \in Fields : LegalValue(Schema[p], template[p].default)

\* Every place of the document is one of the schema, with a value that is legal there.
Legal(document) ==
    \A p \in DOMAIN document : p \in DOMAIN Schema /\ LegalValue(Schema[p], document[p])

Resolved == pc \in {"accepted", "rejected", "playing", "failed"}

\* "Partial configurations are accepted": whatever was submitted before, a legal
\* document is accepted and means its own values and the schema's defaults elsewhere.
PartialIsAccepted ==
    Resolved /\ Legal(asked) =>
        /\ pc # "rejected"
        /\ DOMAIN answer = DOMAIN Schema
        /\ \A p \in Fields :
              answer[p] = IF p \in DOMAIN asked THEN asked[p] ELSE Schema[p].default

\* Nothing else is accepted: no unknown key at any depth, no value beyond its
\* bounds, no section in place of a value or the other way round.
OthersAreRejected == Resolved /\ ~Legal(asked) => pc = "rejected"

\* What is accepted is what the schema describes, completed by its defaults.
AcceptedIsLegal == ConfigTypeOK /\ PartialIsAccepted /\ OthersAreRejected

\* The bounds of the schema are inside those of the constructors, alone and
\* together: a run that is accepted with integers written as integers gets to play.
AcceptedIntegersPlay ==
    pc = "failed" =>
        \E p \in Fields : Schema[p].type = "integer" /\ answer[p].t = "float"

============================================================================
