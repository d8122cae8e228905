------------------------- MODULE ConfiguredGameProofs -------------------------
(***************************************************************************)
(* Theorems about what a submission comes to.  First about Configuration,   *)
(* whatever documents are submitted: which of them are accepted, what they  *)
(* mean, and that a run with an accepted one can be played.  Then about     *)
(* SnakeGame, for a grid of any size, a snake of any initial length that    *)
(* fits, and any limit on the moves: what is played is sound.               *)
(***************************************************************************)
EXTENDS Configuration, SnakeGame, FiniteSetTheorems, TLAPS

-----------------------------------------------------------------------------
(* The rules and the places of the schema.                                  *)

\* A rule of a number, with a default that it allows.
Sound(rule) == /\ rule.type \in {"integer", "number"}
               /\ rule.default \in Leaf /\ LegalValue(rule, rule.default)

\* The sections by their names.
LEMMA SectionNames ==
  /\ DOMAIN Rules = {"run", "game", "rewards", "model", "training", "epsilon"}
  /\ DOMAIN Place = DOMAIN Rules
BY DEF Rules, Place

\* The default of every field is one that its rule allows.
LEMMA DefaultsAreLegal ==
  ASSUME NEW s \in DOMAIN Rules, NEW k \in DOMAIN Rules[s]
  PROVE  Sound(Rules[s][k])
<1> USE DEF Sound, Leaf, LegalValue, Integer, Number, FixedInt, Fixed, WholeNumber, Decimal,
            Unit
<1>1. CASE s = "run"
  <2>1. Rules[s] = Run
    BY <1>1 DEF Rules
  <2>2. k \in {"epochs", "seed"}
    BY <2>1 DEF Run
  <2>3. CASE k = "epochs"
    BY <2>1, <2>3, ConfigurationAssumption DEF Run
  <2>4. CASE k = "seed"
    BY <2>1, <2>4, ConfigurationAssumption DEF Run
  <2> QED
    BY <2>2, <2>3, <2>4
<1>2. CASE s = "game"
  <2>1. Rules[s] = Game
    BY <1>2 DEF Rules
  <2> QED
    BY <2>1 DEF Game
<1>3. CASE s = "rewards"
  <2>1. Rules[s] = Rewards
    BY <1>3 DEF Rules
  <2> QED
    BY <2>1 DEF Rewards
<1>4. CASE s = "model"
  <2>1. Rules[s] = Model
    BY <1>4 DEF Rules
  <2> QED
    BY <2>1 DEF Model
<1>5. CASE s = "training"
  <2>1. Rules[s] = Training
    BY <1>5 DEF Rules
  <2> QED
    BY <2>1 DEF Training
<1>6. CASE s = "epsilon"
  <2>1. Rules[s] = Epsilon
    BY <1>6 DEF Rules
  <2> QED
    BY <2>1 DEF Epsilon
<1> HIDE DEF Sound, Leaf, LegalValue, Integer, Number, FixedInt, Fixed, WholeNumber, Decimal,
             Unit
<1> QED
  BY <1>1, <1>2, <1>3, <1>4, <1>5, <1>6, SectionNames

\* No field has the name of a section.
LEMMA FieldNames ==
  ASSUME NEW s \in DOMAIN Rules, NEW k \in DOMAIN Rules[s]
  PROVE  k \notin {"game", "rewards", "model", "training", "epsilon"}
<1>1. CASE s = "run"
  BY <1>1 DEF Rules, Run
<1>2. CASE s = "game"
  BY <1>2 DEF Rules, Game
<1>3. CASE s = "rewards"
  BY <1>3 DEF Rules, Rewards
<1>4. CASE s = "model"
  BY <1>4 DEF Rules, Model
<1>5. CASE s = "training"
  BY <1>5 DEF Rules, Training
<1>6. CASE s = "epsilon"
  BY <1>6 DEF Rules, Epsilon
<1> QED
  BY <1>1, <1>2, <1>3, <1>4, <1>5, <1>6, SectionNames

\* Where the sections are.
LEMMA PlacesOfSections ==
  /\ Sections = {<<>>, <<"game">>, <<"game", "rewards">>, <<"model">>, <<"training">>,
                 <<"epsilon">>}
  /\ Place.run = <<>> /\ Place.game = <<"game">> /\ Place.rewards = <<"game", "rewards">>
  /\ Place.model = <<"model">> /\ Place.training = <<"training">>
  /\ Place.epsilon = <<"epsilon">>
BY DEF Sections, Place

\* What is above a place of the schema is a section.
LEMMA AboveSections ==
  \A p \in Sections : Above(p) \subseteq Sections
<1>1. Above(<<>>) = {}
  BY DEF Above
<1>2. ASSUME NEW a
      PROVE  Above(<<a>>) = {<<>>}
  <2> DEFINE p == <<a>>
  <2>1. Len(p) = 1 /\ p \in Seq({a})
    OBVIOUS
  <2> HIDE DEF p
  <2>2. SubSeq(p, 1, 0) = <<>>
    BY <2>1
  <2>3. \A n : n \in 0..(Len(p) - 1) <=> n = 0
    BY <2>1
  <2>4. Above(p) = {<<>>}
    BY <2>2, <2>3 DEF Above
  <2> QED
    BY <2>4 DEF p
<1>3. Above(<<"game", "rewards">>) \subseteq {<<>>, <<"game">>}
  <2> DEFINE p == <<"game", "rewards">>
  <2>1. Len(p) = 2 /\ p \in Seq({"game", "rewards"}) /\ p[1] = "game"
    OBVIOUS
  <2> HIDE DEF p
  <2>2. SubSeq(p, 1, 0) = <<>>
    BY <2>1
  <2>3. SubSeq(p, 1, 1) = <<"game">>
    <3> DEFINE q == SubSeq(p, 1, 1)
    <3>1. q \in Seq({"game", "rewards"}) /\ Len(q) = 1 /\ q[1] = "game"
      BY <2>1
    <3> HIDE DEF q
    <3>2. q = <<"game">>
      BY <3>1
    <3> QED
      BY <3>2 DEF q
  <2>4. \A n \in 0..(Len(p) - 1) : n = 0 \/ n = 1
    BY <2>1
  <2>5. \A n \in 0..(Len(p) - 1) : SubSeq(p, 1, n) \in {<<>>, <<"game">>}
    BY <2>1, <2>2, <2>3, <2>4
  <2>6. Above(p) \subseteq {<<>>, <<"game">>}
    BY <2>5 DEF Above
  <2> QED
    BY <2>6 DEF p
<1> QED
  BY <1>1, <1>2, <1>3, PlacesOfSections

\* Where a field is: inside of its section, and nowhere else.
LEMMA PlacesOfFields ==
  ASSUME NEW s \in DOMAIN Rules, NEW k \in DOMAIN Rules[s]
  PROVE  LET p == Append(Place[s], k)
         IN  /\ p \in Fields /\ p \notin Sections
             /\ Above(p) \subseteq Sections
             /\ Schema[p] = Rules[s][k]
<1> DEFINE p == Append(Place[s], k)
<1>1. p \in Fields
  <2>1. Append(Place[s], k) \in {Append(Place[s], j) : j \in DOMAIN Rules[s]}
    OBVIOUS
  <2> QED
    BY <2>1 DEF Fields
<1>2. k \notin {"game", "rewards", "model", "training", "epsilon"}
  BY FieldNames
<1> DEFINE Keys == {"game", "rewards", "model", "training", "epsilon", k}
<1>3. /\ Place[s] \in Sections /\ Place[s] \in Seq(Keys) /\ Above(Place[s]) \subseteq Sections
  <2>1. Place[s] \in Sections
    BY SectionNames DEF Sections
  <2>2. /\ <<>> \in Seq(Keys) /\ <<"game">> \in Seq(Keys) /\ <<"game", "rewards">> \in Seq(Keys)
        /\ <<"model">> \in Seq(Keys) /\ <<"training">> \in Seq(Keys)
        /\ <<"epsilon">> \in Seq(Keys)
    OBVIOUS
  <2> HIDE DEF Keys
  <2>3. \A q \in Sections : q \in Seq(Keys)
    BY <2>2, PlacesOfSections
  <2> QED
    BY <2>1, <2>3, AboveSections
<1>4. p \in Seq(Keys) /\ Len(p) = Len(Place[s]) + 1 /\ p[Len(p)] = k
      /\ \A i \in 1..Len(Place[s]) : p[i] = Place[s][i]
  BY <1>2, <1>3
<1>5. p \notin Sections
  <2>1. p # <<>>
    <3>1. Len(Place[s]) \in Nat /\ Len(<<>>) = 0
      BY <1>3
    <3>2. Len(p) # 0
      BY <1>4, <3>1
    <3> HIDE DEF p
    <3> QED
      BY <3>1, <3>2
  <2>2. \A q \in Sections : q # <<>> =>
           q[Len(q)] \in {"game", "rewards", "model", "training", "epsilon"}
    BY PlacesOfSections
  <2> QED
    BY <1>2, <1>4, <2>1, <2>2
<1>6. Above(p) \subseteq Sections
  <2> SUFFICES ASSUME NEW n \in 0..(Len(p) - 1)
               PROVE  SubSeq(p, 1, n) \in Sections
    BY DEF Above
  <2>1. SubSeq(p, 1, n) = SubSeq(Place[s], 1, n)
    <3> PICK q, o : q = SubSeq(p, 1, n) /\ o = SubSeq(Place[s], 1, n)
      OBVIOUS
    <3>1. /\ n \in Nat /\ n <= Len(Place[s]) /\ n <= Len(p)
          /\ Len(Place[s]) \in Nat
      BY <1>3, <1>4
    <3>2. q \in Seq(Keys) /\ Len(q) = n /\ \A i \in 1..n : q[i] = p[i]
      BY <1>4, <3>1
    <3>3. o \in Seq(Keys) /\ Len(o) = n /\ \A i \in 1..n : o[i] = Place[s][i]
      BY <1>3, <3>1
    <3>4. \A i \in 1..n : q[i] = o[i]
      BY <1>4, <3>1, <3>2, <3>3
    <3> HIDE DEF Keys
    <3>5. q = o
      BY <3>2, <3>3, <3>4
    <3> QED
      BY <3>5
  <2>2. CASE n = Len(Place[s])
    <3>1. SubSeq(Place[s], 1, n) = Place[s]
      BY <1>3, <2>2
    <3> QED
      BY <1>3, <2>1, <3>1
  <2>3. CASE n # Len(Place[s])
    <3>1. n \in 0..(Len(Place[s]) - 1)
      BY <1>3, <1>4, <2>3
    <3> QED
      BY <1>3, <2>1, <3>1 DEF Above
  <2> QED
    BY <2>2, <2>3
<1>7. Schema[p] = Rules[s][k]
  <2>1. Schema[p] = Rules[IF Len(p) = 1 THEN "run" ELSE p[Len(p) - 1]][p[Len(p)]]
    BY <1>1, <1>5 DEF Schema
  <2>2. (IF Len(p) = 1 THEN "run" ELSE p[Len(p) - 1]) = s
    <3>1. CASE s = "run"
      BY <1>4, <3>1, PlacesOfSections
    <3>2. CASE s = "rewards"
      <4>1. Place[s] = <<"game", "rewards">>
        BY <3>2, PlacesOfSections
      <4>2. Len(p) = 3 /\ p[2] = "rewards"
        BY <1>4, <4>1
      <4> QED
        BY <3>2, <4>2
    <3>3. CASE s \notin {"run", "rewards"}
      <4>1. Place[s] = <<s>>
        BY <3>3, PlacesOfSections, SectionNames
      <4>2. Len(p) = 2 /\ p[1] = s
        BY <1>4, <4>1
      <4> QED
        BY <4>2
    <3> QED
      BY <3>1, <3>2, <3>3
  <2> QED
    BY <1>4, <2>1, <2>2
<1> QED
  BY <1>1, <1>4, <1>5, <1>6, <1>7

\* A place of the schema is a section or a field, and only sections have places inside.
LEMMA PlacesOfSchema ==
  /\ DOMAIN Schema = Sections \cup Fields
  /\ \A p \in Sections : p \notin Fields /\ Schema[p] = [type |-> "object", default |-> Section]
  /\ \A p \in Fields : p \notin Sections /\ Sound(Schema[p])
  /\ \A p \in DOMAIN Schema : Above(p) \subseteq Sections
<1>1. ASSUME NEW p \in Fields
      PROVE  p \notin Sections /\ Sound(Schema[p]) /\ Above(p) \subseteq Sections
  <2>1. PICK s \in DOMAIN Rules : p \in {Append(Place[s], k) : k \in DOMAIN Rules[s]}
    BY DEF Fields
  <2>2. PICK k \in DOMAIN Rules[s] : p = Append(Place[s], k)
    BY <2>1
  <2> QED
    BY <2>2, PlacesOfFields, DefaultsAreLegal
<1>2. DOMAIN Schema = Sections \cup Fields
  BY DEF Schema
<1>3. \A p \in Sections : Schema[p] = [type |-> "object", default |-> Section]
  BY DEF Schema
<1> QED
  BY <1>1, <1>2, <1>3, AboveSections

-----------------------------------------------------------------------------
(* What the merge makes of a document.                                      *)

\* The defaults are a document that is legal everywhere.
LEMMA SchemaDefaults ==
  /\ DOMAIN Defaults(Schema) = DOMAIN Schema
  /\ \A p \in DOMAIN Schema : /\ Defaults(Schema)[p] = Schema[p].default
                              /\ LegalValue(Schema[p], Schema[p].default)
<1>1. ASSUME NEW p \in DOMAIN Schema
      PROVE  LegalValue(Schema[p], Schema[p].default)
  <2>1. CASE p \in Sections
    BY <2>1, PlacesOfSchema DEF LegalValue
  <2>2. CASE p \in Fields
    BY <2>2, PlacesOfSchema DEF Sound
  <2> QED
    BY <2>1, <2>2, PlacesOfSchema
<1> QED
  BY <1>1 DEF Defaults

\* A section has the value of a section, everywhere, and nothing else is legal there.
LEMMA LegalSections ==
  ASSUME NEW p \in Sections, NEW value
  PROVE  LegalValue(Schema[p], value) <=> value = Section
BY PlacesOfSchema DEF LegalValue

\* Legal overrides replace no section, so that the places stay those of the schema.
LEMMA LegalMerge ==
  ASSUME NEW d, <<>> \in DOMAIN d, Legal(d)
  PROVE  LET resolved == Merge(Defaults(Schema), d)
         IN  /\ Valid(Schema, resolved) /\ d[<<>>] = Section
             /\ \A p \in DOMAIN Schema :
                   resolved[p] = IF p \in DOMAIN d THEN d[p] ELSE Schema[p].default
<1> DEFINE resolved == Merge(Defaults(Schema), d)
<1>1. \A p \in DOMAIN d : p \in DOMAIN Schema /\ LegalValue(Schema[p], d[p])
  BY DEF Legal
<1>2. \A p \in DOMAIN Schema :
         ~ \E q \in Above(p) \cap DOMAIN d : d[q] # Section
  BY <1>1, LegalSections, PlacesOfSchema
<1>3. DOMAIN resolved = DOMAIN Schema
  BY <1>1, <1>2, SchemaDefaults DEF Merge
<1>4. \A p \in DOMAIN Schema :
         resolved[p] = IF p \in DOMAIN d THEN d[p] ELSE Schema[p].default
  BY <1>1, <1>2, SchemaDefaults DEF Merge
<1>5. Valid(Schema, resolved)
  <2> HIDE DEF resolved
  <2> QED
    BY <1>1, <1>3, <1>4, SchemaDefaults DEF Valid
<1>6. d[<<>>] = Section
  BY <1>1, LegalSections, PlacesOfSections
<1> QED
  BY <1>4, <1>5, <1>6

\* A document that is merged into something valid is legal itself.
LEMMA MergedIsLegal ==
  ASSUME NEW d, Valid(Schema, Merge(Defaults(Schema), d))
  PROVE  Legal(d)
<1> DEFINE resolved == Merge(Defaults(Schema), d)
<1>1. \A p \in DOMAIN d : p \in DOMAIN resolved /\ resolved[p] = d[p]
  BY DEF Merge
<1> HIDE DEF resolved
<1>2. DOMAIN resolved = DOMAIN Schema
      /\ \A p \in DOMAIN Schema : LegalValue(Schema[p], resolved[p])
  BY DEF Valid, resolved
<1> QED
  BY <1>1, <1>2 DEF Legal

-----------------------------------------------------------------------------
(* The values of a valid configuration.                                     *)

\* The values of a section of a valid configuration are those of its rules.
LEMMA ValidPart ==
  ASSUME NEW config, Valid(Schema, config), NEW s \in DOMAIN Rules
  PROVE  /\ DOMAIN Part(config, s) = DOMAIN Rules[s]
         /\ \A k \in DOMAIN Rules[s] : LegalValue(Rules[s][k], Part(config, s)[k])
<1>1. ASSUME NEW k \in DOMAIN Rules[s]
      PROVE  LegalValue(Rules[s][k], Part(config, s)[k])
  <2> PICK p : p = Append(Place[s], k)
    OBVIOUS
  <2>1. p \in DOMAIN Schema /\ Schema[p] = Rules[s][k]
    BY PlacesOfFields, PlacesOfSchema
  <2>2. Part(config, s)[k] = config[p]
    BY DEF Part
  <2> QED
    BY <2>1, <2>2 DEF Valid
<1> QED
  BY <1>1 DEF Part

\* Every value of the document is one that JSON has.
IsTyped(config) == \A p \in DOMAIN config : config[p] \in Leaf \cup {Section}

\* A number between the bounds of its rule, and an integer where the rule wants one.
LEMMA ValuesOfSections ==
  ASSUME NEW config, Valid(Schema, config), IsTyped(config),
         NEW s \in DOMAIN Rules, NEW k \in DOMAIN Rules[s],
         NEW value, value = Part(config, s)[k]
  PROVE  /\ Rules[s][k].type \in {"integer", "number"}
         /\ value.t \in {"int", "float"} /\ value.n \in Int
         /\ Rules[s][k].lo <= value.n /\ value.n <= Rules[s][k].hi
         /\ Rules[s][k].type = "integer" => value.n % Unit = 0
<1> PICK p : p = Append(Place[s], k)
  OBVIOUS
<1>1. /\ p \in DOMAIN Schema /\ Schema[p] = Rules[s][k]
      /\ Rules[s][k].type \in {"integer", "number"}
  BY PlacesOfFields, PlacesOfSchema, DefaultsAreLegal DEF Sound
<1>2. LegalValue(Rules[s][k], value)
  BY ValidPart
<1>3. value = config[p] /\ p \in DOMAIN config
  BY <1>1 DEF Part, Valid
<1>4. value.t \in {"int", "float"} /\ Rules[s][k].lo <= value.n /\ value.n <= Rules[s][k].hi
      /\ (Rules[s][k].type = "integer" => value.n % Unit = 0)
  BY <1>1, <1>2 DEF LegalValue
<1>5. value \in Leaf
  BY <1>3, <1>4 DEF IsTyped, Section
<1> QED
  BY <1>1, <1>4, <1>5 DEF Leaf

\* An integer between two bounds.
Within(n, lo, hi) == n \in Int /\ lo <= n /\ n <= hi

USE DEF Within

\* The provers need the number itself only where they calculate.
LEMMA UnitIs == Unit = 10000
BY DEF Unit

\* The game of a valid configuration.
LEMMA ValuesOfGame ==
  ASSUME NEW config, Valid(Schema, config), IsTyped(config),
         NEW game, game = Part(config, "game")
  PROVE  /\ \A k \in DOMAIN game : game[k].t \in {"int", "float"}
         /\ DOMAIN game = {"board_width", "board_height", "initial_snake_length",
                           "max_moves_multiplier"}
         /\ game.board_width.n = 20 * Unit /\ game.board_height.n = 20 * Unit
         /\ game.initial_snake_length.n = 3 * Unit /\ game.max_moves_multiplier.n = 100 * Unit
<1>1. /\ "game" \in DOMAIN Rules /\ Rules["game"] = Game
      /\ DOMAIN game = DOMAIN Game
  BY SectionNames, ValidPart DEF Rules
<1>2. DOMAIN game = {"board_width", "board_height", "initial_snake_length",
                     "max_moves_multiplier"}
  BY <1>1 DEF Game
<1>3. \A k \in DOMAIN game : /\ game[k].t \in {"int", "float"} /\ game[k].n \in Int
                             /\ Game[k].lo <= game[k].n /\ game[k].n <= Game[k].hi
  BY <1>1, ValuesOfSections
<1>4. /\ Game["board_width"] = FixedInt(20) /\ Game["board_height"] = FixedInt(20)
      /\ Game["initial_snake_length"] = FixedInt(3)
      /\ Game["max_moves_multiplier"] = FixedInt(100)
  BY DEF Game
<1>5. \A n \in Int : FixedInt(n).lo = n * Unit /\ FixedInt(n).hi = n * Unit
  BY DEF FixedInt, Integer
<1>6. \A k \in DOMAIN game, n \in Int : Game[k] = FixedInt(n) => game[k].n = n * Unit
  <2> SUFFICES ASSUME NEW k \in DOMAIN game, NEW n \in Int, Game[k] = FixedInt(n)
               PROVE  game[k].n = n * Unit
    OBVIOUS
  <2>1. game[k].n \in Int /\ n * Unit <= game[k].n /\ game[k].n <= n * Unit
    BY <1>3, <1>5
  <2>2. n * Unit \in Int
    BY UnitIs
  <2> QED
    BY <2>1, <2>2
<1>7. /\ game["board_width"].n = 20 * Unit /\ game["board_height"].n = 20 * Unit
      /\ game["initial_snake_length"].n = 3 * Unit
      /\ game["max_moves_multiplier"].n = 100 * Unit
  BY <1>2, <1>4, <1>6
<1> QED
  BY <1>2, <1>3, <1>7

\* Its training.
LEMMA ValuesOfTraining ==
  ASSUME NEW config, Valid(Schema, config), IsTyped(config),
         NEW training, training = Part(config, "training")
  PROVE  /\ \A k \in DOMAIN training : training[k].t \in {"int", "float"} /\ training[k].n \in Int
         /\ DOMAIN training = {"sequence_length", "batch_size", "replay_max_frames",
                               "learning_rate", "gamma", "tau", "max_gradient_norm"}
         /\ Within(training.sequence_length.n, 4 * Unit, 48 * Unit)
         /\ Within(training.batch_size.n, 8 * Unit, 64 * Unit)
         /\ training.replay_max_frames.n = 100000 * Unit
         /\ Within(training.learning_rate.n, 5, 50) /\ Within(training.gamma.n, 9000, 9900)
         /\ training.tau.n = 10 /\ training.max_gradient_norm.n = Unit
<1>1. /\ "training" \in DOMAIN Rules /\ Rules["training"] = Training
      /\ DOMAIN training = DOMAIN Training
  BY SectionNames, ValidPart DEF Rules
<1>2. DOMAIN training = {"sequence_length", "batch_size", "replay_max_frames",
                         "learning_rate", "gamma", "tau", "max_gradient_norm"}
  BY <1>1 DEF Training
<1>3. \A k \in DOMAIN training :
         /\ training[k].t \in {"int", "float"} /\ training[k].n \in Int
         /\ Training[k].lo <= training[k].n /\ training[k].n <= Training[k].hi
  BY <1>1, ValuesOfSections
<1>4. /\ Training["sequence_length"].lo = 4 * Unit
      /\ Training["sequence_length"].hi = 48 * Unit
      /\ Training["batch_size"].lo = 8 * Unit /\ Training["batch_size"].hi = 64 * Unit
      /\ Training["replay_max_frames"].lo = 100000 * Unit
      /\ Training["replay_max_frames"].hi = 100000 * Unit
      /\ Training["learning_rate"].lo = 5 /\ Training["learning_rate"].hi = 50
      /\ Training["gamma"].lo = 9000 /\ Training["gamma"].hi = 9900
      /\ Training["tau"].lo = 10 /\ Training["tau"].hi = 10
      /\ Training["max_gradient_norm"].lo = Unit /\ Training["max_gradient_norm"].hi = Unit
  BY UnitIs DEF Training, Integer, Number, FixedInt, Fixed
<1>5. /\ 4 * Unit <= training["sequence_length"].n /\ training["sequence_length"].n <= 48 * Unit
      /\ training["sequence_length"].n \in Int
  BY <1>2, <1>3, <1>4
<1>6. /\ 8 * Unit <= training["batch_size"].n /\ training["batch_size"].n <= 64 * Unit
      /\ training["batch_size"].n \in Int
  BY <1>2, <1>3, <1>4
<1>7. /\ 100000 * Unit <= training["replay_max_frames"].n
      /\ training["replay_max_frames"].n <= 100000 * Unit
      /\ training["replay_max_frames"].n \in Int
  BY <1>2, <1>3, <1>4
<1>8. Within(training["learning_rate"].n, 5, 50)
  BY <1>2, <1>3, <1>4
<1>9. Within(training["gamma"].n, 9000, 9900)
  BY <1>2, <1>3, <1>4
<1>10. training["tau"].n = 10
  <2>1. training["tau"].n \in Int /\ 10 <= training["tau"].n /\ training["tau"].n <= 10
    BY <1>2, <1>3, <1>4
  <2> QED
    BY <2>1
<1>11. training["max_gradient_norm"].n = Unit
  <2>1. /\ training["max_gradient_norm"].n \in Int
        /\ Unit <= training["max_gradient_norm"].n /\ training["max_gradient_norm"].n <= Unit
    BY <1>2, <1>3, <1>4
  <2> QED
    BY <2>1, UnitIs
<1>12. /\ Within(training["sequence_length"].n, 4 * Unit, 48 * Unit)
       /\ Within(training["batch_size"].n, 8 * Unit, 64 * Unit)
       /\ training["replay_max_frames"].n = 100000 * Unit
  BY <1>5, <1>6, <1>7, UnitIs
<1> QED
  BY <1>2, <1>3, <1>8, <1>9, <1>10, <1>11, <1>12

\* Its exploration.
LEMMA ValuesOfEpsilon ==
  ASSUME NEW config, Valid(Schema, config), IsTyped(config),
         NEW epsilon, epsilon = Part(config, "epsilon")
  PROVE  /\ \A k \in DOMAIN epsilon : epsilon[k].t \in {"int", "float"}
         /\ DOMAIN epsilon = {"initial", "minimum", "decay"}
         /\ Within(epsilon.initial.n, 8500, 9990) /\ epsilon.minimum.n = 0
         /\ Within(epsilon.decay.n, 9000, 9990)
<1>1. /\ "epsilon" \in DOMAIN Rules /\ Rules["epsilon"] = Epsilon
      /\ DOMAIN epsilon = DOMAIN Epsilon
  BY SectionNames, ValidPart DEF Rules
<1>2. DOMAIN epsilon = {"initial", "minimum", "decay"}
  BY <1>1 DEF Epsilon
<1>3. \A k \in DOMAIN epsilon :
         /\ epsilon[k].t \in {"int", "float"} /\ epsilon[k].n \in Int
         /\ Epsilon[k].lo <= epsilon[k].n /\ epsilon[k].n <= Epsilon[k].hi
  BY <1>1, ValuesOfSections
<1>4. /\ Epsilon["initial"].lo = 8500 /\ Epsilon["initial"].hi = 9990
      /\ Epsilon["minimum"].lo = 0 /\ Epsilon["minimum"].hi = 0
      /\ Epsilon["decay"].lo = 9000 /\ Epsilon["decay"].hi = 9990
  BY DEF Epsilon, Number, Fixed
<1>5. Within(epsilon["initial"].n, 8500, 9990)
  BY <1>2, <1>3, <1>4
<1>6. Within(epsilon["decay"].n, 9000, 9990)
  BY <1>2, <1>3, <1>4
<1>7. epsilon["minimum"].n = 0
  <2>1. epsilon["minimum"].n \in Int /\ 0 <= epsilon["minimum"].n /\ epsilon["minimum"].n <= 0
    BY <1>2, <1>3, <1>4
  <2> QED
    BY <2>1
<1> QED
  BY <1>2, <1>3, <1>5, <1>6, <1>7

\* Its model.
LEMMA ValuesOfModel ==
  ASSUME NEW config, Valid(Schema, config), IsTyped(config),
         NEW model, model = Part(config, "model")
  PROVE  /\ \A k \in DOMAIN model : model[k].t \in {"int", "float"}
         /\ DOMAIN model = {"hidden_size", "layers", "dropout"}
         /\ Within(model.hidden_size.n, 64 * Unit, 384 * Unit) /\ model.layers.n = 4 * Unit
         /\ model.dropout.n = 1000
<1>1. /\ "model" \in DOMAIN Rules /\ Rules["model"] = Model
      /\ DOMAIN model = DOMAIN Model
  BY SectionNames, ValidPart DEF Rules
<1>2. DOMAIN model = {"hidden_size", "layers", "dropout"}
  BY <1>1 DEF Model
<1>3. \A k \in DOMAIN model :
         /\ model[k].t \in {"int", "float"} /\ model[k].n \in Int
         /\ Model[k].lo <= model[k].n /\ model[k].n <= Model[k].hi
  BY <1>1, ValuesOfSections
<1>4. /\ Model["hidden_size"].lo = 64 * Unit /\ Model["hidden_size"].hi = 384 * Unit
      /\ Model["layers"].lo = 4 * Unit /\ Model["layers"].hi = 4 * Unit
      /\ Model["dropout"].lo = 1000 /\ Model["dropout"].hi = 1000
  BY UnitIs DEF Model, Integer, Number, FixedInt, Fixed
<1>5. /\ 64 * Unit <= model["hidden_size"].n /\ model["hidden_size"].n <= 384 * Unit
      /\ model["hidden_size"].n \in Int
  BY <1>2, <1>3, <1>4
<1>6. /\ 4 * Unit <= model["layers"].n /\ model["layers"].n <= 4 * Unit
      /\ model["layers"].n \in Int
  BY <1>2, <1>3, <1>4
<1>7. /\ 1000 <= model["dropout"].n /\ model["dropout"].n <= 1000 /\ model["dropout"].n \in Int
  BY <1>2, <1>3, <1>4
<1>8. /\ Within(model["hidden_size"].n, 64 * Unit, 384 * Unit)
      /\ model["layers"].n = 4 * Unit /\ model["dropout"].n = 1000
  BY <1>5, <1>6, <1>7, UnitIs
<1> QED
  BY <1>2, <1>3, <1>8

\* Batches of any legal size fit the memory.
LEMMA BatchesFit ==
  ASSUME NEW a, Within(a, 4 * Unit, 48 * Unit), NEW b, Within(b, 8 * Unit, 64 * Unit)
  PROVE  (a \div Unit) * (b \div Unit) <= (100000 * Unit) \div Unit
<1> PICK x, y : x = a \div Unit /\ y = b \div Unit
  OBVIOUS
<1>1. Within(x, 0, 48) /\ Within(y, 0, 64)
  <2>1. Unit = 10000 /\ Within(a, 40000, 480000) /\ Within(b, 80000, 640000)
    BY UnitIs
  <2>2. x = a \div 10000 /\ y = b \div 10000
    BY UnitIs
  <2> QED
    BY ONLY <2>1, <2>2
<1>4. (100000 * Unit) \div Unit = 100000
  BY UnitIs
<1>2. x * y <= 48 * y
  BY <1>1
<1>3. 48 * y <= 3072 /\ x * y \in Int
  BY <1>1
<1> QED
  BY <1>1, <1>2, <1>3, <1>4

\* The snake fits the board, and leaves room for food.
LEMMA SnakeFits ==
  /\ (20 * Unit) \div Unit = 20 /\ (3 * Unit) \div Unit = 3
  /\ 3 * Unit <= 20 * Unit /\ 3 * Unit > 0 /\ 20 * Unit > 0 /\ 100 * Unit > 0
BY UnitIs

\* The bounds of the schema leave nothing for the rules between fields to refuse.
THEOREM RulesBetweenFieldsHold ==
  ASSUME NEW config, Valid(Schema, config), IsTyped(config)
  PROVE  Related(config)
<1> PICK game, training, epsilon : /\ game = Part(config, "game")
                                   /\ training = Part(config, "training")
                                   /\ epsilon = Part(config, "epsilon")
  OBVIOUS
<1>1. epsilon.minimum.n <= epsilon.initial.n
  <2>1. epsilon.minimum.n = 0 /\ Within(epsilon.initial.n, 8500, 9990)
    BY ValuesOfEpsilon
  <2> QED
    BY <2>1
<1>2. /\ game.initial_snake_length.n <= game.board_width.n
      /\ (game.initial_snake_length.n \div Unit)
            < (game.board_width.n \div Unit) * (game.board_height.n \div Unit)
  <2>1. /\ game.board_width.n = 20 * Unit /\ game.board_height.n = 20 * Unit
        /\ game.initial_snake_length.n = 3 * Unit
    BY ValuesOfGame
  <2> QED
    BY <2>1, SnakeFits
<1>3. (training.sequence_length.n \div Unit) * (training.batch_size.n \div Unit)
         <= training.replay_max_frames.n \div Unit
  BY ValuesOfTraining, BatchesFit
<1> QED
  BY <1>1, <1>2, <1>3 DEF Related

\* With integers that are written as integers every constructor is content.
LEMMA IntegersPlay ==
  ASSUME NEW config, Valid(Schema, config), IsTyped(config),
         \A p \in Fields : Schema[p].type = "integer" => config[p].t # "float"
  PROVE  Plays(config)
<1>1. ASSUME NEW s \in DOMAIN Rules, NEW k \in DOMAIN Rules[s], Rules[s][k].type = "integer"
      PROVE  Part(config, s)[k].t = "int"
  <2> PICK p : p = Append(Place[s], k)
    OBVIOUS
  <2>1. p \in Fields /\ Schema[p] = Rules[s][k]
    BY PlacesOfFields
  <2>2. Part(config, s)[k] = config[p]
    BY DEF Part
  <2>3. Part(config, s)[k].t \in {"int", "float"}
    BY ValuesOfSections
  <2> QED
    BY <1>1, <2>1, <2>2, <2>3
<1> PICK run, game, rewards, model, training, epsilon :
          /\ run = Part(config, "run") /\ game = Part(config, "game")
          /\ rewards = Part(config, "rewards") /\ model = Part(config, "model")
          /\ training = Part(config, "training") /\ epsilon = Part(config, "epsilon")
  OBVIOUS
<1>2. /\ \A k \in {"board_width", "board_height", "initial_snake_length",
                   "max_moves_multiplier"} : game[k].t = "int"
      /\ \A k \in {"hidden_size", "layers"} : model[k].t = "int"
      /\ \A k \in {"sequence_length", "batch_size", "replay_max_frames"} : training[k].t = "int"
      /\ run["epochs"].t = "int"
  <2>1. /\ Rules["game"] = Game /\ Rules["model"] = Model /\ Rules["training"] = Training
        /\ Rules["run"] = Run
    BY DEF Rules
  <2>2. \A k \in {"board_width", "board_height", "initial_snake_length",
                  "max_moves_multiplier"} : k \in DOMAIN Game /\ Game[k].type = "integer"
    BY DEF Game, FixedInt, Integer
  <2>3. \A k \in {"hidden_size", "layers"} : k \in DOMAIN Model /\ Model[k].type = "integer"
    BY DEF Model, FixedInt, Integer
  <2>4. \A k \in {"sequence_length", "batch_size", "replay_max_frames"} :
          k \in DOMAIN Training /\ Training[k].type = "integer"
    BY DEF Training, FixedInt, Integer
  <2>5. "epochs" \in DOMAIN Run /\ Run["epochs"].type = "integer"
    BY DEF Run
  <2> QED
    BY <1>1, <2>1, <2>2, <2>3, <2>4, <2>5, SectionNames
<1>3. RNNModel(model)
  <2>3. /\ Within(model.hidden_size.n, 64 * Unit, 384 * Unit) /\ model.layers.n = 4 * Unit
        /\ model.dropout.n = 1000
    BY ValuesOfModel
  <2>1. /\ model.hidden_size.n > 0 /\ model.layers.n > 0
        /\ 0 <= model.dropout.n /\ model.dropout.n <= Unit - 1
    BY <2>3, UnitIs
  <2>2. model.dropout.t \in {"int", "float"}
    BY ValuesOfModel
  <2> QED
    BY <1>2, <2>1, <2>2 DEF RNNModel, Whole, Between
<1>4. ReplayMemory(training)
  <2>3. /\ Within(training.sequence_length.n, 4 * Unit, 48 * Unit)
        /\ Within(training.batch_size.n, 8 * Unit, 64 * Unit)
        /\ training.replay_max_frames.n = 100000 * Unit
    BY ValuesOfTraining
  <2>1. /\ training.sequence_length.n > 0 /\ training.batch_size.n > 0
        /\ training.replay_max_frames.n > 0
    BY <2>3, UnitIs
  <2>2. (training.sequence_length.n \div Unit) * (training.batch_size.n \div Unit)
           <= training.replay_max_frames.n \div Unit
    BY <2>3, BatchesFit
  <2> QED
    BY <1>2, <2>1, <2>2 DEF ReplayMemory, Whole
<1>5. Trainer(training)
  <2>3. /\ Within(training.learning_rate.n, 5, 50) /\ Within(training.gamma.n, 9000, 9900)
        /\ training.tau.n = 10 /\ training.max_gradient_norm.n = Unit
    BY ValuesOfTraining
  <2>1. /\ training.learning_rate.n > 0 /\ training.max_gradient_norm.n > 0
        /\ 0 <= training.gamma.n /\ training.gamma.n <= Unit
        /\ 1 <= training.tau.n /\ training.tau.n <= Unit
    BY <2>3, UnitIs
  <2>2. training.gamma.t \in {"int", "float"} /\ training.tau.t \in {"int", "float"}
    BY ValuesOfTraining
  <2> QED
    BY <2>1, <2>2 DEF Trainer, Between
<1>6. EpsilonAlgo(epsilon)
  <2>1. \A k \in DOMAIN epsilon : epsilon[k].t \in {"int", "float"}
    BY ValuesOfEpsilon
  <2>3. /\ DOMAIN epsilon = {"initial", "minimum", "decay"}
        /\ Within(epsilon.initial.n, 8500, 9990) /\ epsilon.minimum.n = 0
        /\ Within(epsilon.decay.n, 9000, 9990)
    BY ValuesOfEpsilon
  <2>4. /\ \A k \in {"initial", "minimum", "decay"} : 0 <= epsilon[k].n /\ epsilon[k].n <= Unit
        /\ epsilon.minimum.n <= epsilon.initial.n /\ epsilon.decay.n > 0
    BY <2>3, UnitIs
  <2>2. /\ \A k \in DOMAIN epsilon : 0 <= epsilon[k].n /\ epsilon[k].n <= Unit
        /\ epsilon.minimum.n <= epsilon.initial.n /\ epsilon.decay.n > 0
    BY <2>3, <2>4
  <2> QED
    BY <2>1, <2>2 DEF EpsilonAlgo, Between
<1>7. SnakeGame(game, rewards)
  <2>1. /\ DOMAIN game = {"board_width", "board_height", "initial_snake_length",
                          "max_moves_multiplier"}
        /\ game.board_width.n = 20 * Unit /\ game.board_height.n = 20 * Unit
        /\ game.initial_snake_length.n = 3 * Unit /\ game.max_moves_multiplier.n = 100 * Unit
    BY ValuesOfGame
  <2>2. \A k \in DOMAIN game : Whole(game[k])
    <3>1. \A k \in {"board_width", "board_height", "initial_snake_length",
                    "max_moves_multiplier"} : game[k].n > 0
      BY <2>1, SnakeFits
    <3> QED
      BY <1>2, <2>1, <3>1 DEF Whole
  <2>3. \A k \in DOMAIN rewards : rewards[k].t \in {"int", "float"}
    BY ValuesOfSections, ValidPart, SectionNames
  <2>4. /\ game.initial_snake_length.n <= game.board_width.n
        /\ (game.initial_snake_length.n \div Unit)
              < (game.board_width.n \div Unit) * (game.board_height.n \div Unit)
    BY <2>1, SnakeFits
  <2> QED
    BY <2>2, <2>3, <2>4 DEF SnakeGame
<1> QED
  BY <1>2, <1>3, <1>4, <1>5, <1>6, <1>7 DEF Plays

-----------------------------------------------------------------------------
(* The states of a submission.                                              *)

\* The template is the schema for good, and the answer is what the last document means.
ConfigInv ==
    /\ pc \in {"idle", "asked", "accepted", "rejected", "playing", "failed"}
    /\ template = Schema
    /\ IsDocument(asked)
    /\ pc \in {"accepted", "playing", "failed"} =>
          Accepts(Defaults(Schema), asked) /\ answer = Merge(Defaults(Schema), asked)
    /\ pc = "rejected" => ~Accepts(Defaults(Schema), asked)
    /\ pc = "failed" => ~Plays(answer)

\* Nothing has been submitted yet, and that is a document.
LEMMA EmptyIsDocument == IsDocument(Empty)
<1>1. Above(<<>>) = {}
  BY DEF Above
<1>2. DOMAIN Empty = {<<>>} /\ Empty[<<>>] = Section
  BY DEF Empty
<1> QED
  BY <1>1, <1>2 DEF IsDocument

\* The invariant holds in every state of a submission.
LEMMA ConfigInvariant == ConfigSpec => []ConfigInv
<1>1. ConfigInit => ConfigInv
  BY EmptyIsDocument DEF ConfigInit, ConfigInv
<1>2. ConfigInv /\ [ConfigNext]_config_vars => ConfigInv'
  <2> SUFFICES ASSUME ConfigInv, [ConfigNext]_config_vars
               PROVE  ConfigInv'
    OBVIOUS
  <2> USE DEF ConfigInv
  <2>1. ASSUME NEW document \in Documents, Submit(document)
        PROVE  ConfigInv'
    BY <2>1, ConfigurationAssumption DEF Submit
  <2>2. CASE Resolve
    BY <2>2 DEF Resolve, Kept
  <2>3. CASE Start
    BY <2>3 DEF Start
  <2>4. CASE Forget
    BY <2>4, EmptyIsDocument DEF Forget
  <2>5. CASE UNCHANGED config_vars
    BY <2>5 DEF config_vars
  <2> QED
    BY <2>1, <2>2, <2>3, <2>4, <2>5 DEF ConfigNext
<1> QED
  BY <1>1, <1>2, PTL DEF ConfigSpec

\* The schema's own values and those of a document are those of JSON.
LEMMA MergeIsTyped ==
  ASSUME NEW d, IsDocument(d)
  PROVE  IsTyped(Merge(Defaults(Schema), d))
<1> DEFINE resolved == Merge(Defaults(Schema), d)
<1>1. \A p \in DOMAIN Schema : Defaults(Schema)[p] \in Leaf \cup {Section}
  BY PlacesOfSchema, SchemaDefaults DEF Sound
<1>2. \A p \in DOMAIN resolved :
         \/ p \in DOMAIN d /\ resolved[p] = d[p]
         \/ p \in DOMAIN Schema /\ resolved[p] = Defaults(Schema)[p]
  BY SchemaDefaults DEF Merge
<1> HIDE DEF resolved
<1>3. IsTyped(resolved)
  BY <1>1, <1>2 DEF IsTyped, IsDocument
<1> QED
  BY <1>3 DEF resolved

\* A document is accepted exactly when each of its values is legal at its place.
LEMMA AcceptsTheLegal ==
  ASSUME NEW d, IsDocument(d)
  PROVE  Accepts(Defaults(Schema), d) <=> Legal(d)
<1> DEFINE resolved == Merge(Defaults(Schema), d)
<1>1. Accepts(Defaults(Schema), d) <=>
        d[<<>>] = Section /\ Valid(Schema, resolved) /\ Related(resolved)
  BY DEF Accepts, Checked
<1>2. IsTyped(resolved)
  BY MergeIsTyped
<1>3. <<>> \in DOMAIN d
  BY DEF IsDocument
<1> HIDE DEF resolved
<1>4. ASSUME Legal(d)
      PROVE  d[<<>>] = Section /\ Valid(Schema, resolved)
  BY <1>3, <1>4, LegalMerge DEF resolved
<1>5. ASSUME Valid(Schema, resolved)
      PROVE  Legal(d)
  BY <1>5, MergedIsLegal DEF resolved
<1>6. Valid(Schema, resolved) => Related(resolved)
  BY <1>2, RulesBetweenFieldsHold
<1> QED
  BY <1>1, <1>4, <1>5, <1>6

\* Whatever is submitted, and in whatever order: a document is accepted exactly when each
\* of its values is legal at its place, and then means its own values and the defaults.
THEOREM LegalIsWhatIsAccepted == ConfigSpec => []AcceptedIsLegal
<1>1. ConfigInv => AcceptedIsLegal
  <2> SUFFICES ASSUME ConfigInv
               PROVE  AcceptedIsLegal
    OBVIOUS
  <2>1. ConfigTypeOK
    BY PlacesOfSchema DEF ConfigInv, ConfigTypeOK, Sound
  <2>2. Accepts(Defaults(Schema), asked) <=> Legal(asked)
    BY AcceptsTheLegal DEF ConfigInv
  <2>3. PartialIsAccepted
    <3> SUFFICES ASSUME Resolved, Legal(asked)
                 PROVE  /\ pc # "rejected"
                        /\ DOMAIN answer = DOMAIN Schema
                        /\ \A p \in Fields :
                              answer[p] = IF p \in DOMAIN asked THEN asked[p]
                                                                ELSE Schema[p].default
      BY DEF PartialIsAccepted
    <3>1. pc # "rejected" /\ answer = Merge(Defaults(Schema), asked)
      BY <2>2 DEF ConfigInv, Resolved
    <3>2. /\ Valid(Schema, answer)
          /\ \A p \in DOMAIN Schema :
                answer[p] = IF p \in DOMAIN asked THEN asked[p] ELSE Schema[p].default
      BY <3>1, LegalMerge DEF ConfigInv, IsDocument
    <3> QED
      BY <3>1, <3>2, PlacesOfSchema DEF Valid
  <2>4. OthersAreRejected
    BY <2>2 DEF OthersAreRejected, Resolved, ConfigInv
  <2> QED
    BY <2>1, <2>3, <2>4 DEF AcceptedIsLegal
<1> QED
  BY <1>1, ConfigInvariant, PTL

\* A run that is accepted fails in a constructor only for an integer written as a float.
THEOREM AcceptedConfigurationsPlay == ConfigSpec => []AcceptedIntegersPlay
<1>1. ConfigInv => AcceptedIntegersPlay
  <2> SUFFICES ASSUME ConfigInv, pc = "failed",
                      \A p \in Fields : Schema[p].type = "integer" => answer[p].t # "float"
               PROVE  FALSE
    BY DEF AcceptedIntegersPlay
  <2>1. answer = Merge(Defaults(Schema), asked) /\ ~Plays(answer) /\ Valid(Schema, answer)
    BY DEF ConfigInv, Accepts, Checked
  <2>2. IsTyped(answer)
    BY <2>1, MergeIsTyped DEF ConfigInv
  <2> QED
    BY <2>1, <2>2, IntegersPlay
<1> QED
  BY <1>1, ConfigInvariant, PTL

\* What GameAssumption says of the constants of a game, for any four numbers.
Playable(width, height, length, multiplier) ==
    /\ width \in Nat \ {0} /\ height \in Nat \ {0}
    /\ length \in 2..width /\ length < width * height
    /\ multiplier \in Nat \ {0}

\* The whole number that a value stands for.
WholeOf(leaf) == leaf.n \div Unit

\* The games that are proved sound below are the only ones that are accepted: every
\* accepted configuration gives a game what SnakeGame assumes of its constants.
THEOREM AcceptedGamesAreAssumed ==
  ConfigSpec =>
    [](pc \in {"accepted", "playing", "failed"} =>
         LET game == Part(answer, "game")
         IN  Playable(WholeOf(game.board_width), WholeOf(game.board_height),
                      WholeOf(game.initial_snake_length),
                      WholeOf(game.max_moves_multiplier)))
<1> DEFINE game == Part(answer, "game")
           Assumed == Playable(WholeOf(game.board_width), WholeOf(game.board_height),
                               WholeOf(game.initial_snake_length),
                               WholeOf(game.max_moves_multiplier))
<1>1. ConfigInv => (pc \in {"accepted", "playing", "failed"} => Assumed)
  <2> SUFFICES ASSUME ConfigInv, pc \in {"accepted", "playing", "failed"}
               PROVE  Assumed
    OBVIOUS
  <2>1. answer = Merge(Defaults(Schema), asked) /\ Valid(Schema, answer)
    BY DEF ConfigInv, Accepts, Checked
  <2>2. IsTyped(answer)
    BY <2>1, MergeIsTyped DEF ConfigInv
  <2>3. /\ game.board_width.n = 20 * Unit /\ game.board_height.n = 20 * Unit
        /\ game.initial_snake_length.n = 3 * Unit /\ game.max_moves_multiplier.n = 100 * Unit
    BY <2>1, <2>2, ValuesOfGame
  <2>4. /\ (20 * Unit) \div Unit = 20 /\ (3 * Unit) \div Unit = 3
        /\ (100 * Unit) \div Unit = 100
    BY UnitIs
  <2> HIDE DEF game
  <2> QED
    BY <2>3, <2>4 DEF Playable, WholeOf
<1> QED
  BY <1>1, ConfigInvariant, PTL

-----------------------------------------------------------------------------
(* The game.                                                                *)

\* What the runs check is inductive as it stands: each part is needed for another.
IInv == BoardIsSound /\ MovesAreBounded

\* From one cell to another by one move in direction d.
Follows(head, neck, d) == <<head[1] - neck[1], head[2] - neck[2]>> = d

\* A snake in one piece, whichever way it moves.
IsPath(s) ==
    /\ \A i, j \in DOMAIN s : s[i] = s[j] => i = j
    /\ \A i \in 2..Len(s) : \E d \in Directions : Follows(s[i - 1], s[i], d)

-----------------------------------------------------------------------------
(* Lemmas about cells and directions.                                       *)

\* A direction changes one coordinate by one.
LEMMA DirectionsAre ==
  \A d \in Directions :
     /\ d = <<d[1], d[2]>>
     /\ \/ d[1] = -1 /\ d[2] = 0
        \/ d[1] = 1 /\ d[2] = 0
        \/ d[1] = 0 /\ d[2] = -1
        \/ d[1] = 0 /\ d[2] = 1
BY DEF Directions

\* A cell is the pair of its coordinates.
LEMMA CellsAre ==
  \A c \in Board : c = <<c[1], c[2]>> /\ c[1] \in 0..(Width - 1) /\ c[2] \in 0..(Height - 1)
BY DEF Board

\* What a grid contains is its board.
LEMMA ContainedIsOnBoard ==
  ASSUME NEW x, NEW y, Contains(<<x, y>>)
  PROVE  <<x, y>> \in Board
BY DEF Contains, Board

\* A turn never reverses the snake.
LEMMA TurnsAre ==
  ASSUME NEW d \in Directions, NEW action \in Actions
  PROVE  /\ Turned(d, action) \in Directions
         /\ Turned(d, action)[1] # -d[1] \/ Turned(d, action)[2] # -d[2]
<1>1. CASE action = "left"
  BY <1>1, DirectionsAre DEF Turned, Directions
<1>2. CASE action = "right"
  BY <1>2, DirectionsAre DEF Turned, Directions
<1>3. CASE action = "straight"
  BY <1>3, DirectionsAre DEF Turned
<1> QED
  BY <1>1, <1>2, <1>3 DEF Actions

\* The head moves to a cell next to it.
LEMMA HeadMoves ==
  ASSUME TypeOK, NEW action \in Actions
  PROVE  /\ snake[1] \in Board
         /\ Turned(direction, action) \in Directions
         /\ Follows(NewHead(action), snake[1], Turned(direction, action))
         /\ NewHead(action) # snake[1]
         /\ Contains(NewHead(action)) => NewHead(action) \in Board
<1>1. snake[1] \in Board /\ direction \in Directions
  BY DEF TypeOK
<1>2. PICK d : d = Turned(direction, action)
  OBVIOUS
<1>3. d \in Directions
  BY <1>1, <1>2, TurnsAre
<1>4. NewHead(action) = <<snake[1][1] + d[1], snake[1][2] + d[2]>>
  BY <1>2 DEF NewHead
<1>5. snake[1][1] \in Int /\ snake[1][2] \in Int
  BY <1>1, CellsAre, GameAssumption
<1>6. Follows(NewHead(action), snake[1], d)
  BY <1>3, <1>4, <1>5, DirectionsAre DEF Follows
<1>7. NewHead(action) # snake[1]
  BY <1>3, <1>4, <1>5, DirectionsAre
<1> QED
  BY <1>1, <1>2, <1>3, <1>4, <1>6, <1>7, ContainedIsOnBoard

-----------------------------------------------------------------------------
(* Lemmas about the sequence of cells.                                      *)

\* A cell in front of a sequence.
LEMMA Prepended ==
  ASSUME NEW s \in Seq(Board), NEW h \in Board
  PROVE  /\ <<h>> \o s \in Seq(Board) /\ Len(<<h>> \o s) = Len(s) + 1
         /\ Len(s) \in Nat /\ DOMAIN s = 1..Len(s)
         /\ DOMAIN (<<h>> \o s) = 1..(Len(s) + 1)
         /\ (<<h>> \o s)[1] = h
         /\ \A i \in 1..Len(s) : (<<h>> \o s)[i + 1] = s[i]
         /\ \A i \in 2..(Len(s) + 1) : i - 1 \in 1..Len(s) /\ (<<h>> \o s)[i] = s[i - 1]
         /\ Cells(<<h>> \o s) = Cells(s) \union {h}
<1> HIDE DEF Board
<1> DEFINE n == Len(s)
           new == <<h>> \o s
<1>1. /\ new \in Seq(Board) /\ Len(new) = n + 1 /\ n \in Nat
      /\ DOMAIN s = 1..n /\ DOMAIN new = 1..(n + 1) /\ new[1] = h
  OBVIOUS
<1>2. \A i \in 1..n : new[i + 1] = s[i]
  OBVIOUS
<1>3. \A i \in 2..(n + 1) : i - 1 \in 1..n /\ new[i] = s[i - 1]
  OBVIOUS
<1> HIDE DEF new, n
<1>4. \A i \in 1..(n + 1) : i = 1 \/ i \in 2..(n + 1)
  BY <1>1
<1>5. 1 \in 1..(n + 1) /\ \A i \in 1..n : i + 1 \in 1..(n + 1)
  BY <1>1
<1>6. Cells(new) = Cells(s) \union {h}
  <2>1. \A c \in Cells(new) : c \in Cells(s) \union {h}
    <3>1. ASSUME NEW i \in 1..(n + 1) PROVE new[i] \in Cells(s) \union {h}
      <4>1. CASE i = 1
        BY <1>1, <4>1
      <4>2. CASE i \in 2..(n + 1)
        BY <1>1, <1>3, <4>2 DEF Cells
      <4> QED
        BY <1>4, <4>1, <4>2
    <3> QED
      BY <1>1, <3>1 DEF Cells
  <2>2. \A c \in Cells(s) \union {h} : c \in Cells(new)
    <3>1. h \in Cells(new)
      BY <1>1, <1>5 DEF Cells
    <3>2. ASSUME NEW i \in 1..n PROVE s[i] \in Cells(new)
      BY <1>1, <1>2, <1>5 DEF Cells
    <3> QED
      BY <1>1, <3>1, <3>2 DEF Cells
  <2> QED
    BY <2>1, <2>2
<1> QED
  BY <1>1, <1>2, <1>3, <1>6 DEF new, n

\* What is left when the last cell goes.
LEMMA Shortened ==
  ASSUME NEW s \in Seq(Board), Len(s) > 0
  PROVE  /\ SubSeq(s, 1, Len(s) - 1) \in Seq(Board)
         /\ Len(SubSeq(s, 1, Len(s) - 1)) = Len(s) - 1
         /\ DOMAIN SubSeq(s, 1, Len(s) - 1) = 1..(Len(s) - 1)
         /\ \A i \in 1..(Len(s) - 1) : i \in 1..Len(s) /\ SubSeq(s, 1, Len(s) - 1)[i] = s[i]
         /\ Cells(SubSeq(s, 1, Len(s) - 1)) \subseteq Cells(s)
<1> HIDE DEF Board
<1>1. Len(s) \in Nat \ {0} /\ DOMAIN s = 1..Len(s)
  OBVIOUS
<1> DEFINE m == Len(s) - 1
           t == SubSeq(s, 1, m)
<1>2. t \in Seq(Board) /\ Len(t) = m /\ DOMAIN t = 1..m
  BY <1>1
<1>3. \A i \in 1..m : i \in 1..Len(s) /\ t[i] = s[i]
  BY <1>1
<1> HIDE DEF t
<1>4. Cells(t) \subseteq Cells(s)
  BY <1>1, <1>2, <1>3 DEF Cells
<1> QED
  BY <1>2, <1>3, <1>4 DEF t

\* A path stays one when a head joins it from next to it, on a cell of its own.
LEMMA PathGrows ==
  ASSUME NEW s \in Seq(Board), NEW h \in Board, IsPath(s), h \notin Cells(s),
         Len(s) > 0 => \E d \in Directions : Follows(h, s[1], d)
  PROVE  IsPath(<<h>> \o s)
<1> DEFINE n == Len(s)
<1> PICK new : new = <<h>> \o s
  OBVIOUS
<1>1. /\ n \in Nat /\ DOMAIN s = 1..n /\ DOMAIN new = 1..(n + 1) /\ Len(new) = n + 1
      /\ new[1] = h /\ \A i \in 2..(n + 1) : i - 1 \in 1..n /\ new[i] = s[i - 1]
  BY Prepended
<1>2. \A i \in 1..(n + 1) : i = 1 \/ i \in 2..(n + 1)
  BY <1>1
<1>3. \A i \in 1..n : s[i] # h
  BY <1>1 DEF Cells
<1>4. ASSUME NEW i \in 1..(n + 1), NEW j \in 1..(n + 1), new[i] = new[j]
      PROVE  i = j
  <2>1. CASE i = 1
    BY <1>1, <1>2, <1>3, <1>4, <2>1
  <2>2. CASE j = 1
    BY <1>1, <1>2, <1>3, <1>4, <2>2
  <2>3. CASE i \in 2..(n + 1) /\ j \in 2..(n + 1)
    <3>1. s[i - 1] = s[j - 1] /\ i - 1 \in 1..n /\ j - 1 \in 1..n
      BY <1>1, <1>4, <2>3
    <3>2. i - 1 = j - 1
      BY <1>1, <3>1 DEF IsPath
    <3> QED
      BY <3>2
  <2> QED
    BY <1>2, <2>1, <2>2, <2>3
<1>5. ASSUME NEW i \in 2..(n + 1)
      PROVE  \E d \in Directions : Follows(new[i - 1], new[i], d)
  <2>1. CASE i = 2
    BY <1>1, <2>1
  <2>2. CASE i # 2
    <3>1. i - 1 \in 2..n /\ i - 1 \in 2..(n + 1)
      BY <1>1, <2>2
    <3>2. new[i] = s[i - 1] /\ new[i - 1] = s[(i - 1) - 1]
      BY <1>1, <3>1
    <3> QED
      BY <3>1, <3>2 DEF IsPath
  <2> QED
    BY <2>1, <2>2
<1> QED
  BY <1>1, <1>4, <1>5 DEF IsPath

\* A path in one piece takes as many cells as it is long, so it fits on the board.
LEMMA PathFits ==
  ASSUME NEW s \in Seq(Board), IsPath(s)
  PROVE  Len(s) <= Width * Height
<1>1. /\ IsFiniteSet(0..(Width - 1)) /\ Cardinality(0..(Width - 1)) = Width
      /\ IsFiniteSet(0..(Height - 1)) /\ Cardinality(0..(Height - 1)) = Height
  <2>1. 0 \in Int /\ Width - 1 \in Int /\ Height - 1 \in Int
    BY GameAssumption
  <2>2. \A b \in Int : IsFiniteSet(0..b) /\ Cardinality(0..b) = IF 0 > b THEN 0 ELSE b - 0 + 1
    BY <2>1, FS_Interval
  <2>3. /\ ~(0 > Width - 1) /\ (Width - 1) - 0 + 1 = Width
        /\ ~(0 > Height - 1) /\ (Height - 1) - 0 + 1 = Height
    BY GameAssumption
  <2> QED
    BY <2>1, <2>2, <2>3
<1>2. IsFiniteSet(Board) /\ Cardinality(Board) = Width * Height
  BY <1>1, FS_Product, ZenonT(30) DEF Board
<1>3. s \in Injection(1..Len(s), Board)
  <2> HIDE DEF Board
  <2> QED
    BY DEF IsPath, Injection, IsInjective
<1>4. Cardinality(1..Len(s)) = Len(s)
  <2>1. 1 \in Int /\ Len(s) \in Nat /\ Len(s) \in Int
    OBVIOUS
  <2>2. Cardinality(1..Len(s)) = IF 1 > Len(s) THEN 0 ELSE Len(s) - 1 + 1
    BY <2>1, FS_Interval
  <2> QED
    BY <2>1, <2>2
<1>5. Cardinality(1..Len(s)) <= Cardinality(Board)
  BY <1>2, <1>3, FS_Injection
<1> QED
  BY <1>2, <1>4, <1>5

\* The snake of a sound board is in one piece.
LEMMA SnakePath ==
  SnakeIsAPath <=> /\ IsPath(snake)
                   /\ Len(snake) > 1 => Follows(snake[1], snake[2], direction)
BY DEF SnakeIsAPath, IsPath, Follows

-----------------------------------------------------------------------------
(* The new game.                                                            *)

\* The first snake lies on the board, in one piece and to the left of its head,
\* and leaves a cell for the first food.
LEMMA NewSnakeIsSound ==
  /\ NewSnake \in Seq(Board) /\ Len(NewSnake) = InitialLength
  /\ IsPath(NewSnake)
  /\ Len(NewSnake) > 1 => Follows(NewSnake[1], NewSnake[2], <<1, 0>>)
  /\ Cells(NewSnake) # Board
<1> DEFINE x == IF Width \div 2 >= InitialLength - 1 THEN Width \div 2 ELSE InitialLength - 1
           y == Height \div 2
<1>1. /\ Width \in Nat \ {0} /\ Height \in Nat \ {0} /\ InitialLength \in 1..Width
      /\ InitialLength < Width * Height
  BY GameAssumption
<1>2. x \in (InitialLength - 1)..(Width - 1) /\ y \in 0..(Height - 1)
      /\ x \in Int /\ y \in Int
  BY <1>1
<1>3. NewSnake = [i \in 1..InitialLength |-> <<x - (i - 1), y>>]
  BY DEF NewSnake
<1>4. \A i \in 1..InitialLength : x - (i - 1) \in 0..(Width - 1)
  BY <1>1, <1>2
<1> HIDE DEF x, y
<1> PICK s : s = NewSnake
  OBVIOUS
<1>5. DOMAIN s = 1..InitialLength /\ \A i \in 1..InitialLength : s[i] = <<x - (i - 1), y>>
  BY <1>3
<1>6. \A i \in 1..InitialLength : s[i] \in Board
  <2>1. \A i \in 1..InitialLength :
          <<x - (i - 1), y>> \in (0..(Width - 1)) \X (0..(Height - 1))
    BY <1>2, <1>4
  <2> QED
    BY <1>5, <2>1 DEF Board
<1>7. s \in Seq(Board) /\ Len(s) = InitialLength
  <2> HIDE DEF Board
  <2>1. s = [i \in 1..InitialLength |-> s[i]]
    BY <1>3
  <2>2. InitialLength \in Nat
    BY <1>1
  <2>3. s \in [1..InitialLength -> Board]
    BY <1>6, <2>1
  <2> QED
    BY <2>2, <2>3
<1>8. IsPath(s)
  <2>1. ASSUME NEW i \in 1..InitialLength, NEW j \in 1..InitialLength, s[i] = s[j]
        PROVE  i = j
    BY <1>1, <1>2, <1>5, <2>1
  <2>2. ASSUME NEW i \in 2..InitialLength
        PROVE  Follows(s[i - 1], s[i], <<1, 0>>)
    <3>1. i - 1 \in 1..InitialLength /\ i \in 1..InitialLength
      BY <1>1
    <3>2. s[i - 1] = <<x - ((i - 1) - 1), y>> /\ s[i] = <<x - (i - 1), y>>
      BY <1>5, <3>1
    <3>3. (x - ((i - 1) - 1)) - (x - (i - 1)) = 1 /\ y - y = 0
      BY <1>2, <3>1
    <3> QED
      BY <3>2, <3>3 DEF Follows
  <2> QED
    BY <1>5, <1>7, <2>1, <2>2 DEF IsPath, Directions
<1>9. Len(s) > 1 => Follows(s[1], s[2], <<1, 0>>)
  <2> SUFFICES ASSUME InitialLength > 1 PROVE Follows(s[1], s[2], <<1, 0>>)
    BY <1>7
  <2>1. s[1] = <<x - (1 - 1), y>> /\ s[2] = <<x - (2 - 1), y>>
    BY <1>1, <1>5
  <2>2. (x - (1 - 1)) - (x - (2 - 1)) = 1 /\ y - y = 0
    BY <1>2
  <2> QED
    BY <2>1, <2>2 DEF Follows
<1>10. Cells(s) # Board
  <2>1. \A c \in Cells(s) : \E i \in 1..InitialLength : c = <<x - (i - 1), y>>
    BY <1>5 DEF Cells
  <2>2. \A a, b : <<a, b>> \in Cells(s) => b = y /\ \E i \in 1..InitialLength : a = x - (i - 1)
    BY <2>1
  <2>3. CASE Height > 1
    <3>1. PICK b \in 0..(Height - 1) : b # y
      <4>1. 0 \in 0..(Height - 1) /\ 1 \in 0..(Height - 1)
        BY <1>1, <2>3
      <4> QED
        BY <4>1
    <3>2. <<0, b>> \in Board
      BY <1>1 DEF Board
    <3>3. <<0, b>> \notin Cells(s)
      BY <2>2, <3>1
    <3> QED
      BY <3>2, <3>3
  <2>4. CASE Height = 1
    <3>1. Width * Height = Width
      BY <1>1, <2>4
    <3>2. InitialLength < Width
      BY <1>1, <3>1
    <3>3. 0 \in 0..(Height - 1)
      BY <1>1
    <3>4. CASE x < Width - 1
      <4>1. <<Width - 1, 0>> \in Board
        BY <1>1, <3>3 DEF Board
      <4>2. \A i \in 1..InitialLength : Width - 1 # x - (i - 1)
        BY <1>1, <1>2, <3>4
      <4> QED
        BY <2>2, <4>1, <4>2
    <3>5. CASE x = Width - 1
      <4>1. <<0, 0>> \in Board
        BY <1>1, <3>3 DEF Board
      <4>2. \A i \in 1..InitialLength : 0 # x - (i - 1)
        BY <1>1, <3>2, <3>5
      <4> QED
        BY <2>2, <4>1, <4>2
    <3> QED
      BY <1>1, <1>2, <3>4, <3>5
  <2> QED
    BY <1>1, <2>3, <2>4
<1> QED
  BY <1>7, <1>8, <1>9, <1>10

\* What random_free_position finds is free, and is missing only on a full board.
LEMMA FreeFood ==
  ASSUME NEW s \in Seq(Board), NEW f \in RandomFree(s)
  PROVE  /\ f \in Board \union {NoFood} /\ f \notin Cells(s)
         /\ f = NoFood <=> Cells(s) = Board
<1>1. Cells(s) \subseteq Board
  <2> HIDE DEF Board
  <2> QED
    BY DEF Cells
<1> QED
  BY <1>1, GameAssumption DEF RandomFree

\* A game begins sound.
LEMMA InitInvariant == Init => IInv
<1> SUFFICES ASSUME Init PROVE IInv
  OBVIOUS
<1>0. food \in RandomFree(snake) /\ snake = NewSnake
  BY DEF Init
<1>1. /\ Width \in Nat \ {0} /\ Height \in Nat \ {0} /\ InitialLength \in 1..Width
      /\ InitialLength < Width * Height /\ MaxMovesMultiplier \in Nat \ {0}
  BY GameAssumption
<1>2. /\ snake \in Seq(Board) /\ Len(snake) = InitialLength /\ Cells(snake) # Board
      /\ IsPath(snake)
      /\ Len(snake) > 1 => Follows(snake[1], snake[2], direction)
  BY NewSnakeIsSound DEF Init
<1>3. TypeOK
  <2>1. food \in Board \union {NoFood}
    BY <1>0, <1>2, FreeFood
  <2>2. Len(snake) > 0
    BY <1>1, <1>2
  <2> QED
    BY <1>2, <2>1, <2>2 DEF TypeOK, Directions, Outcomes, Init
<1>4. SnakeIsAPath
  BY <1>2, SnakePath
<1>5. FoodIsFree
  BY <1>0, <1>2, FreeFood DEF FoodIsFree
<1>6. ScoreIsGrowth
  <2>1. Width * Height \in Nat
    BY <1>1
  <2> QED
    BY <1>1, <1>2, <2>1 DEF ScoreIsGrowth, Init
<1>7. ShortSnakesDoNotBite
  BY DEF Init, ShortSnakesDoNotBite
<1>8. MovesAreBounded
  <2>1. MaxMovesMultiplier * Len(snake) \in Nat
    BY <1>1, <1>2
  <2> QED
    BY <2>1 DEF MovesAreBounded, Init
<1> QED
  BY <1>3, <1>4, <1>5, <1>6, <1>7, <1>8 DEF IInv, BoardIsSound

\* A new game that replaces another begins like the first one.
LEMMA ResetInvariant == Reset => IInv'
<1>1. Init' => IInv'
  BY InitInvariant, PTL
<1>2. Reset => Init'
  BY DEF Reset, Init
<1> QED
  BY <1>1, <1>2

-----------------------------------------------------------------------------
(* The moves.                                                               *)

\* The game ends where it is.
LEMMA EndKeeps ==
  ASSUME IInv, NEW result \in Outcomes, End(result),
         result = "snake" => Len(snake) > 4,
         ~done,
         result = "max_moves" \/ ~OutOfMoves
  PROVE  IInv'
<1>1. /\ UNCHANGED <<snake, direction, food, score>>
      /\ done' = TRUE /\ outcome' = result /\ move_count' = move_count + 1
  BY DEF End
<1>2. TypeOK'
  BY <1>1 DEF IInv, BoardIsSound, TypeOK
<1>3. SnakeIsAPath'
  BY <1>1 DEF IInv, BoardIsSound, SnakeIsAPath
<1>4. FoodIsFree'
  BY <1>1 DEF IInv, BoardIsSound, FoodIsFree, Cells
<1>5. ScoreIsGrowth'
  BY <1>1 DEF IInv, BoardIsSound, ScoreIsGrowth
<1>6. ShortSnakesDoNotBite'
  BY <1>1 DEF ShortSnakesDoNotBite
<1>7. MovesAreBounded'
  <2>1. /\ MaxMovesMultiplier * Len(snake) \in Nat /\ move_count \in Nat
    BY GameAssumption DEF IInv, BoardIsSound, TypeOK
  <2>2. move_count <= MaxMovesMultiplier * Len(snake)
    BY <2>1 DEF IInv, MovesAreBounded
  <2> QED
    BY <1>1, <2>1, <2>2 DEF MovesAreBounded, OutOfMoves
<1> QED
  BY <1>2, <1>3, <1>4, <1>5, <1>6, <1>7 DEF IInv, BoardIsSound

\* A snake that bites itself has turned back on itself, which takes four cells and a head.
LEMMA BiteTakesFive ==
  ASSUME IInv, NEW action \in Actions, HitSnake(action)
  PROVE  Len(snake) > 4
<1> DEFINE n == Len(snake)
<1> PICK h, d : h = NewHead(action) /\ d = Turned(direction, action)
  OBVIOUS
<1>1. /\ snake \in Seq(Board) /\ n \in Nat \ {0} /\ DOMAIN snake = 1..n
      /\ direction \in Directions /\ TypeOK
  BY DEF IInv, BoardIsSound, TypeOK
<1>2. h \notin Cells(Tail(snake)) \/ h # food
  <2>1. Cells(Tail(snake)) \subseteq Cells(snake)
    <3>1. DOMAIN Tail(snake) = 1..(n - 1) /\ \A i \in 1..(n - 1) : Tail(snake)[i] = snake[i + 1]
      <4> HIDE DEF Board
      <4> QED
        BY <1>1
    <3>2. \A i \in 1..(n - 1) : i + 1 \in 1..n
      BY <1>1
    <3> QED
      BY <1>1, <3>1, <3>2 DEF Cells
  <2> QED
    BY <2>1 DEF IInv, BoardIsSound, FoodIsFree
<1>3. Contains(h) /\ h \in Occupied(h = food)
  BY DEF HitSnake, Collides
<1>4. h # food /\ h \in Cells(SubSeq(snake, 2, n - 1))
  BY <1>2, <1>3 DEF Occupied
<1>5. PICK k \in 2..(n - 1) : h = snake[k]
  <2>1. /\ DOMAIN SubSeq(snake, 2, n - 1) = 1..(n - 2)
        /\ \A i \in 1..(n - 2) : SubSeq(snake, 2, n - 1)[i] = snake[i + 1]
    <3>1. CASE n = 1
      BY <1>1, <3>1
    <3>2. CASE n > 1
      <4> HIDE DEF Board
      <4> QED
        BY <1>1, <3>2
    <3> QED
      BY <1>1, <3>1, <3>2
  <2>2. PICK i \in 1..(n - 2) : h = snake[i + 1]
    BY <1>4, <2>1 DEF Cells
  <2>3. i + 1 \in 2..(n - 1)
    BY <1>1, <2>2
  <2> QED
    BY <2>2, <2>3
<1>6. Follows(h, snake[1], d) /\ d \in Directions
  BY <1>1, HeadMoves
<1>7. d[1] # -direction[1] \/ d[2] # -direction[2]
  BY <1>1, TurnsAre
<1>8. n > 1 => Follows(snake[1], snake[2], direction)
  BY SnakePath DEF IInv, BoardIsSound
<1>9. \A i \in 1..n : snake[i][1] \in Int /\ snake[i][2] \in Int
  BY <1>1, CellsAre, GameAssumption
<1>10. k # 2
  <2> SUFFICES ASSUME k = 2 PROVE FALSE
    OBVIOUS
  <2>1. 1 \in 1..n /\ 2 \in 1..n /\ n > 1
    BY <1>1, <1>5
  <2>2. Follows(snake[2], snake[1], d) /\ Follows(snake[1], snake[2], direction)
    BY <1>5, <1>6, <1>8, <2>1
  <2>3. /\ snake[2][1] - snake[1][1] = d[1] /\ snake[2][2] - snake[1][2] = d[2]
        /\ snake[1][1] - snake[2][1] = direction[1] /\ snake[1][2] - snake[2][2] = direction[2]
    BY <1>1, <1>6, <2>2, DirectionsAre DEF Follows
  <2> QED
    BY <1>7, <1>9, <2>1, <2>3
<1>11. k # 3
  <2> SUFFICES ASSUME k = 3 PROVE FALSE
    OBVIOUS
  <2>1. 1 \in 1..n /\ 2 \in 1..n /\ 3 \in 1..n /\ 2 \in 2..n /\ 3 \in 2..n
    BY <1>1, <1>5
  <2>2. IsPath(snake)
    BY SnakePath DEF IInv, BoardIsSound
  <2>3. PICK d1 \in Directions : Follows(snake[1], snake[2], d1)
    <3>1. 2 - 1 = 1
      OBVIOUS
    <3> QED
      BY <2>1, <2>2, <3>1 DEF IsPath
  <2>4. PICK d2 \in Directions : Follows(snake[2], snake[3], d2)
    <3>1. 3 - 1 = 2
      OBVIOUS
    <3> QED
      BY <2>1, <2>2, <3>1 DEF IsPath
  <2>5. /\ snake[3][1] - snake[1][1] = d[1] /\ snake[3][2] - snake[1][2] = d[2]
        /\ snake[1][1] - snake[2][1] = d1[1] /\ snake[1][2] - snake[2][2] = d1[2]
        /\ snake[2][1] - snake[3][1] = d2[1] /\ snake[2][2] - snake[3][2] = d2[2]
    BY <1>5, <1>6, <2>3, <2>4, DirectionsAre DEF Follows
  <2>6. d[1] + d1[1] + d2[1] = 0 /\ d[2] + d1[2] + d2[2] = 0
    <3>1. PICK a1, b1, c1 \in Int : a1 = snake[1][1] /\ b1 = snake[2][1] /\ c1 = snake[3][1]
      BY <1>9, <2>1
    <3>2. PICK a2, b2, c2 \in Int : a2 = snake[1][2] /\ b2 = snake[2][2] /\ c2 = snake[3][2]
      BY <1>9, <2>1
    <3>3. d[1] = c1 - a1 /\ d1[1] = a1 - b1 /\ d2[1] = b1 - c1
      BY <2>5, <3>1
    <3>4. d[2] = c2 - a2 /\ d1[2] = a2 - b2 /\ d2[2] = b2 - c2
      BY <2>5, <3>2
    <3>5. (c1 - a1) + (a1 - b1) + (b1 - c1) = 0
      OBVIOUS
    <3>6. (c2 - a2) + (a2 - b2) + (b2 - c2) = 0
      OBVIOUS
    <3> QED
      BY <3>3, <3>4, <3>5, <3>6
  <2> QED
    BY <1>6, <2>3, <2>4, <2>6, DirectionsAre
<1> QED
  BY <1>1, <1>5, <1>10, <1>11

\* A move that meets nothing: what Eat and Glide have in common.
LEMMA MovedOn ==
  ASSUME IInv, NEW action \in Actions, Moves(action), NEW s \in Seq(Board), IsPath(s),
         NewHead(action) \notin Cells(s), Len(s) > 0 => s[1] = snake[1],
         snake' = <<NewHead(action)>> \o s
  PROVE  /\ snake' \in Seq(Board) /\ Len(snake') = Len(s) + 1
         /\ direction' \in Directions
         /\ Cells(snake') = Cells(s) \union {NewHead(action)}
         /\ SnakeIsAPath'
<1> PICK h, d : h = NewHead(action) /\ d = Turned(direction, action)
  OBVIOUS
<1>1. TypeOK /\ Contains(h)
  BY DEF IInv, BoardIsSound, Moves, Collides
<1>2. h \in Board /\ d \in Directions /\ Follows(h, snake[1], d)
  BY <1>1, HeadMoves
<1>3. direction' = d
  BY DEF Moves
<1> PICK new : new = <<h>> \o s
  OBVIOUS
<1>4. /\ new \in Seq(Board) /\ Len(new) = Len(s) + 1 /\ Len(s) \in Nat
      /\ new[1] = h /\ Cells(new) = Cells(s) \union {h}
      /\ \A i \in 2..(Len(s) + 1) : new[i] = s[i - 1]
  BY <1>2, Prepended
<1>5. IsPath(new)
  BY <1>2, PathGrows
<1>6. Len(new) > 1 => Follows(new[1], new[2], d)
  <2> SUFFICES ASSUME Len(s) > 0 PROVE Follows(new[1], new[2], d)
    BY <1>4
  <2>1. new[2] = s[1]
    <3>1. 2 \in 2..(Len(s) + 1) /\ 2 - 1 = 1
      BY <1>4
    <3> QED
      BY <1>4, <3>1
  <2> QED
    BY <1>2, <1>4, <2>1
<1>7. snake' = new
  OBVIOUS
<1>8. SnakeIsAPath'
  <2>1. SnakeIsAPath' <=>
          IsPath(snake') /\ (Len(snake') > 1 => Follows(snake'[1], snake'[2], direction'))
    <3>1. (SnakeIsAPath <=> /\ IsPath(snake)
                            /\ Len(snake) > 1 => Follows(snake[1], snake[2], direction))'
      BY SnakePath, PTL
    <3> QED
      BY <3>1
  <2> QED
    BY <1>3, <1>5, <1>6, <1>7, <2>1
<1> QED
  BY <1>2, <1>3, <1>4, <1>7, <1>8

\* A move onto the food leaves a sound board.
LEMMA EatKeeps ==
  ASSUME IInv, NEW action \in Actions, Eat(action)
  PROVE  IInv'
<1>1. /\ Moves(action) /\ NewHead(action) = food /\ snake' = <<NewHead(action)>> \o snake
      /\ food' \in RandomFree(snake') /\ score' = score + 1
      /\ done' = (food' = NoFood)
      /\ outcome' = IF food' = NoFood THEN "board_filled" ELSE "food"
      /\ move_count' = move_count + 1 /\ ~OutOfMoves
  BY DEF Eat, Moves
<1>2. /\ snake \in Seq(Board) /\ Len(snake) \in Nat \ {0} /\ score \in Nat /\ move_count \in Nat
      /\ IsPath(snake) /\ food \notin Cells(snake) /\ ScoreIsGrowth
  BY SnakePath DEF IInv, BoardIsSound, TypeOK, FoodIsFree
<1>3. /\ snake' \in Seq(Board) /\ Len(snake') = Len(snake) + 1 /\ direction' \in Directions
      /\ SnakeIsAPath'
  BY <1>1, <1>2, MovedOn
<1>4. food' \in Board \union {NoFood} /\ FoodIsFree'
  <2>1. /\ food' \in Board \union {NoFood} /\ food' \notin Cells(snake')
        /\ food' = NoFood <=> Cells(snake') = Board
    BY <1>1, <1>3, FreeFood
  <2> QED
    BY <1>1, <2>1 DEF FoodIsFree, Cells
<1>5. TypeOK'
  <2>1. Len(snake') > 0 /\ score' \in Nat /\ move_count' \in Nat
    BY <1>1, <1>2, <1>3
  <2>2. done' \in BOOLEAN /\ outcome' \in Outcomes
    BY <1>1 DEF Outcomes
  <2> QED
    BY <1>3, <1>4, <2>1, <2>2 DEF TypeOK
<1>6. ScoreIsGrowth'
  <2>1. Len(snake') <= Width * Height
    <3>1. IsPath(snake')
      BY <1>3 DEF SnakeIsAPath, IsPath, Follows
    <3> QED
      BY <1>3, <3>1, PathFits
  <2>2. InitialLength \in Nat /\ Width * Height \in Nat
    BY GameAssumption
  <2> QED
    BY <1>1, <1>2, <1>3, <2>1, <2>2 DEF ScoreIsGrowth
<1>7. ShortSnakesDoNotBite'
  BY <1>1 DEF ShortSnakesDoNotBite
<1>8. MovesAreBounded'
  <2>1. \A m, n \in Nat : m * n \in Nat /\ m * n <= m * (n + 1)
    <3>1. \A m, n \in Nat : m * (n + 1) = m * n + m
      OBVIOUS
    <3> QED
      BY <3>1
  <2>2. /\ MaxMovesMultiplier * Len(snake) \in Nat /\ MaxMovesMultiplier * Len(snake') \in Nat
        /\ MaxMovesMultiplier * Len(snake) <= MaxMovesMultiplier * Len(snake')
    BY <1>2, <1>3, <2>1, GameAssumption
  <2>3. move_count' <= MaxMovesMultiplier * Len(snake)
    BY <1>1, <1>2, <2>2 DEF OutOfMoves
  <2> QED
    BY <1>1, <1>2, <2>2, <2>3 DEF MovesAreBounded
<1> QED
  BY <1>3, <1>4, <1>5, <1>6, <1>7, <1>8 DEF IInv, BoardIsSound

\* A move onto a free cell leaves a sound board.
LEMMA GlideKeeps ==
  ASSUME IInv, NEW action \in Actions, Glide(action)
  PROVE  IInv'
<1> DEFINE n == Len(snake)
<1> PICK h, s : h = NewHead(action) /\ s = SubSeq(snake, 1, n - 1)
  OBVIOUS
<1>1. /\ Moves(action) /\ h # food /\ snake' = <<h>> \o s
      /\ outcome' = "empty" /\ move_count' = move_count + 1 /\ ~OutOfMoves /\ ~done
      /\ ~Collides(action) /\ UNCHANGED <<food, score, done>>
  BY DEF Glide, Moves
<1>2. /\ snake \in Seq(Board) /\ n \in Nat \ {0} /\ move_count \in Nat /\ DOMAIN snake = 1..n
      /\ IsPath(snake) /\ TypeOK
  BY SnakePath DEF IInv, BoardIsSound, TypeOK
<1>3. /\ s \in Seq(Board) /\ Len(s) = n - 1 /\ DOMAIN s = 1..(n - 1)
      /\ \A i \in 1..(n - 1) : i \in 1..n /\ s[i] = snake[i]
      /\ Cells(s) \subseteq Cells(snake)
  BY <1>2, Shortened
<1>4. IsPath(s)
  <2>1. \A i \in 2..(n - 1) : i \in 2..n /\ i \in 1..(n - 1) /\ i - 1 \in 1..(n - 1)
    BY <1>2
  <2>2. \A i \in 2..(n - 1) : s[i] = snake[i] /\ s[i - 1] = snake[i - 1]
    BY <1>3, <2>1
  <2> QED
    BY <1>2, <1>3, <2>1, <2>2 DEF IsPath
<1>5. h \notin Cells(s)
  <2>1. h # snake[1]
    BY <1>2, HeadMoves
  <2>2. h \notin Cells(SubSeq(snake, 2, n - 1))
    BY <1>1 DEF Collides, Occupied
  <2>3. ASSUME NEW i \in 1..(n - 1), i # 1
        PROVE  snake[i] \in Cells(SubSeq(snake, 2, n - 1))
    <3>1. n > 1 /\ i - 1 \in 1..(n - 2) /\ (i - 1) + 1 = i
      BY <1>2, <2>3
    <3>2. /\ DOMAIN SubSeq(snake, 2, n - 1) = 1..(n - 2)
          /\ \A j \in 1..(n - 2) : SubSeq(snake, 2, n - 1)[j] = snake[j + 1]
      <4> HIDE DEF Board
      <4> QED
        BY <1>2, <3>1
    <3> QED
      BY <3>1, <3>2 DEF Cells
  <2>4. \A i \in 1..(n - 1) : s[i] # h
    BY <1>3, <2>1, <2>2, <2>3
  <2> QED
    BY <1>3, <2>4 DEF Cells
<1>6. Len(s) > 0 => s[1] = snake[1]
  BY <1>2, <1>3
<1>7. /\ snake' \in Seq(Board) /\ Len(snake') = n /\ direction' \in Directions
      /\ Cells(snake') = Cells(s) \union {h} /\ SnakeIsAPath'
  <2>1. /\ snake' \in Seq(Board) /\ Len(snake') = Len(s) + 1 /\ direction' \in Directions
        /\ Cells(snake') = Cells(s) \union {NewHead(action)} /\ SnakeIsAPath'
    BY <1>1, <1>3, <1>4, <1>5, <1>6, MovedOn
  <2>2. Len(snake') = n
    BY <1>2, <1>3, <2>1
  <2> QED
    BY <2>1, <2>2
<1>8. TypeOK'
  BY <1>1, <1>2, <1>7 DEF TypeOK, Outcomes
<1>9. FoodIsFree'
  <2>1. food # NoFood /\ food \in Board /\ food \notin Cells(snake)
    BY <1>1 DEF IInv, BoardIsSound, FoodIsFree, TypeOK
  <2>2. food \notin Cells(s) \union {h}
    BY <1>1, <1>3, <2>1
  <2>3. food' = food /\ food \notin Cells(snake)'
    BY <1>1, <1>7, <2>2 DEF Cells
  <2>4. Cells(snake)' # Board
    BY <2>1, <2>3
  <2> QED
    BY <2>1, <2>3, <2>4 DEF FoodIsFree
<1>10. ScoreIsGrowth'
  BY <1>1, <1>7 DEF IInv, BoardIsSound, ScoreIsGrowth
<1>11. ShortSnakesDoNotBite'
  BY <1>1 DEF ShortSnakesDoNotBite
<1>12. MovesAreBounded'
  <2>1. MaxMovesMultiplier * n \in Nat
    BY <1>2, GameAssumption
  <2> QED
    BY <1>1, <1>2, <1>7, <2>1 DEF MovesAreBounded, OutOfMoves
<1> QED
  BY <1>7, <1>8, <1>9, <1>10, <1>11, <1>12 DEF IInv, BoardIsSound

-----------------------------------------------------------------------------
(* What the runs check.                                                     *)

\* Every step of a game leaves a sound board.
LEMMA StepInvariant == IInv /\ [Next]_vars => IInv'
<1> SUFFICES ASSUME IInv, [Next]_vars PROVE IInv'
  OBVIOUS
<1>1. CASE Reset
  BY <1>1, ResetInvariant
<1>2. ASSUME NEW action \in Actions, RunOut(action)
      PROVE  IInv'
  BY <1>2, EndKeeps DEF RunOut, Outcomes
<1>3. ASSUME NEW action \in Actions, HitWall(action)
      PROVE  IInv'
  BY <1>3, EndKeeps DEF HitWall, Outcomes
<1>4. ASSUME NEW action \in Actions, HitSnake(action)
      PROVE  IInv'
  <2>1. Len(snake) > 4
    BY <1>4, BiteTakesFive
  <2> QED
    BY <1>4, <2>1, EndKeeps DEF HitSnake, Outcomes
<1>5. ASSUME NEW action \in Actions, Eat(action)
      PROVE  IInv'
  BY <1>5, EatKeeps
<1>6. ASSUME NEW action \in Actions, Glide(action)
      PROVE  IInv'
  BY <1>6, GlideKeeps
<1>7. CASE UNCHANGED vars
  BY <1>7 DEF vars, IInv, BoardIsSound, MovesAreBounded, TypeOK, SnakeIsAPath, FoodIsFree, Cells,
       ScoreIsGrowth, ShortSnakesDoNotBite
<1> QED
  BY <1>1, <1>2, <1>3, <1>4, <1>5, <1>6, <1>7 DEF Next, Step

\* In every state of every game.
THEOREM Invariance == Spec => []IInv
BY InitInvariant, StepInvariant, PTL DEF Spec

\* On a grid of any size, what a move shows is a board of the game: the snake in one
\* piece on cells of its own, the food free and missing only at the end, the score the
\* growth of the snake, and no bite by a snake of four cells or fewer (SnakeGame.step).
THEOREM EveryBoardIsSound == Spec => []BoardIsSound
BY Invariance, PTL DEF IInv

\* A game ends with the first move past the limit that its snake has earned.
THEOREM EveryGameIsBounded == Spec => []MovesAreBounded
BY Invariance, PTL DEF IInv

=============================================================================
