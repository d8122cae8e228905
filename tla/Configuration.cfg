SPECIFICATION ConfigSpec
CONSTANTS
    Together = {"epochs", "sequence_length", "batch_size", "initial", "closer_to_food", "rewards", "training"}
    Big = 20000000
    Documents <- Submissions
INVARIANTS
    AcceptedIsLegal
    AcceptedIntegersPlay
