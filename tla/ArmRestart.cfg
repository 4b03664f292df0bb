\* Does what is stored survive a restart?
SPECIFICATION Spec
CONSTANTS
    Clients = {c1}
    Casts <- StoppingCasts
    Longer <- MCLonger
    Alike <- MCAlike
    Objects <- MCObjects
INVARIANTS
    SurvivesRestarts
