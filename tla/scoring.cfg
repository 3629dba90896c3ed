SPECIFICATION ScoringSpec
CONSTANTS
    Missing = Missing  c1 = c1  l1 = l1
    Scorings = {c1}  FeatureRows <- MCRows  Lent <- MCLoans
    Das = {4700}  Types = {"AIRTIME"}  Exposures = {900}  Edits <- MCEdits
    Tanh <- MCTanh  Curve <- MCCurve
    MaxChecks = 2  MaxEdits = 1  MaxFaults = 1
 
INVARIANT BetterRecordNeverHurts
PROPERTY EditTakesEffect
PROPERTY VelocityDecays
