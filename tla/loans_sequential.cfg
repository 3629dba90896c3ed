SPECIFICATION Spec
CONSTANTS
    u1 = u1  u2 = u2  l1 = l1  l2 = l2  l3 = l3  l4 = l4
    t1 = t1  t2 = t2  t3 = t3  t4 = t4  c1 = c1  c2 = c2  c3 = c3  ref1 = ref1
    NoUser = NoUser  NoLoan = NoLoan  NoTx = NoTx  NoRow = NoRow  Deleted = Deleted
    NoRef = NoRef  NoAmount = NoAmount  NoStatus = NoStatus  NoBody = NoBody
    FirstTimeAmount = 3  LowAmount = 4  HighAmount = 6  HighScore = 3
    MaxScore = 4  FullPoints = 2  PartialPoints = 1
    Users = {u1}  Loans = {l1, l2, l3}  Txs = {t1, t2, t3}  Calls = {c1}  Refs = {ref1}
    Amounts = {1, 4}  Patches <- RaisePatches
    ReconcileTo = {"COMPLETED", "FAILED"}  ReconcileAmounts = {NoAmount}
    Ops = {"create", "remove", "approve", "reject", "disburse", "fulfil", "update",
           "repay", "repayment", "reconcile"}
    MaxActive = 1  MaxCalls = 5  Faults = FALSE
    Live = {l1}  StartAmount = 4  StartLimit = 8  AutoLimit = FALSE
SYMMETRY Sym
CHECK_DEADLOCK FALSE
 
INVARIANT ScoreExplained
 
PROPERTY StatusForward
