SPECIFICATION Spec
CONSTANTS
    u1 = u1  u2 = u2  l1 = l1  l2 = l2  l3 = l3  l4 = l4
    t1 = t1  t2 = t2  t3 = t3  t4 = t4  c1 = c1  c2 = c2  c3 = c3  ref1 = ref1
    NoUser = NoUser  NoLoan = NoLoan  NoTx = NoTx  NoRow = NoRow  Deleted = Deleted
    NoRef = NoRef  NoAmount = NoAmount  NoStatus = NoStatus  NoBody = NoBody
    FirstTimeAmount = 3  LowAmount = 4  HighAmount = 6  HighScore = 3
    MaxScore = 4  FullPoints = 2  PartialPoints = 1
    Users = {u1}  Loans = {l1, l2}  Txs = {t1, t2, t3}  Calls = {c1, c2}  Refs = {ref1}
    Amounts = {1}  Patches <- AnyPatches
    ReconcileTo = {"COMPLETED", "FAILED"}  ReconcileAmounts = {NoAmount, 2}
    Ops = {"create", "remove", "approve", "reject", "disburse", "fulfil", "update",
           "repay", "repayment", "reconcile"}
    MaxActive = 2  MaxCalls = 3  Faults = TRUE
    Live = {l1}  StartAmount = 2  StartLimit = 4  AutoLimit = TRUE
SYMMETRY Sym
CHECK_DEADLOCK FALSE
 
INVARIANT TransactionNumbersDense
