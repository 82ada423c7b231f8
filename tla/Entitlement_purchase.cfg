SPECIFICATION Spec
CONSTANTS
  Products = {follow3, followAll, other}
  follow3 = follow3
  follow6 = follow6
  followAll = followAll
  NoProduct = NoProduct
  MaxReceipts = 3
  MaxTransactions = 2
PROPERTY PurchaseUnlocks
