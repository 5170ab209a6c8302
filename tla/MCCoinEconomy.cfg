SPECIFICATION Spec
CONSTANTS
  ann = ann
  order = order
  Users = {ann}
  Purchases = {order}
  Stores = {"stripe", "google"}
  Owner <- AnnsOrder
  Paywalls = {room}
  Missions = {likes, chats}
  Players = {ann}
  Workers = {r1, r2}
  Cap = 2
  Price = 2
  GiftCost = 1
  Fee = 1
  MissionCoins = 1
  BonusCoins = 1
  Target = 1
  Openings = {0}
  MaxGifts = 1
  MaxEvents = 2
  MaxFaults = 1
INVARIANTS
  TypeOK
  WalletMatchesLedger
  ConsumedMeansDelivered
  RewardPaidOnce
  FlagMeansPaid
PROPERTIES
  ImplementsVault
  PurchasesDelivered
CHECK_DEADLOCK FALSE
