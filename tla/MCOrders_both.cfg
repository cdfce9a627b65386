SPECIFICATION StorySpec
CONSTANTS
  Handlers = {h1, h2}
  Requests <- AllRequests
  Quantities = {1, 2}
  Fee = 5
  MaxOrders = 2
  MaxItems = 2
  MaxVersion = 3
  MaxReadbacks = 2
  None = None
SYMMETRY HandlerSymmetry
INVARIANTS DeliveryHasAddress TotalIsOfItems
PROPERTIES ConfirmedAsReadBack TakeawayIsFrozen SureChangesOnly
