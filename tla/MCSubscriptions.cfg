SPECIFICATION FairSpec
CONSTANTS
  Classes <- MCClasses
  Ids = {"o1", "o2"}
  Superclasses <- MCSuperclasses
  Subscribers = {s1, s2}
  PreSubscribers = {p1}
  ClientCriteria <- MCClientCriteria
  Transactions <- MCTransactions
  None = None
  MaxCommits = 2
INVARIANTS RegistrationCovers NothingUnasked CallbacksExist
PROPERTIES ImplementsFeed EveryChangeIsDelivered
