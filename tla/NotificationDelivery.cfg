\* One Notification, with and without a card; two workers, one operator retry, three faults.
SPECIFICATION FairDeliverySpec
CONSTANTS
  w1 = w1
  w2 = w2
  Workers = {w1, w2}
  MaxAttempts = 2
  MaxRetries = 1
  MaxFaults = 3
INVARIANTS DeliveryTypeOK SentCardIsLive OneMessageUnlessFault
PROPERTIES NoticeSettles
CHECK_DEADLOCK FALSE
