SPECIFICATION Spec

CONSTANTS
  None = None
  Broken = {}
  Holidays <- MCHolidays
  Policy <- MCPolicy
  Authority <- MCAuthority
  Consents <- MCConsents
  Festivals <- MCFestivals
  Senders = {"WHATSAPP", "EMAIL", "VOICE"}
  MAX_ATTEMPTS = 2
  Classes = {"AUTH_DROPOFF"}
  Replies <- MCReplies
  Courses <- MCCourses

CHECK_DEADLOCK FALSE

INVARIANTS TypeOK SpacedContacts WeeklyCaps LadderClimbed PromiseRespected NoticeBeforeDebit DeferredAhead ObjectionsSilence
