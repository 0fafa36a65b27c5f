\* As BrowserUse; a slot should not outlive its browser.
CONSTANTS
  Caller = {c1, c2}
  User = {c1, c2}
  Resource = {linkedin}
  NoCaller = NoCaller
  MaxMissed = 2
  Limit = 2
  MaxLogins = 2
SPECIFICATION UseFairSpec
INVARIANT
  NoSlotOutlivesItsBrowser
