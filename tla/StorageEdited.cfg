SPECIFICATION Spec
CONSTANTS
  Path <- SmallPath
  NameOrder <- Names
  Content = {"", "a"}
  Empty = ""
  Absent = Absent
  Dir = Dir
  Nil = Nil
  Type <- OneType
  Mime <- MCMime
  Charset <- MCCharset
  MimeSize <- MCMimeSize
  CharsetSize <- MCCharsetSize
  UTF8 = "UTF-8"
  Magic <- MCMagic
  Experimental = TRUE
  OutOfBand = TRUE
  OctetStream <- MCOctetStream
VIEW WithoutReply
INVARIANT TreeClosed
PROPERTY OnlyTargetChanges NoEmptyFolderLeft ConditionalWrite VersionsAreCurrent
